------------------------ MODULE PurchaseBudgetProofs ------------------------
(***************************************************************************)
(* Proofs about PurchaseBudget: its type invariant, the limits, that it    *)
(* implements BudgetGovernance, and that the ledger backs the counters.    *)
(* The inductive invariant IInv says that an open transaction whose        *)
(* version matches holds the row that is stored, so what it checked on the *)
(* row it read still holds when it writes; LedgerIInv adds the ledger.     *)
(***************************************************************************)
EXTENDS PurchaseBudget, SumTheorems, TLAPS

IInv == TypeOK /\ ReadsAgree /\ ChecksStand

\* A write to a row that no other open transaction can take for its own read.
Advances(old, new) ==
    /\ new \in Rows
    /\ new.exists
    /\ new.version >= old.version
    /\ old.exists => new.version > old.version

\* An open transaction is one of the two kinds of record, and says which.
LEMMA OpenTx ==
    ASSUME TypeOK, NEW t \in Txs
    PROVE  /\ IsIdle(t) <=> txs[t] \in Idle
           /\ ~IsIdle(t) => \/ txs[t] \in Postings /\ txs[t].op # "SET"
                            \/ txs[t] \in Settings /\ txs[t].op = "SET"
<1>1. txs[t] \in Postings \cup Settings \cup Idle
  BY DEF TypeOK
<1>2. CASE txs[t] \in Idle
  BY <1>2 DEF Idle, IsIdle
<1>3. CASE txs[t] \in Postings
  <2>1. "answer" \notin DOMAIN txs[t] /\ txs[t].op # "SET" /\ txs[t] \notin Idle
    BY <1>3 DEF Postings, EntryTypes, Idle
  <2> QED BY <1>3, <2>1 DEF IsIdle
<1>4. CASE txs[t] \in Settings
  <2>1. "answer" \notin DOMAIN txs[t] /\ txs[t].op = "SET" /\ txs[t] \notin Idle
    BY <1>4 DEF Settings, Idle
  <2> QED BY <1>4, <2>1 DEF IsIdle
<1> QED BY <1>1, <1>2, <1>3, <1>4

LEMMA InitIInv == Init => IInv
<1> SUFFICES ASSUME Init PROVE IInv
  OBVIOUS
<1>1. TypeOK
  BY DEF Init, TypeOK, NoRow, Rows, Idle, Answers
<1>2. \A t \in Txs : IsIdle(t)
  BY DEF Init, IsIdle
<1> QED BY <1>1, <1>2 DEF Init, IInv, ReadsAgree, ChecksStand

\* A read leaves the tables alone; at most it opens or answers transaction t.
LEMMA ReadKeepsIInv ==
    ASSUME IInv, NEW t \in Txs, Read(t)
    PROVE  IInv' /\ UNCHANGED <<rows, entries>>
<1> USE BudgetAssumption
<1>1. TypeOK /\ ReadsAgree /\ ChecksStand
  BY DEF IInv
<1>2. ASSUME UNCHANGED <<rows, entries>>, NEW tx,
             txs' = [txs EXCEPT ![t] = tx],
             charged' \subseteq Sources, refunded' \subseteq Sources,
             \/ tx \in Idle
             \/ /\ tx \in Postings \cup Settings
                /\ tx.row = rows[tx.budget]
                /\ tx.op = "SET" => tx.amount \in Limits /\ tx.single \in Limits
                /\ tx.op # "SET" => tx.amount \in Cents
                /\ tx.op = "RESERVE" => WithinLimits(tx.row, tx.amount)
                /\ tx.op = "REVERSE" => tx.amount <= tx.row.consumed
      PROVE  IInv'
  <2>1. TypeOK'
    BY <1>1, <1>2 DEF TypeOK
  <2>2. \A u \in Txs : u # t => txs'[u] = txs[u]
    BY <1>1, <1>2 DEF TypeOK
  <2>3. txs'[t] = tx
    BY <1>1, <1>2 DEF TypeOK
  <2>4. tx \in Idle => IsIdle(t)'
    BY <2>3 DEF IsIdle, Idle
  <2>5. \A u \in Txs : u # t => IsIdle(u)' = IsIdle(u)
    BY <2>2 DEF IsIdle
  <2>6. ~IsIdle(t)' => tx.row = rows[tx.budget] /\ tx \in Postings \cup Settings
    BY <1>2, <2>4
  <2>7. ~IsIdle(t)' => txs'[t].row.version \in Nat
    BY <2>6, <2>3 DEF Postings, Settings, Rows
  <2>8. ReadsAgree'
    BY <1>1, <1>2, <2>2, <2>3, <2>5, <2>6, <2>7 DEF ReadsAgree
  <2>9. ChecksStand'
    BY <1>1, <1>2, <2>2, <2>3, <2>4, <2>5 DEF ChecksStand, WithinLimits
  <2> QED BY <2>1, <2>8, <2>9 DEF IInv
<1>3. \A answer \in Answers : [answer |-> answer] \in Idle
  BY DEF Idle
<1>4. \A e \in entries : e \in Entries
  BY <1>1 DEF TypeOK
<1>5. \A e \in entries : e.type \in {"RESERVE", "CONSUME"} => e.amount \in Cents
  BY <1>1 DEF ChecksStand
<1>6. charged \subseteq Sources /\ refunded \subseteq Sources /\ rows \in [Budgets -> Rows]
  BY <1>1 DEF TypeOK
<1>7. ASSUME NEW b \in Budgets, NEW s \in Sources, NEW a \in Cents, ReserveRead(t, b, s, a)
      PROVE  IInv' /\ UNCHANGED <<rows, entries>>
  <2>1. UNCHANGED <<rows, entries, charged, refunded>>
    BY <1>7 DEF ReserveRead
  <2>2. CASE WithinLimits(rows[b], a) /\ Open(t, "RESERVE", b, s, a)
    <3> DEFINE tx == [op |-> "RESERVE", budget |-> b, source |-> s, amount |-> a, row |-> rows[b]]
    <3>1. tx \in Postings
      BY <1>6 DEF Postings, EntryTypes
    <3>2. txs' = [txs EXCEPT ![t] = tx]
      BY <2>2 DEF Open
    <3> QED BY <1>2, <1>6, <2>1, <2>2, <3>1, <3>2
  <2>3. CASE Answer(t, "refused")
    BY <1>2, <1>3, <1>6, <2>1, <2>3 DEF Answer, Answers
  <2> QED BY <1>7, <2>1, <2>2, <2>3 DEF ReserveRead
<1>8. ASSUME NEW s \in Sources, ReleaseRead(t, s)
      PROVE  IInv' /\ UNCHANGED <<rows, entries>>
  <2>1. UNCHANGED <<rows, entries, charged, refunded>>
    BY <1>8 DEF ReleaseRead
  <2>2. PICK e \in entries : e.type = "RESERVE" /\ Open(t, "RELEASE", e.budget, s, e.amount)
    BY <1>8 DEF ReleaseRead, FindBySource
  <2> DEFINE tx == [op |-> "RELEASE", budget |-> e.budget, source |-> s, amount |-> e.amount, row |-> rows[e.budget]]
  <2>3. e.budget \in Budgets /\ e.amount \in Cents
    BY <1>4, <1>5, <2>2 DEF Entries
  <2>4. tx \in Postings
    BY <1>6, <2>3 DEF Postings, EntryTypes
  <2>5. txs' = [txs EXCEPT ![t] = tx]
    BY <2>2 DEF Open
  <2> QED BY <1>2, <1>6, <2>1, <2>3, <2>4, <2>5
<1>9. ASSUME NEW s \in Sources, ConsumeRead(t, s)
      PROVE  IInv' /\ UNCHANGED <<rows, entries>>
  <2>1. UNCHANGED <<rows, entries, refunded>> /\ charged' \subseteq Sources
    BY <1>6, <1>9 DEF ConsumeRead
  <2>2. PICK e \in entries : e.type = "RESERVE" /\ Open(t, "CONSUME", e.budget, s, e.amount)
    BY <1>9 DEF ConsumeRead, FindBySource
  <2> DEFINE tx == [op |-> "CONSUME", budget |-> e.budget, source |-> s, amount |-> e.amount, row |-> rows[e.budget]]
  <2>3. e.budget \in Budgets /\ e.amount \in Cents
    BY <1>4, <1>5, <2>2 DEF Entries
  <2>4. tx \in Postings
    BY <1>6, <2>3 DEF Postings, EntryTypes
  <2>5. txs' = [txs EXCEPT ![t] = tx]
    BY <2>2 DEF Open
  <2> QED BY <1>2, <1>6, <2>1, <2>3, <2>4, <2>5
<1>10. ASSUME NEW s \in Sources, ReverseRead(t, s)
       PROVE  IInv' /\ UNCHANGED <<rows, entries>>
  <2>1. UNCHANGED <<rows, entries, charged>> /\ refunded' \subseteq Sources
    BY <1>6, <1>10 DEF ReverseRead
  <2>2. CASE Answer(t, "refused")
    BY <1>2, <1>3, <1>6, <2>1, <2>2 DEF Answer, Answers
  <2>3. ASSUME NEW e \in entries, e.type = "CONSUME",
               rows[e.budget].consumed >= e.amount, Open(t, "REVERSE", e.budget, s, e.amount)
        PROVE  IInv'
    <3> DEFINE tx == [op |-> "REVERSE", budget |-> e.budget, source |-> s, amount |-> e.amount, row |-> rows[e.budget]]
    <3>1. e.budget \in Budgets /\ e.amount \in Cents
      BY <1>4, <1>5, <2>3 DEF Entries
    <3>2. tx \in Postings
      BY <1>6, <3>1 DEF Postings, EntryTypes
    <3>3. txs' = [txs EXCEPT ![t] = tx]
      BY <2>3 DEF Open
    <3>4. e.amount <= rows[e.budget].consumed
      BY <2>3, <3>1, <1>6 DEF Rows
    <3> QED BY <1>2, <1>6, <2>1, <3>1, <3>2, <3>3, <3>4
  <2> QED BY <1>10, <2>1, <2>2, <2>3 DEF ReverseRead, FindBySource
<1>11. ASSUME NEW b \in Budgets, NEW amount \in Limits, NEW single \in Limits,
              SetBudgetRead(t, b, amount, single)
       PROVE  IInv' /\ UNCHANGED <<rows, entries>>
  <2> DEFINE tx == [op |-> "SET", budget |-> b, amount |-> amount, single |-> single, row |-> rows[b]]
  <2>1. tx \in Settings
    BY <1>6 DEF Settings
  <2>2. UNCHANGED <<rows, entries, charged, refunded>> /\ txs' = [txs EXCEPT ![t] = tx]
    BY <1>11 DEF SetBudgetRead
  <2> QED BY <1>2, <1>6, <2>1, <2>2
<1> QED BY <1>7, <1>8, <1>9, <1>10, <1>11 DEF Read

\* Move rewrites one row into a row, and advances it.
LEMMA MoveAdvances ==
    ASSUME NEW row \in Rows, NEW d \in Int, NEW e \in Int,
           row.reserved + d >= 0, row.consumed + e >= 0
    PROVE  Advances(row, Moved(row, d, e))
  BY DEF Advances, Moved, Rows

\* Every write either leaves the rows alone, or moves a posting's row under a
\* matching version, or stores a setting's limits under a matching version.
PostsTo(t) ==
    /\ txs[t] \in Postings
    /\ VersionMatches(t)
    /\ \/ txs[t].op = "RESERVE" /\ Move(t, txs[t].amount, 0)
       \/ /\ txs[t].op = "RELEASE" /\ rows[txs[t].budget].reserved >= txs[t].amount
          /\ Move(t, -txs[t].amount, 0)
       \/ /\ txs[t].op = "CONSUME" /\ rows[txs[t].budget].reserved >= txs[t].amount
          /\ Move(t, -txs[t].amount, txs[t].amount)
       \/ txs[t].op = "REVERSE" /\ Move(t, 0, -txs[t].amount)

Stores(t) ==
    /\ txs[t] \in Settings
    /\ VersionMatches(t)
    /\ \E v \in {txs[t].row.version, txs[t].row.version + 1} :
         /\ txs[t].row.exists => v = txs[t].row.version + 1
         /\ Store(t, v)

LEMMA WriteCases ==
    ASSUME IInv, NEW t \in Txs, Write(t)
    PROVE  /\ ~IsIdle(t) /\ UNCHANGED <<charged, refunded>>
           /\ \E answer \in Answers : Answer(t, answer)
           /\ \/ PostsTo(t) /\ \E d \in Int : InsertEntry(t, d) /\ (txs[t].op \in {"RESERVE", "CONSUME"} => d = txs[t].amount)
                                                       /\ (txs[t].op \in {"RELEASE", "REVERSE"} => d = -txs[t].amount)
              \/ UNCHANGED entries /\ (UNCHANGED rows \/ Stores(t))
<1>1. TypeOK /\ ~IsIdle(t) /\ UNCHANGED <<charged, refunded>>
  BY DEF IInv, Write
<1>2. \/ txs[t] \in Postings /\ txs[t].op # "SET"
      \/ txs[t] \in Settings /\ txs[t].op = "SET"
  BY <1>1, OpenTx
<1> USE DEF Answers
<1>3. CASE Rollback(t) \/ Conflict(t)
  BY <1>1, <1>3 DEF Rollback, Conflict
<1>4. CASE txs[t].op = "RESERVE" /\ ReserveWrite(t)
  BY <1>1, <1>2, <1>3, <1>4 DEF ReserveWrite, PostsTo, Postings
<1>5. CASE txs[t].op = "RELEASE" /\ ReleaseWrite(t)
  BY <1>1, <1>2, <1>3, <1>5 DEF ReleaseWrite, PostsTo, Postings
<1>6. CASE txs[t].op = "CONSUME" /\ ConsumeWrite(t)
  BY <1>1, <1>2, <1>3, <1>6 DEF ConsumeWrite, PostsTo, Postings
<1>7. CASE txs[t].op = "REVERSE" /\ ReverseWrite(t)
  BY <1>1, <1>2, <1>3, <1>7 DEF ReverseWrite, PostsTo, Postings
<1>8. CASE txs[t].op = "SET" /\ SetBudgetWrite(t)
  <2>1. txs[t] \in Settings /\ txs[t].row \in Rows
    BY <1>2, <1>8 DEF Settings
  <2>2. UNCHANGED entries /\ \E answer \in Answers : Answer(t, answer)
    BY <1>8 DEF SetBudgetWrite
  <2>3. CASE txs[t].row.exists
    BY <1>1, <1>8, <2>1, <2>2, <2>3 DEF SetBudgetWrite, Stores
  <2>4. CASE ~txs[t].row.exists
    <3>1. ASSUME VersionMatches(t), Store(t, 0)
          PROVE  Stores(t)
      <4>1. txs[t].row.version = 0
        <5>1. txs[t].budget \in Budgets /\ ~rows[txs[t].budget].exists
          BY <2>1, <2>4, <3>1 DEF Settings, VersionMatches
        <5>2. rows[txs[t].budget] = NoRow
          BY <5>1 DEF IInv, ReadsAgree
        <5> QED BY <3>1, <5>2 DEF VersionMatches, NoRow
      <4> QED BY <2>1, <2>4, <3>1, <4>1 DEF Stores
    <3> QED BY <1>1, <1>8, <2>2, <2>4, <3>1 DEF SetBudgetWrite
  <2> QED BY <2>3, <2>4
<1> QED BY <1>3, <1>4, <1>5, <1>6, <1>7, <1>8 DEF Write

\* A write that changes a row advances it, and was made under a matching version.
LEMMA WriteAdvances ==
    ASSUME IInv, NEW t \in Txs, Write(t)
    PROVE  \/ UNCHANGED rows
           \/ /\ VersionMatches(t)
              /\ txs[t].budget \in Budgets
              /\ \E new : /\ rows' = [rows EXCEPT ![txs[t].budget] = new]
                          /\ Advances(rows[txs[t].budget], new)
<1> USE BudgetAssumption
<1> DEFINE b == txs[t].budget
<1>1. TypeOK /\ ReadsAgree /\ ChecksStand /\ ~IsIdle(t)
  BY WriteCases DEF IInv
<1>2. CASE PostsTo(t)
  <2>1. txs[t] \in Postings /\ VersionMatches(t)
    BY <1>2 DEF PostsTo
  <2>2. b \in Budgets /\ txs[t].amount \in Nat /\ rows[b] \in Rows /\ txs[t].row \in Rows
    BY <1>1, <2>1 DEF Postings, TypeOK
  <2>3. txs[t].row = rows[b]
    BY <1>1, <2>1 DEF ReadsAgree, VersionMatches
  <2>4. txs[t].op = "REVERSE" => txs[t].amount <= rows[b].consumed
    BY <1>1, <2>3 DEF ChecksStand
  <2>5. rows[b].reserved \in Nat /\ rows[b].consumed \in Nat
    BY <2>2 DEF Rows
  <2>6. PICK d \in Int, e \in Int :
          Move(t, d, e) /\ rows[b].reserved + d >= 0 /\ rows[b].consumed + e >= 0
    BY <1>2, <2>2, <2>4, <2>5 DEF PostsTo
  <2> QED BY <1>1, <2>1, <2>2, <2>6, MoveAdvances DEF Move
<1>3. CASE Stores(t)
  <2>1. txs[t] \in Settings /\ VersionMatches(t)
    BY <1>3 DEF Stores
  <2>2. b \in Budgets /\ txs[t].amount \in Nat /\ txs[t].single \in Nat /\ txs[t].row \in Rows
    BY <2>1 DEF Settings
  <2>3. txs[t].row = rows[b]
    BY <1>1, <2>1 DEF ReadsAgree, VersionMatches
  <2>4. PICK v \in {txs[t].row.version, txs[t].row.version + 1} :
          (txs[t].row.exists => v = txs[t].row.version + 1) /\ Store(t, v)
    BY <1>3 DEF Stores
  <2>5. Advances(rows[b], LimitsStored(txs[t].row, txs[t].amount, txs[t].single, v))
    BY <2>2, <2>3, <2>4 DEF Advances, LimitsStored, Rows
  <2> QED BY <2>1, <2>2, <2>4, <2>5 DEF Store
<1> QED BY <1>2, <1>3, WriteCases

\* A write keeps the invariant: the other transactions that read the row it
\* rewrites now hold an older version.
LEMMA WriteKeepsIInv ==
    ASSUME IInv, NEW t \in Txs, Write(t)
    PROVE  IInv'
<1> USE BudgetAssumption
<1>1. TypeOK /\ ReadsAgree /\ ChecksStand /\ ~IsIdle(t) /\ UNCHANGED <<charged, refunded>>
  BY WriteCases DEF IInv
<1>2. PICK answer \in Answers : txs' = [txs EXCEPT ![t] = [answer |-> answer]]
  BY WriteCases DEF Answer
<1>3. /\ IsIdle(t)' /\ txs'[t] \in Idle
      /\ \A u \in Txs : u # t => txs'[u] = txs[u]
      /\ txs' \in [Txs -> Postings \cup Settings \cup Idle]
  BY <1>1, <1>2 DEF TypeOK, IsIdle, Idle
<1>4. \A u \in Txs : ~IsIdle(u)' => u # t /\ ~IsIdle(u) /\ txs'[u] = txs[u]
  BY <1>3 DEF IsIdle
<1>5. /\ entries' \subseteq Entries
      /\ \A e \in entries' : e.type \in {"RESERVE", "CONSUME"} => e.amount \in Cents
  <2>1. CASE UNCHANGED entries
    BY <1>1, <2>1 DEF TypeOK, ChecksStand
  <2>2. ASSUME PostsTo(t), NEW d \in Int, InsertEntry(t, d),
               txs[t].op \in {"RESERVE", "CONSUME"} => d = txs[t].amount
        PROVE  /\ entries' \subseteq Entries
               /\ \A e \in entries' : e.type \in {"RESERVE", "CONSUME"} => e.amount \in Cents
    <3> DEFINE entry == [type |-> txs[t].op, source |-> txs[t].source,
                         budget |-> txs[t].budget, amount |-> d]
    <3>1. txs[t] \in Postings /\ txs[t].op # "SET"
      BY <2>2 DEF PostsTo, Postings, EntryTypes
    <3>2. entry \in Entries
      BY <3>1 DEF Postings, Entries
    <3>3. entry.type \in {"RESERVE", "CONSUME"} => entry.amount \in Cents
      BY <1>1, <2>2, <3>1 DEF ChecksStand
    <3>4. entries' = entries \/ entries' = entries \cup {entry}
      BY <2>2 DEF InsertEntry
    <3> QED BY <1>1, <3>2, <3>3, <3>4 DEF TypeOK, ChecksStand
  <2> QED BY <2>1, <2>2, WriteCases
<1>6. ChecksStand'
  BY <1>1, <1>4, <1>5 DEF ChecksStand, WithinLimits
<1>7. CASE UNCHANGED rows
  <2>1. TypeOK'
    BY <1>1, <1>3, <1>5, <1>7 DEF TypeOK
  <2>2. ReadsAgree'
    BY <1>1, <1>4, <1>7 DEF ReadsAgree
  <2> QED BY <1>6, <2>1, <2>2 DEF IInv
<1>8. ASSUME VersionMatches(t), txs[t].budget \in Budgets, NEW new,
             rows' = [rows EXCEPT ![txs[t].budget] = new],
             Advances(rows[txs[t].budget], new)
      PROVE  IInv'
  <2> DEFINE b == txs[t].budget
  <2>1. new \in Rows /\ new.exists /\ new.version >= rows[b].version
        /\ (rows[b].exists => new.version > rows[b].version)
    BY <1>8 DEF Advances
  <2>2. rows' \in [Budgets -> Rows] /\ rows'[b] = new
        /\ \A c \in Budgets : c # b => rows'[c] = rows[c]
    BY <1>1, <1>8, <2>1 DEF TypeOK
  <2>3. TypeOK'
    BY <1>1, <1>3, <1>5, <2>2 DEF TypeOK
  <2>4. \A c \in Budgets : ~rows'[c].exists => rows'[c] = NoRow
    BY <1>1, <2>1, <2>2 DEF ReadsAgree
  <2>5. ASSUME NEW u \in Txs, ~IsIdle(u)'
        PROVE  LET read == txs'[u].row
                   now  == rows'[txs'[u].budget]
               IN  /\ read.exists => now.exists
                   /\ read.version <= now.version
                   /\ (read.exists = now.exists /\ read.version = now.version) => read = now
    <3> DEFINE read == txs[u].row
               old == rows[txs[u].budget]
    <3>1. u # t /\ ~IsIdle(u) /\ txs'[u] = txs[u]
      BY <1>4, <2>5
    <3>2. txs[u].budget \in Budgets /\ read \in Rows /\ old \in Rows
      <4>1. txs[u] \in Postings \/ txs[u] \in Settings
        BY <1>1, <3>1, OpenTx
      <4> QED BY <1>1, <4>1 DEF Postings, Settings, TypeOK
    <3>3. /\ read.exists => old.exists
          /\ read.version <= old.version
          /\ (read.exists = old.exists /\ read.version = old.version) => read = old
      BY <1>1, <3>1 DEF ReadsAgree
    <3>4. CASE txs[u].budget = b
      <4>1. read.version \in Nat /\ old.version \in Nat /\ new.version \in Nat
            /\ read.exists \in BOOLEAN /\ old.exists \in BOOLEAN /\ new.exists \in BOOLEAN
        BY <2>1, <3>2 DEF Rows
      <4>2. read.version <= new.version
        BY <2>1, <3>3, <3>4, <4>1
      <4>3. ~(read.exists = new.exists /\ read.version = new.version)
        <5>1. CASE old.exists
          <6>1. new.version > old.version
            BY <2>1, <3>4, <5>1
          <6> QED BY <3>3, <4>1, <6>1
        <5>2. CASE ~old.exists
          <6>1. ~read.exists /\ new.exists
            BY <2>1, <3>3, <5>2
          <6> QED BY <6>1
        <5> QED BY <5>1, <5>2
      <4> QED BY <2>1, <2>2, <3>1, <3>4, <4>2, <4>3
    <3>5. CASE txs[u].budget # b
      BY <2>2, <3>1, <3>2, <3>3, <3>5
    <3> QED BY <3>4, <3>5
  <2>6. ReadsAgree'
    BY <2>4, <2>5 DEF ReadsAgree
  <2> QED BY <1>6, <2>3, <2>6 DEF IInv
<1> QED BY <1>7, <1>8, WriteAdvances

LEMMA StepKeepsIInv == IInv /\ [Next]_vars => IInv'
<1> SUFFICES ASSUME IInv, [Next]_vars PROVE IInv'
  OBVIOUS
<1>1. CASE UNCHANGED vars
  BY <1>1 DEF IInv, TypeOK, ReadsAgree, ChecksStand, IsIdle, FindBySource, vars, WithinLimits
<1>2. CASE Next
  BY <1>2, ReadKeepsIInv, WriteKeepsIInv DEF Next
<1> QED BY <1>1, <1>2

\* In every reachable state of every instance: the tables and the open
\* transactions are well typed (no counter is negative), a transaction whose
\* version matches holds the stored row, and what it checked holds of that row.
THEOREM InvariantHolds == Spec => []IInv
<1>1. Init => IInv
  BY InitIInv
<1>2. IInv /\ [Next]_vars => IInv'
  BY StepKeepsIInv
<1> QED BY <1>1, <1>2, PTL DEF Spec

\* No counter of a budget is ever negative and every table keeps its type,
\* although reverse compares consumed_cents with a row it read before.
THEOREM TypeCorrect == Spec => []TypeOK
<1>1. IInv => TypeOK
  BY DEF IInv
<1> QED BY <1>1, InvariantHolds, PTL

\* The version check that guards the updates is enough, whatever interleaves.
THEOREM VersionCheckSuffices == Spec => []ReadsAgree
<1>1. IInv => ReadsAgree
  BY DEF IInv
<1> QED BY <1>1, InvariantHolds, PTL

\* A reservation takes effect only inside the limits of the moment, for every
\* number of scopes, requests and concurrent transactions.
THEOREM LimitsHold == Spec => ReserveRespectsLimits
<1> USE BudgetAssumption
<1> DEFINE Grants == \A b \in Budgets :
         rows'[b].reserved > rows[b].reserved =>
             WithinLimits(rows[b], rows'[b].reserved - rows[b].reserved)
<1>1. IInv /\ [Next]_vars => [Grants]_vars
  <2> SUFFICES ASSUME IInv, Next PROVE Grants
    OBVIOUS
  <2>1. TypeOK /\ ReadsAgree /\ ChecksStand
    BY DEF IInv
  <2>2. \A c \in Budgets : rows[c].reserved \in Nat
    BY <2>1 DEF TypeOK, Rows
  <2>3. CASE UNCHANGED rows
    BY <2>2, <2>3
  <2>4. ASSUME NEW t \in Txs, Write(t), ~UNCHANGED rows PROVE Grants
    <3>1. ~IsIdle(t) /\ VersionMatches(t) /\ txs[t].budget \in Budgets
      BY <2>4, WriteAdvances, WriteCases
    <3>2. txs[t].row = rows[txs[t].budget]
      BY <2>1, <3>1 DEF ReadsAgree, VersionMatches
    <3>3. txs[t].amount \in Nat
      BY <2>1, <3>1, OpenTx DEF Postings, Settings
    <3>4. CASE PostsTo(t)
      <4>1. PICK d \in Int, e \in Int :
              /\ Move(t, d, e)
              /\ d > 0 => txs[t].op = "RESERVE" /\ d = txs[t].amount
        BY <3>3, <3>4 DEF PostsTo
      <4>2. /\ rows'[txs[t].budget].reserved = rows[txs[t].budget].reserved + d
            /\ \A c \in Budgets : c # txs[t].budget => rows'[c] = rows[c]
        BY <2>1, <3>1, <4>1 DEF Move, Moved, TypeOK
      <4>3. d > 0 => WithinLimits(rows[txs[t].budget], d)
        BY <2>1, <3>1, <3>2, <4>1 DEF ChecksStand
      <4>4. ASSUME NEW c \in Budgets, rows'[c].reserved > rows[c].reserved
            PROVE  WithinLimits(rows[c], rows'[c].reserved - rows[c].reserved)
        <5>1. c = txs[t].budget
          BY <2>2, <4>2, <4>4
        <5>2. d > 0 /\ rows'[c].reserved - rows[c].reserved = d
          BY <2>2, <4>2, <4>4, <5>1
        <5> QED BY <4>3, <5>1, <5>2
      <4> QED BY <4>4
    <3>5. CASE Stores(t)
      <4>1. \A c \in Budgets : rows'[c].reserved = rows[c].reserved
        BY <2>1, <3>1, <3>2, <3>5 DEF Stores, Store, LimitsStored, TypeOK
      <4> QED BY <2>2, <4>1
    <3> QED BY <2>4, <3>4, <3>5, WriteCases
  <2> QED BY <2>3, <2>4, ReadKeepsIInv DEF Next
<1> QED BY <1>1, InvariantHolds, PTL DEF Spec, ReserveRespectsLimits

\* The refinement mapping, one row at a time.
LEMMA PurseOfWrite ==
    ASSUME TypeOK, NEW b \in Budgets, NEW new, rows' = [rows EXCEPT ![b] = new]
    PROVE  /\ Purse' = [Purse EXCEPT ![b] = [amount |-> new.amount, single |-> new.single,
                                            reserved |-> new.reserved, consumed |-> new.consumed]]
           /\ Purse[b].amount = rows[b].amount /\ Purse[b].single = rows[b].single
           /\ Purse[b].reserved = rows[b].reserved /\ Purse[b].consumed = rows[b].consumed
  BY DEF TypeOK, Purse

\* The read-check-update transactions implement the single-step budget: every
\* behaviour of PurchaseBudget is one of BudgetGovernance.
THEOREM BudgetRefinement == Spec => ImplementsGovernance
<1> USE BudgetAssumption
<1>1. Init => Governance!Init
  BY DEF Init, NoRow, Purse, Governance!Init
<1>2. IInv /\ [Next]_vars => [Governance!Next]_Purse
  <2> SUFFICES ASSUME IInv, Next, Purse' # Purse PROVE Governance!Next
    BY DEF vars, Purse
  <2>1. TypeOK /\ ReadsAgree /\ ChecksStand
    BY DEF IInv
  <2>2. PICK t \in Txs : Write(t) /\ ~UNCHANGED rows
    BY ReadKeepsIInv DEF Next, Purse
  <2> DEFINE b == txs[t].budget
             a == txs[t].amount
  <2>3. ~IsIdle(t) /\ VersionMatches(t) /\ b \in Budgets
    BY <2>2, WriteAdvances, WriteCases
  <2>4. txs[t].row = rows[b]
    BY <2>1, <2>3 DEF ReadsAgree, VersionMatches
  <2>5. CASE PostsTo(t)
    <3>1. txs[t] \in Postings /\ txs[t].op # "SET"
      BY <2>5 DEF PostsTo, Postings, EntryTypes
    <3>2. a \in Cents /\ a \in Nat /\ rows[b].reserved \in Nat /\ rows[b].consumed \in Nat
      BY <2>1, <2>3, <3>1 DEF ChecksStand, TypeOK, Rows
    <3>3. ASSUME NEW d \in Int, NEW e \in Int, Move(t, d, e)
          PROVE  Governance!Move(b, d, e)
      <4> DEFINE new == Moved(rows[b], d, e)
                 view == [amount |-> new.amount, single |-> new.single,
                          reserved |-> new.reserved, consumed |-> new.consumed]
      <4>1. rows' = [rows EXCEPT ![b] = new]
        BY <3>3 DEF Move
      <4>2. /\ Purse' = [Purse EXCEPT ![b] = view]
            /\ Purse[b].amount = rows[b].amount /\ Purse[b].single = rows[b].single
            /\ Purse[b].reserved = rows[b].reserved /\ Purse[b].consumed = rows[b].consumed
        <5> HIDE DEF new
        <5> QED BY <2>1, <2>3, <4>1, PurseOfWrite
      <4>3. view = Governance!Moved(Purse[b], d, e)
        BY <4>2 DEF Moved, Governance!Moved
      <4> HIDE DEF view
      <4> QED BY <4>2, <4>3 DEF Governance!Move
    <3>4. /\ Purse[b].reserved = rows[b].reserved /\ Purse[b].consumed = rows[b].consumed
          /\ Purse[b].amount = rows[b].amount /\ Purse[b].single = rows[b].single
      BY <2>3 DEF Purse
    <3>5. CASE txs[t].op = "RESERVE" /\ Move(t, a, 0)
      <4>1. WithinLimits(rows[b], a)
        BY <2>1, <2>3, <2>4, <3>5 DEF ChecksStand
      <4>2. Governance!Reserve(b, a)
        BY <3>2, <3>3, <3>4, <3>5, <4>1 DEF Governance!Reserve, Governance!WithinLimits, WithinLimits
      <4> QED BY <2>3, <3>2, <4>2 DEF Governance!Next
    <3>6. CASE rows[b].reserved >= a /\ Move(t, -a, 0)
      <4>1. Governance!Release(b, a)
        BY <3>2, <3>3, <3>4, <3>6 DEF Governance!Release
      <4> QED BY <2>3, <3>2, <4>1 DEF Governance!Next
    <3>7. CASE rows[b].reserved >= a /\ Move(t, -a, a)
      <4>1. Governance!Consume(b, a)
        BY <3>2, <3>3, <3>4, <3>7 DEF Governance!Consume
      <4> QED BY <2>3, <3>2, <4>1 DEF Governance!Next
    <3>8. CASE txs[t].op = "REVERSE" /\ Move(t, 0, -a)
      <4>1. a <= rows[b].consumed
        BY <2>1, <2>3, <2>4, <3>8 DEF ChecksStand
      <4>2. Governance!Move(b, 0, -a)
        <5>1. 0 \in Int /\ -a \in Int
          BY <3>2
        <5> QED BY <3>3, <3>8, <5>1
      <4>3. Governance!Reverse(b, a)
        BY <3>4, <4>1, <4>2 DEF Governance!Reverse
      <4> QED BY <2>3, <3>2, <4>3 DEF Governance!Next
    <3> QED BY <2>5, <3>5, <3>6, <3>7, <3>8 DEF PostsTo
  <2>6. CASE Stores(t)
    <3>1. txs[t].amount \in Limits /\ txs[t].single \in Limits
      BY <2>1, <2>3, <2>6 DEF ChecksStand, Stores, Settings
    <3>2. PICK v \in {txs[t].row.version, txs[t].row.version + 1} : Store(t, v)
      BY <2>6 DEF Stores
    <3>3. rows' = [rows EXCEPT ![b] = LimitsStored(rows[b], txs[t].amount, txs[t].single, v)]
      BY <2>4, <3>2 DEF Store
    <3>4. Governance!SetLimits(b, txs[t].amount, txs[t].single)
      <4> DEFINE new == LimitsStored(rows[b], txs[t].amount, txs[t].single, v)
                 view == [amount |-> new.amount, single |-> new.single,
                          reserved |-> new.reserved, consumed |-> new.consumed]
      <4>1. /\ Purse' = [Purse EXCEPT ![b] = view]
            /\ Purse[b].reserved = rows[b].reserved /\ Purse[b].consumed = rows[b].consumed
        <5>1. rows' = [rows EXCEPT ![b] = new]
          BY <3>3
        <5> HIDE DEF new
        <5> QED BY <2>1, <2>3, <5>1, PurseOfWrite
      <4>2. view = [amount |-> txs[t].amount, single |-> txs[t].single,
                    reserved |-> Purse[b].reserved, consumed |-> Purse[b].consumed]
        BY <4>1 DEF LimitsStored
      <4> HIDE DEF view
      <4> QED BY <4>1, <4>2 DEF Governance!SetLimits
    <3> QED BY <2>3, <3>1, <3>4 DEF Governance!Next
  <2> QED BY <2>2, <2>5, <2>6, WriteCases
<1> QED BY <1>1, <1>2, InvariantHolds, PTL DEF Spec, ImplementsGovernance, Governance!Spec

-----------------------------------------------------------------------------
(* The counters and the ledger.                                            *)

\* An operation that is done once for a source: while it is open the ledger
\* has no entry of it, and no other transaction is doing the same.
Alone(t) ==
    /\ FindBySource(txs[t].op, txs[t].source) = {}
    /\ \A u \in Txs \ {t} :
         ~IsIdle(u) => ~(txs[u].op = txs[t].op /\ txs[u].source = txs[t].source)

\* A reservation, a consumption and a reversal enter the ledger once for each
\* source, so insertEntry never skips the entry of one.
PostedOnce ==
    /\ \A e \in entries : /\ e.type = "CONSUME" => e.source \in charged
                          /\ e.type = "REVERSE" => e.source \in refunded
    /\ \A t \in Txs : ~IsIdle(t) =>
         /\ txs[t].op \in {"RESERVE", "CONSUME", "REVERSE"} => Alone(t)
         /\ txs[t].op = "CONSUME" => txs[t].source \in charged
         /\ txs[t].op = "REVERSE" => txs[t].source \in refunded

LedgerIInv == IInv /\ IsFiniteSet(entries) /\ PostedOnce /\ CountersBackedByLedger

\* What the entries of E post to a scope, so that E may be the next ledger.
PostedIn(E, type, b) ==
    SumFunctionOnSet([e \in E |-> e.amount], {e \in E : e.type = type /\ e.budget = b})

LEMMA PostedIsInteger ==
    ASSUME NEW E, IsFiniteSet(E), \A e \in E : e.amount \in Int, NEW type, NEW b
    PROVE  PostedIn(E, type, b) \in Int
<1> DEFINE S == {e \in E : e.type = type /\ e.budget = b}
           f == [e \in E |-> e.amount]
<1>1. IsFiniteSet(S) /\ S \subseteq E
  BY FS_Subset
<1>2. \A e \in S : f[e] \in Int
  BY <1>1
<1> HIDE DEF S, f
<1>3. SumFunctionOnSet(f, S) \in Int
  BY <1>1, <1>2, SumIsInteger
<1> QED BY <1>3 DEF PostedIn, S, f

\* A new entry adds its amount to what its type has posted to its scope.
LEMMA PostedWithNew ==
    ASSUME NEW E, IsFiniteSet(E), NEW n, n \notin E,
           \A e \in E \cup {n} : e.amount \in Int, NEW type, NEW b
    PROVE  PostedIn(E \cup {n}, type, b) =
             PostedIn(E, type, b) + IF n.type = type /\ n.budget = b THEN n.amount ELSE 0
<1> DEFINE S == {e \in E : e.type = type /\ e.budget = b}
           T == {e \in E \cup {n} : e.type = type /\ e.budget = b}
           f == [e \in E |-> e.amount]
           g == [e \in E \cup {n} |-> e.amount]
<1>1. IsFiniteSet(S) /\ n \notin S /\ S \subseteq E
  BY FS_Subset
<1>2. \A e \in S : f[e] = g[e]
  BY <1>1
<1>3. \A e \in S \cup {n} : g[e] \in Int
  BY <1>1
<1>4. g[n] = n.amount
  OBVIOUS
<1>5. T = IF n.type = type /\ n.budget = b THEN S \cup {n} ELSE S
  OBVIOUS
<1> HIDE DEF S, T, f, g
<1>6. SumFunctionOnSet(f, S) = SumFunctionOnSet(g, S)
  BY <1>1, <1>2, SumEqual
<1>7. SumFunctionOnSet(g, S \cup {n}) = g[n] + SumFunctionOnSet(g, S)
  BY <1>1, <1>3, SumAdd
<1>8. SumFunctionOnSet(g, S) \in Int
  BY <1>1, <1>3, SumIsInteger
<1>9. SumFunctionOnSet(g, T) =
        SumFunctionOnSet(f, S) + IF n.type = type /\ n.budget = b THEN n.amount ELSE 0
  BY <1>3, <1>4, <1>5, <1>6, <1>7, <1>8
<1> QED BY <1>9 DEF PostedIn, S, T, f, g

\* A read opens an operation that is done once only for a source that has
\* neither an entry of it nor another transaction at it.
LEMMA ReadKeepsPostedOnce ==
    ASSUME IInv, PostedOnce, NEW t \in Txs, Read(t)
    PROVE  PostedOnce'
<1>1. TypeOK /\ UNCHANGED <<rows, entries>>
  BY ReadKeepsIInv DEF IInv
<1>2. \A u \in Txs : IsIdle(u) <=> "answer" \in DOMAIN txs[u]
  BY DEF IsIdle
<1>3. ASSUME NEW tx, txs' = [txs EXCEPT ![t] = tx],
             charged \subseteq charged', refunded \subseteq refunded',
             \/ tx \in Idle
             \/ /\ tx.op \in {"RESERVE", "CONSUME", "REVERSE"} =>
                     /\ FindBySource(tx.op, tx.source) = {}
                     /\ \A u \in Txs \ {t} :
                          ~IsIdle(u) => ~(txs[u].op = tx.op /\ txs[u].source = tx.source)
                /\ tx.op = "CONSUME" => tx.source \in charged'
                /\ tx.op = "REVERSE" => tx.source \in refunded'
      PROVE  PostedOnce'
  <2>1. txs'[t] = tx /\ \A u \in Txs : u # t => txs'[u] = txs[u]
    BY <1>1, <1>3 DEF TypeOK
  <2>2. \A u \in Txs : u # t => IsIdle(u)' = IsIdle(u)
    BY <2>1 DEF IsIdle
  <2>3. tx \in Idle => IsIdle(t)'
    BY <2>1 DEF IsIdle, Idle
  <2>4. \A type, s : FindBySource(type, s)' = FindBySource(type, s)
    BY <1>1 DEF FindBySource
  <2>5. \A e \in entries' : /\ e.type = "CONSUME" => e.source \in charged'
                            /\ e.type = "REVERSE" => e.source \in refunded'
    BY <1>1, <1>3 DEF PostedOnce
  <2>6. ASSUME NEW u \in Txs, ~IsIdle(u)'
        PROVE  /\ txs'[u].op \in {"RESERVE", "CONSUME", "REVERSE"} => Alone(u)'
               /\ txs'[u].op = "CONSUME" => txs'[u].source \in charged'
               /\ txs'[u].op = "REVERSE" => txs'[u].source \in refunded'
    <3>1. CASE u = t
      BY <1>3, <2>1, <2>2, <2>3, <2>4, <2>6, <3>1 DEF Alone
    <3>2. CASE u # t
      <4>1. txs'[u] = txs[u] /\ ~IsIdle(u)
        BY <2>1, <2>2, <2>6, <3>2
      <4>2. /\ txs[u].op \in {"RESERVE", "CONSUME", "REVERSE"} => Alone(u)
            /\ txs[u].op = "CONSUME" => txs[u].source \in charged
            /\ txs[u].op = "REVERSE" => txs[u].source \in refunded
        BY <4>1 DEF PostedOnce
      <4>3. ASSUME txs[u].op \in {"RESERVE", "CONSUME", "REVERSE"} PROVE Alone(u)'
        <5>1. FindBySource(txs[u].op, txs[u].source)' = {}
          BY <1>1, <4>1, <4>2, <4>3 DEF Alone, FindBySource
        <5>2. ASSUME NEW v \in Txs \ {u}, ~IsIdle(v)', txs'[v].op = txs[u].op,
                     txs'[v].source = txs[u].source
              PROVE  FALSE
          <6>1. CASE v = t
            BY <1>3, <2>1, <2>3, <3>2, <4>1, <4>3, <5>2, <6>1
          <6>2. CASE v # t
            BY <2>1, <2>2, <4>2, <4>3, <5>2, <6>2 DEF Alone
          <6> QED BY <6>1, <6>2
        <5> QED BY <4>1, <5>1, <5>2 DEF Alone
      <4> QED BY <1>3, <4>1, <4>2, <4>3
    <3> QED BY <3>1, <3>2
  <2> QED BY <2>5, <2>6 DEF PostedOnce
<1>4. \A answer \in Answers : [answer |-> answer] \in Idle
  BY DEF Idle
<1>5. ASSUME NEW b \in Budgets, NEW s \in Sources, NEW a \in Cents, ReserveRead(t, b, s, a)
      PROVE  PostedOnce'
  <2>1. UNCHANGED <<charged, refunded>>
    BY <1>5 DEF ReserveRead
  <2>2. CASE Answer(t, "refused")
    BY <1>3, <1>4, <2>1, <2>2 DEF Answer, Answers
  <2>3. CASE Open(t, "RESERVE", b, s, a)
    <3> DEFINE tx == [op |-> "RESERVE", budget |-> b, source |-> s, amount |-> a, row |-> rows[b]]
    <3>1. txs' = [txs EXCEPT ![t] = tx]
      BY <2>3 DEF Open
    <3>2. /\ FindBySource("RESERVE", s) = {}
          /\ \A u \in Txs : ~IsIdle(u) => ~(txs[u].op = "RESERVE" /\ txs[u].source = s)
      BY <1>5 DEF ReserveRead
    <3> QED BY <1>3, <2>1, <3>1, <3>2
  <2> QED BY <1>5, <2>2, <2>3 DEF ReserveRead
<1>6. ASSUME NEW s \in Sources, ReleaseRead(t, s) PROVE PostedOnce'
  <2>1. UNCHANGED <<charged, refunded>>
    BY <1>6 DEF ReleaseRead
  <2>2. PICK e \in entries : Open(t, "RELEASE", e.budget, s, e.amount)
    BY <1>6 DEF ReleaseRead, FindBySource
  <2> DEFINE tx == [op |-> "RELEASE", budget |-> e.budget, source |-> s, amount |-> e.amount, row |-> rows[e.budget]]
  <2>3. txs' = [txs EXCEPT ![t] = tx]
    BY <2>2 DEF Open
  <2> QED BY <1>3, <2>1, <2>3
<1>7. ASSUME NEW s \in Sources, ConsumeRead(t, s) PROVE PostedOnce'
  <2>1. UNCHANGED refunded /\ charged' = charged \cup {s} /\ s \notin charged
    BY <1>7 DEF ConsumeRead
  <2>2. PICK e \in entries : Open(t, "CONSUME", e.budget, s, e.amount)
    BY <1>7 DEF ConsumeRead, FindBySource
  <2> DEFINE tx == [op |-> "CONSUME", budget |-> e.budget, source |-> s, amount |-> e.amount, row |-> rows[e.budget]]
  <2>3. txs' = [txs EXCEPT ![t] = tx]
    BY <2>2 DEF Open
  <2>4. FindBySource("CONSUME", s) = {}
    BY <2>1 DEF PostedOnce, FindBySource
  <2>5. \A u \in Txs \ {t} : ~IsIdle(u) => ~(txs[u].op = "CONSUME" /\ txs[u].source = s)
    BY <2>1 DEF PostedOnce
  <2> QED BY <1>3, <2>1, <2>3, <2>4, <2>5
<1>8. ASSUME NEW s \in Sources, ReverseRead(t, s) PROVE PostedOnce'
  <2>1. UNCHANGED charged /\ refunded' = refunded \cup {s} /\ s \notin refunded
    BY <1>8 DEF ReverseRead
  <2>2. CASE Answer(t, "refused")
    BY <1>3, <1>4, <2>1, <2>2 DEF Answer, Answers
  <2>3. ASSUME NEW e \in entries, Open(t, "REVERSE", e.budget, s, e.amount) PROVE PostedOnce'
    <3> DEFINE tx == [op |-> "REVERSE", budget |-> e.budget, source |-> s, amount |-> e.amount, row |-> rows[e.budget]]
    <3>1. txs' = [txs EXCEPT ![t] = tx]
      BY <2>3 DEF Open
    <3>2. FindBySource("REVERSE", s) = {}
      BY <2>1 DEF PostedOnce, FindBySource
    <3>3. \A u \in Txs \ {t} : ~IsIdle(u) => ~(txs[u].op = "REVERSE" /\ txs[u].source = s)
      BY <2>1 DEF PostedOnce
    <3> QED BY <1>3, <2>1, <3>1, <3>2, <3>3
  <2> QED BY <1>8, <2>2, <2>3 DEF ReverseRead, FindBySource
<1>9. ASSUME NEW b \in Budgets, NEW amount \in Limits, NEW single \in Limits,
             SetBudgetRead(t, b, amount, single)
      PROVE  PostedOnce'
  <2> DEFINE tx == [op |-> "SET", budget |-> b, amount |-> amount, single |-> single, row |-> rows[b]]
  <2>1. UNCHANGED <<charged, refunded>> /\ txs' = [txs EXCEPT ![t] = tx]
    BY <1>9 DEF SetBudgetRead
  <2> QED BY <1>3, <2>1
<1> QED BY <1>5, <1>6, <1>7, <1>8, <1>9 DEF Read

\* A write enters at most one entry, that of its own operation and source.
LEMMA WriteKeepsPostedOnce ==
    ASSUME IInv, PostedOnce, NEW t \in Txs, Write(t)
    PROVE  PostedOnce'
<1>1. TypeOK /\ ~IsIdle(t) /\ UNCHANGED <<charged, refunded>>
  BY WriteCases DEF IInv
<1>2. PICK answer \in Answers : txs' = [txs EXCEPT ![t] = [answer |-> answer]]
  BY WriteCases DEF Answer
<1>3. \A u \in Txs : ~IsIdle(u)' => u # t /\ ~IsIdle(u) /\ txs'[u] = txs[u]
  BY <1>1, <1>2 DEF TypeOK, IsIdle
<1>4. ASSUME NEW e \in entries', e \notin entries
      PROVE  e.type = txs[t].op /\ e.source = txs[t].source
  BY <1>4, WriteCases DEF InsertEntry
<1>5. \A e \in entries' : /\ e.type = "CONSUME" => e.source \in charged'
                          /\ e.type = "REVERSE" => e.source \in refunded'
  BY <1>1, <1>4 DEF PostedOnce
<1>6. ASSUME NEW u \in Txs, ~IsIdle(u)',
             txs[u].op \in {"RESERVE", "CONSUME", "REVERSE"}
      PROVE  Alone(u)'
  <2>1. u # t /\ ~IsIdle(u) /\ txs'[u] = txs[u] /\ Alone(u)
    BY <1>3, <1>6 DEF PostedOnce
  <2>2. \A e \in entries' : ~(e.type = txs[u].op /\ e.source = txs[u].source)
    BY <1>1, <1>4, <2>1 DEF Alone, FindBySource
  <2>3. FindBySource(txs[u].op, txs[u].source)' = {}
    BY <2>1, <2>2 DEF FindBySource
  <2> QED BY <1>3, <2>1, <2>3 DEF Alone
<1> QED BY <1>1, <1>3, <1>5, <1>6 DEF PostedOnce

LEMMA EntriesAreInCents ==
    ASSUME TypeOK
    PROVE  \A e \in entries : e.amount \in Int
BY DEF TypeOK, Entries

\* What the counters of a row and the postings of the ledger keep to each other.
Backed(E, b, row) ==
    /\ row.reserved <= PostedIn(E, "RESERVE", b) + PostedIn(E, "RELEASE", b)
                         - PostedIn(E, "CONSUME", b)
    /\ row.consumed = PostedIn(E, "CONSUME", b) + PostedIn(E, "REVERSE", b)

LEMMA CountersAreBacked ==
    /\ CountersBackedByLedger <=> \A b \in Budgets : Backed(entries, b, rows[b])
    /\ CountersBackedByLedger' <=> \A b \in Budgets : Backed(entries', b, rows'[b])
BY DEF CountersBackedByLedger, LedgerReserved, LedgerConsumed, Posted, PostedIn, Backed

\* One entry, and what its operation does to the counters of its scope.
LEMMA EntryBacksMove ==
    ASSUME NEW E, IsFiniteSet(E), \A e \in E : e.amount \in Int, NEW n \in Entries, n \notin E,
           NEW a \in Nat, NEW row \in Rows, NEW d \in Int, NEW c \in Int,
           Backed(E, n.budget, row),
           \/ n.type = "RESERVE" /\ n.amount = a /\ d = a /\ c = 0
           \/ n.type = "RELEASE" /\ n.amount = -a /\ d = -a /\ c = 0
           \/ n.type = "CONSUME" /\ n.amount = a /\ d = -a /\ c = a
           \/ n.type = "REVERSE" /\ n.amount = -a /\ d = 0 /\ c = -a
    PROVE  Backed(E \cup {n}, n.budget, Moved(row, d, c))
<1>1. \A e \in E \cup {n} : e.amount \in Int
  BY DEF Entries
<1>2. \A type : PostedIn(E, type, n.budget) \in Int
  BY PostedIsInteger
<1>3. \A type : PostedIn(E \cup {n}, type, n.budget) =
                  PostedIn(E, type, n.budget) + IF n.type = type THEN n.amount ELSE 0
  <2>1. \A type, b : PostedIn(E \cup {n}, type, b) = PostedIn(E, type, b)
                        + IF n.type = type /\ n.budget = b THEN n.amount ELSE 0
    BY <1>1, PostedWithNew
  <2> QED BY <2>1
<1>4. row.reserved \in Nat /\ row.consumed \in Nat
  BY DEF Rows
<1>5. /\ Moved(row, d, c).reserved = row.reserved + d
      /\ Moved(row, d, c).consumed = row.consumed + c
  BY DEF Moved
<1> DEFINE R == PostedIn(E, "RESERVE", n.budget)
           L == PostedIn(E, "RELEASE", n.budget)
           C == PostedIn(E, "CONSUME", n.budget)
           V == PostedIn(E, "REVERSE", n.budget)
<1>6. /\ R \in Int /\ L \in Int /\ C \in Int /\ V \in Int
      /\ row.reserved <= R + L - C /\ row.consumed = C + V
  BY <1>2 DEF Backed
<1>7. /\ PostedIn(E \cup {n}, "RESERVE", n.budget) = R + IF n.type = "RESERVE" THEN n.amount ELSE 0
      /\ PostedIn(E \cup {n}, "RELEASE", n.budget) = L + IF n.type = "RELEASE" THEN n.amount ELSE 0
      /\ PostedIn(E \cup {n}, "CONSUME", n.budget) = C + IF n.type = "CONSUME" THEN n.amount ELSE 0
      /\ PostedIn(E \cup {n}, "REVERSE", n.budget) = V + IF n.type = "REVERSE" THEN n.amount ELSE 0
  BY <1>3
<1> HIDE DEF R, L, C, V
<1> QED BY <1>4, <1>5, <1>6, <1>7 DEF Backed

\* An entry does not count in another scope.
LEMMA EntryElsewhere ==
    ASSUME NEW E, IsFiniteSet(E), \A e \in E : e.amount \in Int, NEW n \in Entries, n \notin E,
           NEW b, n.budget # b, NEW row, Backed(E, b, row)
    PROVE  Backed(E \cup {n}, b, row)
<1>1. \A e \in E \cup {n} : e.amount \in Int
  BY DEF Entries
<1>2. \A type, c : PostedIn(E \cup {n}, type, c) =
                     PostedIn(E, type, c) + IF n.type = type /\ n.budget = c THEN n.amount ELSE 0
  BY <1>1, PostedWithNew
<1>3. ASSUME NEW type PROVE PostedIn(E \cup {n}, type, b) = PostedIn(E, type, b)
  <2>1. PostedIn(E \cup {n}, type, b) =
          PostedIn(E, type, b) + IF n.type = type /\ n.budget = b THEN n.amount ELSE 0
    BY <1>2
  <2>2. PostedIn(E, type, b) \in Int
    BY PostedIsInteger
  <2> QED BY <2>1, <2>2
<1>4. /\ PostedIn(E \cup {n}, "RESERVE", b) = PostedIn(E, "RESERVE", b)
      /\ PostedIn(E \cup {n}, "RELEASE", b) = PostedIn(E, "RELEASE", b)
      /\ PostedIn(E \cup {n}, "CONSUME", b) = PostedIn(E, "CONSUME", b)
      /\ PostedIn(E \cup {n}, "REVERSE", b) = PostedIn(E, "REVERSE", b)
  BY <1>3
<1> QED BY <1>4 DEF Backed

\* An entry is new, unless it is that of a repeated release.
LEMMA PostKeepsCounters ==
    ASSUME LedgerIInv, NEW t \in Txs, ~IsIdle(t), PostsTo(t), NEW x \in Int, InsertEntry(t, x),
           txs[t].op \in {"RESERVE", "CONSUME"} => x = txs[t].amount,
           txs[t].op \in {"RELEASE", "REVERSE"} => x = -txs[t].amount
    PROVE  IsFiniteSet(entries)' /\ CountersBackedByLedger'
<1>1. /\ TypeOK /\ PostedOnce /\ IsFiniteSet(entries)
      /\ \A b \in Budgets : Backed(entries, b, rows[b])
  BY CountersAreBacked DEF LedgerIInv, IInv
<1>2. \A e \in entries : e.amount \in Int
  BY <1>1, EntriesAreInCents
<1> DEFINE b == txs[t].budget
           a == txs[t].amount
<1> SUFFICES IsFiniteSet(entries') /\ \A c \in Budgets : Backed(entries', c, rows'[c])
  BY CountersAreBacked
<1>3. txs[t] \in Postings /\ b \in Budgets /\ a \in Nat /\ rows[b] \in Rows
  BY <1>1 DEF PostsTo, Postings, TypeOK
<1> DEFINE n == [type |-> txs[t].op, source |-> txs[t].source, budget |-> b, amount |-> x]
<1>4. n \in Entries
  BY <1>3 DEF Postings, Entries
<1>5. PICK d \in Int, e \in Int :
        /\ Move(t, d, e)
        /\ \/ txs[t].op = "RESERVE" /\ d = a /\ e = 0
           \/ txs[t].op = "RELEASE" /\ d = -a /\ e = 0
           \/ txs[t].op = "CONSUME" /\ d = -a /\ e = a
           \/ txs[t].op = "REVERSE" /\ d = 0 /\ e = -a
  BY <1>3 DEF PostsTo
<1>6. /\ rows'[b] = Moved(rows[b], d, e)
      /\ \A c \in Budgets : c # b => rows'[c] = rows[c]
  BY <1>1, <1>3, <1>5 DEF Move, TypeOK
<1>7. CASE FindBySource(txs[t].op, txs[t].source) = {}
  <2>1. n \notin entries
    BY <1>7 DEF FindBySource
  <2>2. entries' = entries \cup {n}
    BY <1>7 DEF InsertEntry
  <2>3. IsFiniteSet(entries')
    BY <1>1, <2>2, FS_AddElement
  <2>4. /\ n.budget = b /\ n.type = txs[t].op /\ n.amount = x
    OBVIOUS
  <2> HIDE DEF n
  <2>5. Backed(entries', b, rows'[b])
    <3>1. \/ n.type = "RESERVE" /\ n.amount = a /\ d = a /\ e = 0
          \/ n.type = "RELEASE" /\ n.amount = -a /\ d = -a /\ e = 0
          \/ n.type = "CONSUME" /\ n.amount = a /\ d = -a /\ e = a
          \/ n.type = "REVERSE" /\ n.amount = -a /\ d = 0 /\ e = -a
      BY <1>5, <2>4
    <3>2. Backed(entries, n.budget, rows[b])
      BY <1>1, <1>3, <2>4
    <3>3. Backed(entries \cup {n}, n.budget, Moved(rows[b], d, e))
      BY <1>1, <1>2, <1>3, <1>4, <2>1, <3>1, <3>2, EntryBacksMove
    <3> QED BY <1>6, <2>2, <2>4, <3>3
  <2>6. ASSUME NEW c \in Budgets, c # b PROVE Backed(entries', c, rows'[c])
    <3>1. Backed(entries, c, rows[c]) /\ rows'[c] = rows[c]
      BY <1>1, <1>6, <2>6
    <3> QED BY <1>1, <1>2, <1>4, <2>1, <2>2, <2>4, <2>6, <3>1, EntryElsewhere
  <2> QED BY <2>3, <2>5, <2>6
<1>8. CASE FindBySource(txs[t].op, txs[t].source) # {}
  <2>1. entries' = entries
    BY <1>8 DEF InsertEntry
  <2>2. txs[t].op = "RELEASE"
    BY <1>1, <1>5, <1>8 DEF PostedOnce, Alone
  <2>3. d = -a /\ e = 0
    BY <1>5, <2>2
  <2>4. rows'[b].reserved <= rows[b].reserved /\ rows'[b].consumed = rows[b].consumed
        /\ rows[b].reserved \in Nat /\ rows'[b].reserved \in Int
    BY <1>3, <1>6, <2>3 DEF Moved, Rows
  <2>5. \A type : PostedIn(entries, type, b) \in Int
    BY <1>1, <1>2, PostedIsInteger
  <2>6. Backed(entries, b, rows'[b])
    BY <1>1, <1>3, <2>4, <2>5 DEF Backed
  <2> QED BY <1>1, <1>6, <2>1, <2>6
<1> QED BY <1>7, <1>8

\* A write leaves every counter covered by the ledger: the entry of its
\* operation is new, unless it is a repeated release, which only lowers what
\* is reserved.
LEMMA WriteKeepsCounters ==
    ASSUME LedgerIInv, NEW t \in Txs, Write(t)
    PROVE  IsFiniteSet(entries)' /\ CountersBackedByLedger'
<1>1. /\ TypeOK /\ ReadsAgree /\ IInv /\ ~IsIdle(t) /\ IsFiniteSet(entries)
      /\ \A b \in Budgets : Backed(entries, b, rows[b])
  BY WriteCases, CountersAreBacked DEF LedgerIInv, IInv
<1>2. ASSUME PostsTo(t), NEW x \in Int, InsertEntry(t, x),
             txs[t].op \in {"RESERVE", "CONSUME"} => x = txs[t].amount,
             txs[t].op \in {"RELEASE", "REVERSE"} => x = -txs[t].amount
      PROVE  IsFiniteSet(entries)' /\ CountersBackedByLedger'
  BY <1>1, <1>2, PostKeepsCounters
<1>3. CASE UNCHANGED entries /\ UNCHANGED rows
  BY <1>1, <1>3, CountersAreBacked
<1>4. CASE UNCHANGED entries /\ Stores(t)
  <2> DEFINE b == txs[t].budget
  <2>1. txs[t] \in Settings /\ VersionMatches(t) /\ b \in Budgets
    BY <1>4 DEF Stores, Settings
  <2>2. txs[t].row = rows[b]
    BY <1>1, <2>1 DEF ReadsAgree, VersionMatches
  <2>3. \A c \in Budgets : rows'[c].reserved = rows[c].reserved /\ rows'[c].consumed = rows[c].consumed
    BY <1>1, <1>4, <2>1, <2>2 DEF Stores, Store, LimitsStored, TypeOK
  <2>4. \A c \in Budgets : Backed(entries', c, rows'[c])
    BY <1>1, <1>4, <2>3 DEF Backed
  <2> QED BY <1>1, <1>4, <2>4, CountersAreBacked
<1> QED BY <1>1, <1>2, <1>3, <1>4, WriteCases

LEMMA StepKeepsLedgerIInv == LedgerIInv /\ [Next]_vars => LedgerIInv'
<1> SUFFICES ASSUME LedgerIInv, [Next]_vars PROVE LedgerIInv'
  OBVIOUS
<1>1. IInv'
  BY StepKeepsIInv DEF LedgerIInv
<1>2. CASE UNCHANGED vars
  <2>1. PostedOnce'
    BY <1>2 DEF LedgerIInv, PostedOnce, Alone, FindBySource, IsIdle, vars
  <2>2. CountersBackedByLedger'
    BY <1>2, CountersAreBacked DEF LedgerIInv, vars
  <2> QED BY <1>1, <1>2, <2>1, <2>2 DEF LedgerIInv, vars
<1>3. ASSUME NEW t \in Txs, Read(t) PROVE LedgerIInv'
  <2>1. UNCHANGED <<rows, entries>>
    BY <1>3, ReadKeepsIInv DEF LedgerIInv
  <2>2. PostedOnce'
    BY <1>3, ReadKeepsPostedOnce DEF LedgerIInv
  <2>3. CountersBackedByLedger'
    BY <2>1, CountersAreBacked DEF LedgerIInv
  <2> QED BY <1>1, <2>1, <2>2, <2>3 DEF LedgerIInv
<1>4. ASSUME NEW t \in Txs, Write(t) PROVE LedgerIInv'
  BY <1>1, <1>4, WriteKeepsPostedOnce, WriteKeepsCounters DEF LedgerIInv
<1> QED BY <1>2, <1>3, <1>4 DEF Next

LEMMA InitLedgerIInv == Init => LedgerIInv
<1> SUFFICES ASSUME Init PROVE LedgerIInv
  OBVIOUS
<1>1. IInv
  BY InitIInv
<1>2. IsFiniteSet(entries)
  BY FS_EmptySet DEF Init
<1>3. PostedOnce
  BY DEF Init, PostedOnce, IsIdle
<1>4. ASSUME NEW b \in Budgets PROVE Backed(entries, b, rows[b])
  <2>1. \A type : PostedIn({}, type, b) = 0
    <3> TAKE type
    <3>1. {e \in {} : e.type = type /\ e.budget = b} = {}
      OBVIOUS
    <3> QED BY <3>1, SumEmpty DEF PostedIn
  <2> QED BY <2>1 DEF Init, NoRow, Backed
<1> QED BY <1>1, <1>2, <1>3, <1>4, CountersAreBacked DEF LedgerIInv

\* Whatever the operations of whatever transactions interleave to: no money is
\* shown as reserved that the ledger does not reserve, and exactly what the
\* ledger consumed is shown as consumed.
THEOREM LedgerBacksCounters == Spec => []CountersBackedByLedger
<1>1. Spec => []LedgerIInv
  BY InitLedgerIInv, StepKeepsLedgerIInv, PTL DEF Spec
<1>2. LedgerIInv => CountersBackedByLedger
  BY DEF LedgerIInv
<1> QED BY <1>1, <1>2, PTL
=============================================================================
