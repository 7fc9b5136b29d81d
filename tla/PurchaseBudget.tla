--------------------------- MODULE PurchaseBudget ---------------------------
(***************************************************************************)
(* PurchaseBudgetService and the setBudget handler of                      *)
(* EnterpriseBudgetController (aicp-backend, module enterprise).           *)
(*                                                                         *)
(* Each operation of the service reads the budget row, checks it, and then *)
(* runs one UPDATE ... WHERE row_version = <the version read>.  The UPDATE *)
(* keeps the row locked until its transaction ends, so an operation is two *)
(* steps here: the read, and the update with its ledger entry and commit.  *)
(* Any number of other transactions may come between the two.              *)
(***************************************************************************)
EXTENDS Integers, Functions

CONSTANTS
    Budgets,    \* (workspace, subject, month) scopes; uk_budget_scope makes them unique
    Sources,    \* the "purchase-<uuid>" ids of purchase requests
    Txs,        \* database transactions that may be open at once
    Cents,      \* prices of the licences on offer
    Limits,     \* limits a manager may set, 0 meaning none
    MaxVersion  \* bound on row_version, so that TLC's runs are finite

ASSUME BudgetAssumption ==
    /\ Cents \subseteq Nat
    /\ Limits \subseteq Nat
    /\ 0 \in Limits
    /\ MaxVersion \in Nat

VARIABLES
    rows,      \* enterprise_purchase_budgets
    entries,   \* enterprise_purchase_budget_entries
    txs,       \* what each transaction has read and is about to write
    charged,   \* sources whose wallet purchase went through (once per order)
    refunded   \* sources whose wallet transfer was reversed (once per order)

vars == <<rows, entries, txs, charged, refunded>>

EntryTypes == {"RESERVE", "RELEASE", "CONSUME", "REVERSE"}

\* The part of a row that the limits and the counters live in; "exists" is
\* FALSE until the first reserve or setBudget inserts the row.
Rows == [exists : BOOLEAN, amount : Nat, single : Nat,
         reserved : Nat, consumed : Nat, version : Nat]

NoRow == [exists |-> FALSE, amount |-> 0, single |-> 0,
          reserved |-> 0, consumed |-> 0, version |-> 0]

\* The idempotency key of an entry is built from its type and its source.
Entries == [type : EntryTypes, source : Sources, budget : Budgets, amount : Int]

\* A transaction between its read and its write: one that will post an entry,
\* or a setBudget that will store two limits.
Postings == [op : EntryTypes, budget : Budgets, source : Sources, amount : Nat, row : Rows]
Settings == [op : {"SET"}, budget : Budgets, amount : Nat, single : Nat, row : Rows]

\* A transaction that is not open: what its last operation answered.
Answers == {"none", "ok", "refused"}
Idle == [answer : Answers]

IsIdle(t) == "answer" \in DOMAIN txs[t]

TypeOK ==
    /\ rows \in [Budgets -> Rows]
    /\ entries \subseteq Entries
    /\ txs \in [Txs -> Postings \cup Settings \cup Idle]
    /\ charged \subseteq Sources
    /\ refunded \subseteq Sources

Init ==
    /\ rows = [b \in Budgets |-> NoRow]
    /\ entries = {}
    /\ txs = [t \in Txs |-> [answer |-> "none"]]
    /\ charged = {}
    /\ refunded = {}
-----------------------------------------------------------------------------
(* Reads.                                                                  *)

\* A plausible slip: money already consumed this month is forgotten.
LimitsWithoutConsumed(row, a) ==
    /\ row.single > 0 => a <= row.single
    /\ row.amount > 0 => row.reserved + a <= row.amount

WithinLimits(row, a) ==
    /\ row.single > 0 => a <= row.single
    /\ row.amount > 0 => row.reserved + row.consumed + a <= row.amount

FindBySource(type, s) == {e \in entries : e.type = type /\ e.source = s}

Answer(t, answer) == txs' = [txs EXCEPT ![t] = [answer |-> answer]]

\* The transaction keeps the row it read; the bound keeps versions finite.
Open(t, op, b, s, amount) ==
    /\ rows[b].version < MaxVersion
    /\ txs' = [txs EXCEPT ![t] = [op |-> op, budget |-> b, source |-> s,
                                  amount |-> amount, row |-> rows[b]]]

\* reserve: called once for each new source id.
ReserveRead(t, b, s, a) ==
    /\ IsIdle(t)
    /\ FindBySource("RESERVE", s) = {}
    /\ \A u \in Txs : ~IsIdle(u) => ~(txs[u].op = "RESERVE" /\ txs[u].source = s)
    /\ \/ WithinLimits(rows[b], a) /\ Open(t, "RESERVE", b, s, a)
       \/ ~WithinLimits(rows[b], a) /\ Answer(t, "refused")
    /\ UNCHANGED <<rows, entries, charged, refunded>>

\* release: reject calls it for the amount that was reserved, as often as the
\* request is rejected.
ReleaseRead(t, s) ==
    /\ IsIdle(t)
    /\ \E e \in FindBySource("RESERVE", s) : Open(t, "RELEASE", e.budget, s, e.amount)
    /\ UNCHANGED <<rows, entries, charged, refunded>>

\* consume: pay calls it after the wallet took the money, which happens at
\* most once for an order.
ConsumeRead(t, s) ==
    /\ IsIdle(t)
    /\ s \notin charged
    /\ \E e \in FindBySource("RESERVE", s) : Open(t, "CONSUME", e.budget, s, e.amount)
    /\ charged' = charged \cup {s}
    /\ UNCHANGED <<rows, entries, refunded>>

\* reverse: approving a refund calls it after the wallet gave the money back,
\* which happens at most once for an order.
ReverseRead(t, s) ==
    /\ IsIdle(t)
    /\ s \in charged \ refunded
    /\ \/ /\ FindBySource("CONSUME", s) = {}
          /\ Answer(t, "refused")
       \/ \E e \in FindBySource("CONSUME", s) :
            \/ rows[e.budget].consumed >= e.amount /\ Open(t, "REVERSE", e.budget, s, e.amount)
            \/ rows[e.budget].consumed < e.amount /\ Answer(t, "refused")
    /\ refunded' = refunded \cup {s}
    /\ UNCHANGED <<rows, entries, charged>>

\* setBudget reads the row outside any transaction.
SetBudgetRead(t, b, amount, single) ==
    /\ IsIdle(t)
    /\ rows[b].version < MaxVersion
    /\ txs' = [txs EXCEPT ![t] = [op |-> "SET", budget |-> b, amount |-> amount,
                                  single |-> single, row |-> rows[b]]]
    /\ UNCHANGED <<rows, entries, charged, refunded>>
-----------------------------------------------------------------------------
(* Writes.                                                                 *)

\* A plausible slip, for the mutants of PROJECT.json: only the row's existence is checked.
AnyVersion(t) == rows[txs[t].budget].exists = txs[t].row.exists

\* row_version, or the insert of a new row, is still what the read saw.
VersionMatches(t) ==
    LET now == rows[txs[t].budget]
    IN  now.exists = txs[t].row.exists /\ now.version = txs[t].row.version

\* insertEntry skips an entry whose idempotency key is already there.
InsertEntry(t, amount) ==
    LET key == FindBySource(txs[t].op, txs[t].source)
        entry == [type |-> txs[t].op, source |-> txs[t].source,
                  budget |-> txs[t].budget, amount |-> amount]
    IN  entries' = IF key = {} THEN entries \cup {entry} ELSE entries

\* A plausible slip: row_version is compared but not advanced.
MovedInPlace(row, d, e) ==
    [exists |-> TRUE, amount |-> row.amount, single |-> row.single,
     reserved |-> row.reserved + d, consumed |-> row.consumed + e,
     version |-> row.version]

\* The counters move by d and e, and row_version by one.
Moved(row, d, e) ==
    [exists |-> TRUE, amount |-> row.amount, single |-> row.single,
     reserved |-> row.reserved + d, consumed |-> row.consumed + e,
     version |-> row.version + 1]

Move(t, d, e) ==
    LET b == txs[t].budget IN rows' = [rows EXCEPT ![b] = Moved(rows[b], d, e)]

\* An UPDATE that matches no row throws, and the transaction rolls back.
Conflict(t) ==
    /\ Answer(t, "refused")
    /\ UNCHANGED <<rows, entries>>

ReserveWrite(t) ==
    \/ /\ VersionMatches(t)
       /\ Move(t, txs[t].amount, 0)
       /\ InsertEntry(t, txs[t].amount)
       /\ Answer(t, "ok")
    \/ ~VersionMatches(t) /\ Conflict(t)

\* A plausible slip: the release does not ask for reserved_cents >= amount.
UncheckedReleaseWrite(t) ==
    \/ /\ VersionMatches(t)
       /\ Move(t, -txs[t].amount, 0)
       /\ InsertEntry(t, -txs[t].amount)
       /\ Answer(t, "ok")
    \/ ~VersionMatches(t) /\ Conflict(t)

ReleaseWrite(t) ==
    LET matches == VersionMatches(t) /\ rows[txs[t].budget].reserved >= txs[t].amount
    IN  \/ /\ matches
           /\ Move(t, -txs[t].amount, 0)
           /\ InsertEntry(t, -txs[t].amount)
           /\ Answer(t, "ok")
        \/ ~matches /\ Conflict(t)

ConsumeWrite(t) ==
    LET matches == VersionMatches(t) /\ rows[txs[t].budget].reserved >= txs[t].amount
    IN  \/ /\ matches
           /\ Move(t, -txs[t].amount, txs[t].amount)
           /\ InsertEntry(t, txs[t].amount)
           /\ Answer(t, "ok")
        \/ ~matches /\ Conflict(t)

ReverseWrite(t) ==
    \/ /\ VersionMatches(t)
       /\ Move(t, 0, -txs[t].amount)
       /\ InsertEntry(t, -txs[t].amount)
       /\ Answer(t, "ok")
    \/ ~VersionMatches(t) /\ Conflict(t)

\* updateById writes the whole row it read, guarded by @Version; the handler
\* does not look at the number of rows updated.  A new row starts at version 0
\* and a second insert of the same scope violates uk_budget_scope.
LimitsStored(row, amount, single, version) ==
    [exists |-> TRUE, amount |-> amount, single |-> single,
     reserved |-> row.reserved, consumed |-> row.consumed, version |-> version]

Store(t, version) ==
    rows' = [rows EXCEPT ![txs[t].budget] =
                LimitsStored(txs[t].row, txs[t].amount, txs[t].single, version)]

SetBudgetWrite(t) ==
    /\ UNCHANGED entries
    /\ \/ /\ txs[t].row.exists
          /\ \/ VersionMatches(t) /\ Store(t, txs[t].row.version + 1)
             \/ ~VersionMatches(t) /\ UNCHANGED rows
          /\ Answer(t, "ok")
       \/ /\ ~txs[t].row.exists /\ VersionMatches(t)
          /\ Store(t, 0)
          /\ Answer(t, "ok")
       \/ /\ ~txs[t].row.exists /\ ~VersionMatches(t)
          /\ Answer(t, "refused")
          /\ UNCHANGED rows

\* The transaction is abandoned: an exception elsewhere in it, or a crash.
Rollback(t) == Answer(t, "refused") /\ UNCHANGED <<rows, entries>>

Write(t) ==
    /\ ~IsIdle(t)
    /\ \/ txs[t].op = "RESERVE" /\ ReserveWrite(t)
       \/ txs[t].op = "RELEASE" /\ ReleaseWrite(t)
       \/ txs[t].op = "CONSUME" /\ ConsumeWrite(t)
       \/ txs[t].op = "REVERSE" /\ ReverseWrite(t)
       \/ txs[t].op = "SET" /\ SetBudgetWrite(t)
       \/ Rollback(t)
    /\ UNCHANGED <<charged, refunded>>

Read(t) ==
    \/ \E b \in Budgets, s \in Sources, a \in Cents : ReserveRead(t, b, s, a)
    \/ \E s \in Sources : ReleaseRead(t, s) \/ ConsumeRead(t, s) \/ ReverseRead(t, s)
    \/ \E b \in Budgets, amount, single \in Limits : SetBudgetRead(t, b, amount, single)

Next == \E t \in Txs : Read(t) \/ Write(t)

Spec == Init /\ [][Next]_vars
-----------------------------------------------------------------------------
(* Properties.                                                             *)

\* The sum of a scope's ledger entries of one type.
Posted(type, b) ==
    SumFunctionOnSet([e \in entries |-> e.amount],
                     {e \in entries : e.type = type /\ e.budget = b})

LedgerReserved(b) == Posted("RESERVE", b) + Posted("RELEASE", b) - Posted("CONSUME", b)
LedgerConsumed(b) == Posted("CONSUME", b) + Posted("REVERSE", b)

\* However the transactions of reserve, release, consume, reverse and setBudget
\* interleave, a budget never shows money as reserved that the ledger does not
\* reserve, and shows as consumed exactly what the ledger consumed.
CountersBackedByLedger ==
    \A b \in Budgets :
        /\ rows[b].reserved <= LedgerReserved(b)
        /\ rows[b].consumed = LedgerConsumed(b)

\* Why comparing row_version is enough: a transaction whose version still
\* matches holds the very row that is stored, limits and counters included.
ReadsAgree ==
    /\ \A b \in Budgets : ~rows[b].exists => rows[b] = NoRow
    /\ \A t \in Txs : ~IsIdle(t) =>
         LET read == txs[t].row
             now  == rows[txs[t].budget]
         IN  /\ read.exists => now.exists
             /\ read.version <= now.version
             /\ (read.exists = now.exists /\ read.version = now.version) => read = now

\* What an open transaction checked holds of the row it read, and every
\* amount it carries is a price of a licence.
ChecksStand ==
    /\ \A e \in entries : e.type \in {"RESERVE", "CONSUME"} => e.amount \in Cents
    /\ \A t \in Txs : ~IsIdle(t) =>
         /\ txs[t].op = "SET" => txs[t].amount \in Limits /\ txs[t].single \in Limits
         /\ txs[t].op # "SET" => txs[t].amount \in Cents
         /\ txs[t].op = "RESERVE" => WithinLimits(txs[t].row, txs[t].amount)
         /\ txs[t].op = "REVERSE" => txs[t].amount <= txs[t].row.consumed

\* A reservation takes effect only inside the limits that hold at that moment,
\* although the service compared it with a row it had read before.
ReserveRespectsLimits ==
    [][\A b \in Budgets :
         rows'[b].reserved > rows[b].reserved =>
             WithinLimits(rows[b], rows'[b].reserved - rows[b].reserved)]_vars

\* The two-step transactions implement single-step budget movements.
Purse == [b \in Budgets |-> [amount |-> rows[b].amount, single |-> rows[b].single,
                             reserved |-> rows[b].reserved, consumed |-> rows[b].consumed]]

Governance == INSTANCE BudgetGovernance WITH purse <- Purse

ImplementsGovernance == Governance!Spec
=============================================================================
