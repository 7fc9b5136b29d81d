------------------------- MODULE WalletTransactions -------------------------
(***************************************************************************)
(* The database transactions of model/wallet.go (new-api).  Each one reads *)
(* and saves one account after the other, with absolute balances, and then *)
(* writes the transfer and commits.                                        *)
(*                                                                         *)
(* lockWallet asks for FOR UPDATE with a query option of the first gorm;   *)
(* the gorm in go.mod ignores it, so a read takes no lock.  What other     *)
(* transactions may do between a read and the save that follows depends on *)
(* the database:                                                           *)
(*   SQLite (the default): one writer at a time, and a write by a          *)
(*     transaction that read before another's commit fails;                *)
(*   PostgreSQL (docker-compose.yml): a save waits for the row's lock, and *)
(*     then overwrites what the other transaction committed.               *)
(***************************************************************************)
EXTENDS Wallet, Sequences

CONSTANTS
    Txs,     \* transactions that may be open at once
    Sqlite   \* TRUE for SQLite, FALSE for PostgreSQL

ASSUME EngineAssumption == Sqlite \in BOOLEAN

VARIABLES txs  \* the open transactions

vars == <<accounts, transfers, toppedUp, ledger, txs>>

Ops == {"PURCHASE", "RELEASE", "REVERSE"}

Roles == {"buyer", "seller", "platform"}

Closed == [open |-> FALSE]

\* A transaction that is open: the transfer and the account it has read, the
\* accounts it has saved, the parties left to serve, and whether another
\* transaction has committed since it began.
Opened == [open : {TRUE}, op : Ops, order : Orders, amount : Nat, transfer : Transfers,
           role : Roles \cup {"done"}, read : BOOLEAN, account : Accounts,
           saved : SUBSET Owners, accs : [Owners -> Accounts], fresh : BOOLEAN]

TxTypeOK == TypeOK /\ txs \in [Txs -> Opened \cup {Closed}]

NoAccount == [available |-> 0, frozen |-> 0]

TxInit == Init /\ txs = [t \in Txs |-> Closed]

Close(t) == txs' = [txs EXCEPT ![t] = Closed]

\* The first SELECT: the transfer, or none for a purchase.  A call that may
\* not go on returns here without a trace.
Begin(t, op, o, a) ==
    /\ ~txs[t].open
    /\ op # "PURCHASE" => Permitted(op, o, a, transfers[o])
    /\ txs' = [txs EXCEPT ![t] =
                 [open |-> TRUE, op |-> op, order |-> o, amount |-> a,
                  transfer |-> transfers[o],
                  role |-> IF op = "RELEASE" THEN "seller" ELSE "buyer",
                  read |-> FALSE, account |-> NoAccount,
                  saved |-> {}, accs |-> [w \in Owners |-> NoAccount], fresh |-> TRUE]]
    /\ UNCHANGED walletVars

\* What transaction t sees of an account: its own write, or the committed row.
Seen(t, owner) == IF owner \in txs[t].saved THEN txs[t].accs[owner] ELSE accounts[owner]

Serving(t) == txs[t].open /\ txs[t].role # "done"

\* lockWallet: reads the account of the next party; a buyer without the money
\* ends the purchase.
ReadAccount(t) ==
    /\ Serving(t) /\ ~txs[t].read
    /\ LET account == Seen(t, Owner(txs[t].order, txs[t].role))
       IN  IF /\ txs[t].op = "PURCHASE" /\ txs[t].role = "buyer"
              /\ account.available < price[txs[t].order]
           THEN Close(t)
           ELSE txs' = [txs EXCEPT ![t].read = TRUE, ![t].account = account]
    /\ UNCHANGED walletVars

\* A plausible slip: the database lets a stale transaction write.
AlwaysWritable(t, owner) ==
    \A u \in Txs \ {t} : txs[u].open => owner \notin txs[u].saved

\* The row, or in SQLite the whole file, is not being written by another
\* transaction; SQLite also refuses a transaction that is behind.
Writable(t, owner) ==
    /\ \A u \in Txs \ {t} : txs[u].open => owner \notin txs[u].saved
    /\ Sqlite => /\ \A u \in Txs \ {t} : txs[u].open => txs[u].saved = {}
                 /\ txs[t].fresh

NextRole(op, role) ==
    CASE role = "buyer" -> "seller"
      [] role = "seller" -> IF op = "RELEASE" THEN "done" ELSE "platform"
      [] role = "platform" -> "done"

\* tx.Save: writes the balances computed from the account that was read.
SaveAccount(t) ==
    /\ Serving(t) /\ txs[t].read
    /\ LET tx == txs[t]
           owner == Owner(tx.order, tx.role)
           new == Changed(tx.op, tx.order, tx.amount, tx.role, tx.account)
       IN  /\ Writable(t, owner)
           /\ txs' = [txs EXCEPT ![t] =
                        [tx EXCEPT !.read = FALSE, !.role = NextRole(tx.op, tx.role),
                                   !.saved = tx.saved \cup {owner},
                                   !.accs = [tx.accs EXCEPT ![owner] = new]]]
    /\ UNCHANGED walletVars

\* The insert or save of the transfer, the ledger entries, and the commit.  A
\* purchase that finds a transfer for its order violates the unique index.
Commit(t) ==
    /\ txs[t].open /\ txs[t].role = "done"
    /\ LET tx == txs[t]
       IN  /\ tx.op = "PURCHASE" => transfers[tx.order].status = "NONE"
           /\ accounts' = [w \in Owners |-> Seen(t, w)]
           /\ transfers' = [transfers EXCEPT ![tx.order] =
                              Settled(tx.op, tx.order, tx.amount, tx.transfer)]
           /\ ledger' = Posted(tx.op, tx.order)
    /\ txs' = [u \in Txs |-> IF u = t \/ ~txs[u].open THEN Closed
                             ELSE [txs[u] EXCEPT !.fresh = FALSE]]
    /\ UNCHANGED toppedUp

\* An error, a deadlock, a duplicate purchase, or the service going down.
Abort(t) == txs[t].open /\ Close(t) /\ UNCHANGED walletVars

\* A top-up is part of the transaction that completes it and is one step here:
\* it reads and writes a single account that no open transaction has saved.
TopUpStep(u) ==
    /\ TopUp(u)
    /\ \A t \in Txs : txs[t].open =>
         payee[u] \notin txs[t].saved /\ (Sqlite => txs[t].saved = {})
    /\ txs' = [t \in Txs |-> IF txs[t].open THEN [txs[t] EXCEPT !.fresh = FALSE] ELSE Closed]

TxNext ==
    \/ \E t \in Txs, o \in Orders :
         \/ Begin(t, "PURCHASE", o, price[o])
         \/ Begin(t, "RELEASE", o, Share(o))
         \/ \E a \in Parts : Begin(t, "REVERSE", o, a)
    \/ \E t \in Txs : ReadAccount(t) \/ SaveAccount(t) \/ Commit(t) \/ Abort(t)
    \/ \E u \in TopUps : TopUpStep(u)

TxSpec == TxInit /\ [][TxNext]_vars
-----------------------------------------------------------------------------
\* Committed transactions amount to atomic calls: the transactions of SQLite,
\* or any that do not overlap, implement the wallet.
ImplementsWallet == Spec
=============================================================================
