---------------------- MODULE WalletTransactionsProofs ----------------------
(***************************************************************************)
(* Proof that over SQLite the transactions of WalletTransactions implement *)
(* the atomic calls of Wallet, although no read takes a lock.              *)
(*                                                                         *)
(* The argument: a transaction that nobody has overtaken ("fresh") sees    *)
(* the accounts as the parties it has served leave them (Current).  Only a *)
(* fresh transaction saves, and while it has saved something nobody else   *)
(* saves or commits; so a transaction that commits is fresh, and what it   *)
(* commits is what the atomic call makes of the accounts at that moment.   *)
(***************************************************************************)
EXTENDS WalletTransactions, WalletProofs

First(op) == IF op = "RELEASE" THEN "seller" ELSE "buyer"

\* What is left of accounts accs once the parties before role are served.
Reached(op, o, a, role, accs) ==
    LET one == After(op, o, a, "buyer", accs)
        two == After(op, o, a, "seller", one)
    IN  CASE role = First(op) -> accs
          [] role = "done" /\ op = "RELEASE" -> After(op, o, a, "seller", accs)
          [] role = "done" /\ op # "RELEASE" -> After(op, o, a, "platform", two)
          [] role = "seller" /\ op # "RELEASE" -> one
          [] role = "platform" -> two

SeenBy(tx, w, accs) == IF w \in tx.saved THEN tx.accs[w] ELSE accs[w]

View(tx, accs) == [w \in Owners |-> SeenBy(tx, w, accs)]

\* What a transaction that nobody has overtaken knows of the accounts accs and
\* of the transfer trs[tx.order].
Current(tx, accs, trs) ==
    /\ tx.transfer = trs[tx.order]
    /\ tx.op # "PURCHASE" => Permitted(tx.op, tx.order, tx.amount, trs[tx.order])
    /\ tx.op = "PURCHASE" /\ (tx.role # "buyer" \/ tx.read) =>
         accs[buyer[tx.order]].available >= price[tx.order]
    /\ tx.read => tx.account = SeenBy(tx, Owner(tx.order, tx.role), accs)
    /\ View(tx, accs) = Reached(tx.op, tx.order, tx.amount, tx.role, accs)

\* The parties are served one after the other, and a transaction that has
\* saved something is not overtaken.
Ordered(tx) ==
    /\ Asked(tx.op, tx.order, tx.amount)
    /\ tx.op = "RELEASE" => tx.role \in {"seller", "done"}
    /\ tx.saved = {} <=> tx.role = First(tx.op)
    /\ tx.role = "done" => ~tx.read
    /\ tx.saved # {} => tx.fresh

Sound(tx, accs, trs) == tx.open => Ordered(tx) /\ (tx.fresh => Current(tx, accs, trs))

\* At most one transaction has saved something.
Apart(tx, other) == tx.open /\ other.open /\ tx.saved # {} => other.saved = {}

TxInv ==
    /\ IInv
    /\ txs \in [Txs -> Opened \cup {Closed}]
    /\ \A t \in Txs : Sound(txs[t], accounts, transfers)
    /\ \A t, u \in Txs : t # u => Apart(txs[t], txs[u])

LEMMA OpenIsOpened ==
    ASSUME txs \in [Txs -> Opened \cup {Closed}], NEW t \in Txs
    PROVE  txs[t].open \in BOOLEAN /\ (txs[t].open => txs[t] \in Opened)
<1>1. CASE txs[t] \in Opened
  BY <1>1 DEF Opened
<1>2. CASE txs[t] = Closed
  BY <1>2 DEF Closed
<1> QED BY <1>1, <1>2

LEMMA InitTxInv == TxInit => TxInv
<1> SUFFICES ASSUME TxInit PROVE TxInv
  OBVIOUS
<1>1. IInv
  BY InitIInv DEF TxInit
<1>2. \A t \in Txs : txs[t] = Closed /\ ~txs[t].open
  BY DEF TxInit, Closed
<1>3. txs \in [Txs -> Opened \cup {Closed}]
  BY DEF TxInit
<1> QED BY <1>1, <1>2, <1>3 DEF TxInv, Sound, Apart

\* A step that leaves the wallet alone and replaces one transaction.
LEMMA OneTransaction ==
    ASSUME TxInv, UNCHANGED walletVars, NEW t \in Txs, NEW tx \in Opened \cup {Closed},
           txs' = [txs EXCEPT ![t] = tx],
           Sound(tx, accounts, transfers),
           \A u \in Txs \ {t} : Apart(tx, txs[u]) /\ Apart(txs[u], tx)
    PROVE  TxInv'
<1>1. IInv'
  BY DEF TxInv, walletVars, IInv, TypeOK, ReversedWithinPrice
<1>2. txs' \in [Txs -> Opened \cup {Closed}]
  BY DEF TxInv
<1>3. txs'[t] = tx /\ \A u \in Txs : u # t => txs'[u] = txs[u]
  BY DEF TxInv
<1>4. accounts' = accounts /\ transfers' = transfers
  BY DEF walletVars
<1>5. \A u \in Txs : Sound(txs'[u], accounts', transfers')
  BY <1>3, <1>4 DEF TxInv
<1>6. \A u, v \in Txs : u # v => Apart(txs'[u], txs'[v])
  BY <1>3 DEF TxInv
<1> QED BY <1>1, <1>2, <1>5, <1>6 DEF TxInv

LEMMA InvFacts ==
    ASSUME TxInv
    PROVE  /\ accounts \in [Owners -> Accounts] /\ transfers \in [Orders -> Transfers]
           /\ txs \in [Txs -> Opened \cup {Closed}]
           /\ \A t \in Txs : Sound(txs[t], accounts, transfers)
           /\ \A t, u \in Txs : t # u => Apart(txs[t], txs[u])
BY DEF TxInv, IInv, TypeOK

LEMMA AskedIsAmount ==
    ASSUME NEW o \in Orders, NEW op, NEW a, Asked(op, o, a)
    PROVE  a \in Nat /\ op \in Ops
<1>1. price[o] \in Nat /\ price[o] - (price[o] \div 10) \in Nat
  BY AmountsAreIntegers
<1>2. Share(o) \in Nat
  BY <1>1 DEF Share, Fee
<1>3. Parts \subseteq Nat
  BY WalletAssumption
<1> QED BY <1>1, <1>2, <1>3 DEF Asked, Ops

LEMMA BeginKeepsTxInv ==
    ASSUME TxInv, NEW t \in Txs, NEW o \in Orders, NEW op, NEW a, Asked(op, o, a),
           Begin(t, op, o, a)
    PROVE  TxInv'
<1> DEFINE first == IF op = "RELEASE" THEN "seller" ELSE "buyer"
           tx == [open |-> TRUE, op |-> op, order |-> o, amount |-> a,
                  transfer |-> transfers[o], role |-> first,
                  read |-> FALSE, account |-> NoAccount,
                  saved |-> {}, accs |-> [w \in Owners |-> NoAccount], fresh |-> TRUE]
<1>1. /\ accounts \in [Owners -> Accounts] /\ transfers[o] \in Transfers
      /\ a \in Nat /\ op \in Ops /\ first \in Roles
  BY InvFacts, AskedIsAmount DEF Roles
<1>2. NoAccount \in Accounts
  BY DEF NoAccount, Accounts
<1>3. tx \in Opened
  BY <1>1, <1>2 DEF Opened
<1>4. /\ tx.open /\ tx.op = op /\ tx.order = o /\ tx.amount = a /\ tx.transfer = transfers[o]
      /\ tx.role = first /\ ~tx.read /\ tx.saved = {} /\ tx.fresh
  OBVIOUS
<1>5. txs' = [txs EXCEPT ![t] = tx] /\ UNCHANGED walletVars
  BY DEF Begin
<1>6. op # "PURCHASE" => Permitted(op, o, a, transfers[o])
  BY DEF Begin
<1>7. first = First(op)
  BY DEF First
<1> HIDE DEF first, tx
<1>8. View(tx, accounts) = accounts
  BY <1>1, <1>4 DEF View, SeenBy
<1>9. Reached(op, o, a, first, accounts) = accounts
  BY <1>7 DEF Reached, First
<1>10. first = "done" => FALSE
  BY <1>7 DEF First
<1>11. Current(tx, accounts, transfers)
  <2>1. op = "PURCHASE" => first = "buyer"
    BY <1>7 DEF First
  <2> QED BY <1>4, <1>6, <1>8, <1>9, <2>1 DEF Current
<1>12. Ordered(tx)
  <2>1. op = "RELEASE" => first = "seller"
    BY <1>7 DEF First
  <2> QED BY <1>4, <1>7, <2>1 DEF Ordered
<1>13. Sound(tx, accounts, transfers)
  BY <1>11, <1>12 DEF Sound
<1>14. \A u \in Txs \ {t} : Apart(tx, txs[u]) /\ Apart(txs[u], tx)
  BY <1>4 DEF Apart
<1> QED BY <1>3, <1>5, <1>13, <1>14, OneTransaction

\* Closing a transaction.
LEMMA CloseKeepsTxInv ==
    ASSUME TxInv, NEW t \in Txs, Close(t), UNCHANGED walletVars
    PROVE  TxInv'
<1>1. ~Closed.open
  BY DEF Closed
<1>2. Sound(Closed, accounts, transfers) /\ \A u \in Txs : Apart(Closed, txs[u]) /\ Apart(txs[u], Closed)
  BY <1>1 DEF Sound, Apart
<1>3. txs' = [txs EXCEPT ![t] = Closed]
  BY DEF Close
<1> QED BY <1>2, <1>3, OneTransaction

\* A transaction that is serving a party.
LEMMA ServingFacts ==
    ASSUME TxInv, NEW t \in Txs, Serving(t)
    PROVE  /\ txs[t] \in Opened /\ txs[t].open
           /\ txs[t].order \in Orders /\ txs[t].amount \in Int /\ txs[t].op \in Ops
           /\ txs[t].role \in Roles /\ txs[t].read \in BOOLEAN /\ txs[t].account \in Accounts
           /\ txs[t].saved \subseteq Owners /\ txs[t].accs \in [Owners -> Accounts]
           /\ txs[t].op = "RELEASE" => txs[t].role = "seller"
           /\ Owner(txs[t].order, txs[t].role) \in Owners
           /\ Ordered(txs[t]) /\ (txs[t].fresh => Current(txs[t], accounts, transfers))
<1>1. txs[t].open /\ txs[t].role # "done"
  BY DEF Serving
<1>2. txs[t] \in Opened
  BY <1>1, InvFacts, OpenIsOpened
<1>3. /\ txs[t].order \in Orders /\ txs[t].amount \in Int /\ txs[t].op \in Ops
      /\ txs[t].role \in Roles /\ txs[t].read \in BOOLEAN /\ txs[t].account \in Accounts
      /\ txs[t].saved \subseteq Owners /\ txs[t].accs \in [Owners -> Accounts]
  <2> DEFINE tx == txs[t]
  <2>1. tx \in Opened /\ tx.role # "done"
    BY <1>1, <1>2
  <2> HIDE DEF tx
  <2>2. /\ tx.order \in Orders /\ tx.amount \in Nat /\ tx.op \in Ops
        /\ tx.role \in Roles \cup {"done"} /\ tx.read \in BOOLEAN /\ tx.account \in Accounts
        /\ tx.saved \in SUBSET Owners /\ tx.accs \in [Owners -> Accounts]
    BY <2>1 DEF Opened
  <2> QED BY <2>1, <2>2 DEF tx
<1>4. Ordered(txs[t]) /\ (txs[t].fresh => Current(txs[t], accounts, transfers))
  BY <1>1, InvFacts DEF Sound
<1>5. txs[t].op = "RELEASE" => txs[t].role = "seller"
  BY <1>1, <1>4 DEF Ordered
<1>6. Owner(txs[t].order, txs[t].role) \in Owners
  BY <1>3, OwnerIsOwner DEF Roles
<1> QED BY <1>1, <1>2, <1>3, <1>4, <1>5, <1>6

LEMMA ReadAccountKeepsTxInv ==
    ASSUME TxInv, NEW t \in Txs, ReadAccount(t)
    PROVE  TxInv'
<1> DEFINE old == txs[t]
           account == Seen(t, Owner(old.order, old.role))
           tx == [old EXCEPT !.read = TRUE, !.account = account]
<1>1. Serving(t) /\ ~old.read /\ UNCHANGED walletVars
  BY DEF ReadAccount
<1>2. /\ old \in Opened /\ old.open /\ old.order \in Orders /\ old.role \in Roles
      /\ old.saved \subseteq Owners /\ old.accs \in [Owners -> Accounts]
      /\ Owner(old.order, old.role) \in Owners
      /\ Ordered(old) /\ (old.fresh => Current(old, accounts, transfers))
      /\ old.role # "done"
  BY <1>1, ServingFacts DEF Serving
<1>3. CASE old.op = "PURCHASE" /\ old.role = "buyer" /\ account.available < price[old.order]
  <2>1. Close(t)
    BY <1>3 DEF ReadAccount
  <2> QED BY <1>1, <2>1, CloseKeepsTxInv
<1>4. CASE ~(old.op = "PURCHASE" /\ old.role = "buyer" /\ account.available < price[old.order])
  <2>1. txs' = [txs EXCEPT ![t] = tx]
    <3>1. txs' = [txs EXCEPT ![t].read = TRUE, ![t].account = account]
      BY <1>4 DEF ReadAccount
    <3> QED BY <3>1, InvFacts
  <2>2. account = SeenBy(old, Owner(old.order, old.role), accounts)
    BY DEF Seen, SeenBy
  <2>3. account \in Accounts
    BY <1>2, <2>2, InvFacts DEF SeenBy
  <2> HIDE DEF account
  <2>4. /\ tx \in Opened /\ tx.open = old.open /\ tx.op = old.op /\ tx.order = old.order
        /\ tx.amount = old.amount /\ tx.transfer = old.transfer /\ tx.role = old.role
        /\ tx.read = TRUE /\ tx.account = account /\ tx.saved = old.saved
        /\ tx.accs = old.accs /\ tx.fresh = old.fresh
    BY <1>2, <2>3 DEF Opened
  <2> HIDE DEF tx
  <2>5. Ordered(tx)
    BY <1>2, <2>4 DEF Ordered
  <2>6. /\ \A w : SeenBy(tx, w, accounts) = SeenBy(old, w, accounts)
        /\ View(tx, accounts) = View(old, accounts)
    BY <2>4 DEF SeenBy, View
  <2>7. ASSUME old.fresh PROVE Current(tx, accounts, transfers)
    <3>1. ASSUME tx.op = "PURCHASE" PROVE accounts[buyer[tx.order]].available >= price[tx.order]
      <4>1. CASE tx.role # "buyer"
        BY <1>2, <2>4, <2>7, <3>1, <4>1 DEF Current
      <4>2. CASE tx.role = "buyer"
        <5>1. old.saved = {}
          BY <1>2, <2>4, <3>1, <4>2 DEF Ordered, First
        <5>2. account = accounts[buyer[old.order]]
          BY <2>2, <2>4, <4>2, <5>1 DEF SeenBy, Owner
        <5>3. account.available \in Int /\ price[old.order] \in Int
          BY <1>2, <2>3, AmountsAreIntegers DEF Accounts
        <5>4. ~(account.available < price[old.order])
          BY <1>4, <2>4, <3>1, <4>2
        <5> QED BY <2>4, <5>2, <5>3, <5>4
      <4> QED BY <4>1, <4>2
    <3>2. Current(old, accounts, transfers)
      BY <1>2, <2>7
    <3> QED BY <2>2, <2>4, <2>6, <3>1, <3>2 DEF Current
  <2>8. Sound(tx, accounts, transfers)
    BY <1>2, <2>4, <2>5, <2>7 DEF Sound
  <2>9. \A u \in Txs \ {t} : Apart(tx, txs[u]) /\ Apart(txs[u], tx)
    BY <2>4, InvFacts DEF Apart
  <2> QED BY <1>1, <2>1, <2>4, <2>8, <2>9, OneTransaction
<1> QED BY <1>3, <1>4

\* Serving the next party of a call takes the accounts one stage further.
LEMMA ServeNext ==
    ASSUME NEW op \in Ops, NEW o, NEW a, NEW accs, NEW role \in Roles,
           op = "RELEASE" => role = "seller"
    PROVE  Reached(op, o, a, NextRole(op, role), accs)
             = After(op, o, a, role, Reached(op, o, a, role, accs))
<1>1. CASE op = "RELEASE"
  BY <1>1 DEF Reached, NextRole, First
<1>2. CASE op # "RELEASE" /\ role = "buyer"
  BY <1>2 DEF Reached, NextRole, First
<1>3. CASE op # "RELEASE" /\ role = "seller"
  BY <1>3 DEF Reached, NextRole, First
<1>4. CASE op # "RELEASE" /\ role = "platform"
  BY <1>4 DEF Reached, NextRole, First
<1> QED BY <1>1, <1>2, <1>3, <1>4 DEF Roles

\* In SQLite a transaction that saves is not overtaken, and nobody else has
\* saved anything.
LEMMA SaveAccountKeepsTxInv ==
    ASSUME TxInv, Sqlite, NEW t \in Txs, SaveAccount(t)
    PROVE  TxInv'
<1> DEFINE old == txs[t]
           owner == Owner(old.order, old.role)
           new == Changed(old.op, old.order, old.amount, old.role, old.account)
           next == NextRole(old.op, old.role)
           tx == [old EXCEPT !.read = FALSE, !.role = next,
                             !.saved = old.saved \cup {owner},
                             !.accs = [old.accs EXCEPT ![owner] = new]]
<1>1. Serving(t) /\ old.read /\ Writable(t, owner) /\ UNCHANGED walletVars
  BY DEF SaveAccount
<1>2. /\ old \in Opened /\ old.open /\ old.order \in Orders /\ old.amount \in Int
      /\ old.op \in Ops /\ old.role \in Roles /\ old.account \in Accounts
      /\ old.saved \subseteq Owners /\ old.accs \in [Owners -> Accounts]
      /\ old.op = "RELEASE" => old.role = "seller"
      /\ owner \in Owners
      /\ Ordered(old) /\ (old.fresh => Current(old, accounts, transfers))
  BY <1>1, ServingFacts
<1>3. old.fresh /\ \A u \in Txs \ {t} : txs[u].open => txs[u].saved = {}
  BY <1>1 DEF Writable
<1>4. new \in Accounts
  BY <1>2, ChangedIsAccount DEF Ops, Roles
<1>5. /\ next \in Roles \cup {"done"} /\ next # "buyer" /\ next # First(old.op)
      /\ old.op = "RELEASE" => next = "done"
  BY <1>2 DEF NextRole, Roles, First
<1>6. Reached(old.op, old.order, old.amount, next, accounts)
        = After(old.op, old.order, old.amount, old.role,
                Reached(old.op, old.order, old.amount, old.role, accounts))
  BY <1>2, ServeNext
<1>7. txs' = [txs EXCEPT ![t] = tx]
  BY DEF SaveAccount
<1>8. After(old.op, old.order, old.amount, old.role, View(old, accounts))
        = [View(old, accounts) EXCEPT ![owner] = new]
  <2>1. old.account = View(old, accounts)[owner]
    BY <1>1, <1>2, <1>3 DEF Current, View
  <2> QED BY <2>1 DEF After
<1> HIDE DEF next, new, owner
<1>9. /\ tx \in Opened /\ tx.open /\ tx.op = old.op /\ tx.order = old.order
      /\ tx.amount = old.amount /\ tx.transfer = old.transfer /\ tx.role = next
      /\ ~tx.read /\ tx.saved = old.saved \cup {owner} /\ tx.fresh = old.fresh
      /\ tx.accs = [old.accs EXCEPT ![owner] = new]
  <2>1. /\ [old.accs EXCEPT ![owner] = new] \in [Owners -> Accounts]
        /\ old.saved \cup {owner} \in SUBSET Owners
    BY <1>2, <1>4
  <2> QED BY <1>2, <1>5, <2>1 DEF Opened
<1> HIDE DEF tx
<1>10. View(tx, accounts) = [View(old, accounts) EXCEPT ![owner] = new]
  BY <1>2, <1>9 DEF View, SeenBy
<1>11. Current(tx, accounts, transfers)
  <2>1. Current(old, accounts, transfers)
    BY <1>2, <1>3
  <2>2. View(tx, accounts) = Reached(tx.op, tx.order, tx.amount, tx.role, accounts)
    BY <1>6, <1>8, <1>9, <1>10, <2>1 DEF Current
  <2> QED BY <1>1, <1>9, <2>1, <2>2 DEF Current
<1>12. Ordered(tx)
  BY <1>2, <1>3, <1>5, <1>9 DEF Ordered
<1>13. Sound(tx, accounts, transfers)
  BY <1>11, <1>12 DEF Sound
<1>14. \A u \in Txs \ {t} : Apart(tx, txs[u]) /\ Apart(txs[u], tx)
  BY <1>3 DEF Apart
<1> QED BY <1>1, <1>7, <1>9, <1>13, <1>14, OneTransaction

\* A commit closes the transactions of T and overtakes the others, none of
\* which has saved anything.
LEMMA OvertakingKeepsTxInv ==
    ASSUME TxInv, IInv', NEW T \in SUBSET Txs,
           txs' = [u \in Txs |-> IF u \in T \/ ~txs[u].open THEN Closed
                                 ELSE [txs[u] EXCEPT !.fresh = FALSE]],
           \A u \in Txs \ T : txs[u].open => txs[u].saved = {}
    PROVE  TxInv'
<1>1. ASSUME NEW u \in Txs, txs'[u].open
      PROVE  /\ u \notin T /\ txs[u].open /\ txs'[u] = [txs[u] EXCEPT !.fresh = FALSE]
             /\ txs'[u] \in Opened /\ ~txs'[u].fresh /\ txs'[u].saved = {}
             /\ Ordered(txs'[u])
  <2>1. ~Closed.open
    BY DEF Closed
  <2>2. u \notin T /\ txs[u].open /\ txs'[u] = [txs[u] EXCEPT !.fresh = FALSE]
    BY <1>1, <2>1
  <2>3. txs[u] \in Opened /\ txs[u].saved = {} /\ Ordered(txs[u])
    BY <2>2, InvFacts, OpenIsOpened DEF Sound
  <2> DEFINE old == txs[u]
             tx == [old EXCEPT !.fresh = FALSE]
  <2>4. old \in Opened /\ old.saved = {} /\ Ordered(old)
    BY <2>3
  <2>5. /\ tx \in Opened /\ ~tx.fresh /\ tx.saved = {} /\ tx.op = old.op
        /\ tx.order = old.order /\ tx.amount = old.amount /\ tx.role = old.role
        /\ tx.read = old.read
    <3> HIDE DEF old
    <3> QED BY <2>4 DEF Opened
  <2> HIDE DEF tx, old
  <2>6. Ordered(tx)
    BY <2>4, <2>5 DEF Ordered
  <2> QED BY <2>2, <2>5, <2>6 DEF tx, old
<1>2. txs' \in [Txs -> Opened \cup {Closed}]
  <2>1. \A u \in Txs : txs'[u] = Closed \/ txs'[u] \in Opened
    <3> TAKE u \in Txs
    <3>1. CASE u \in T \/ ~txs[u].open
      BY <3>1
    <3>2. CASE ~(u \in T \/ ~txs[u].open)
      <4>1. txs[u] \in Opened /\ txs'[u] = [txs[u] EXCEPT !.fresh = FALSE]
        BY <3>2, InvFacts, OpenIsOpened
      <4>2. txs'[u].open
        BY <4>1 DEF Opened
      <4> QED BY <1>1, <4>2
    <3> QED BY <3>1, <3>2
  <2> QED BY <2>1
<1>3. \A u \in Txs : Sound(txs'[u], accounts', transfers')
  BY <1>1 DEF Sound
<1>4. \A u, v \in Txs : u # v => Apart(txs'[u], txs'[v])
  BY <1>1 DEF Apart
<1> QED BY <1>2, <1>3, <1>4 DEF TxInv

\* What a transaction commits is what the atomic call does.
LEMMA CommitIsCall ==
    ASSUME TxInv, NEW t \in Txs, Commit(t)
    PROVE  TxInv' /\ Next
<1> DEFINE tx == txs[t]
           op == tx.op
           o == tx.order
           a == tx.amount
<1>1. tx.open /\ tx.role = "done"
  BY DEF Commit
<1>2. tx \in Opened /\ o \in Orders /\ op \in Ops
  <2>1. tx \in Opened
    BY <1>1, InvFacts, OpenIsOpened
  <2> HIDE DEF tx
  <2> QED BY <2>1 DEF Opened
<1>3. Ordered(tx) /\ (tx.fresh => Current(tx, accounts, transfers))
  BY <1>1, InvFacts DEF Sound
<1>4. Asked(op, o, a)
  BY <1>3 DEF Ordered
<1>5. tx.saved # {} /\ Current(tx, accounts, transfers)
  BY <1>1, <1>3 DEF Ordered, First
<1>6. accounts' = Served(op, o, a)
  <2>1. accounts' = View(tx, accounts)
    BY DEF Commit, Seen, View, SeenBy
  <2>2. View(tx, accounts) = Reached(op, o, a, "done", accounts)
    BY <1>1, <1>5 DEF Current
  <2>3. Reached(op, o, a, "done", accounts) = Served(op, o, a)
    BY DEF Reached, Served, First
  <2> QED BY <2>1, <2>2, <2>3
<1>7. Call(op, o, a)
  <2>1. Permitted(op, o, a, transfers[o])
    <3>1. CASE op = "PURCHASE"
      BY <3>1 DEF Commit, Permitted
    <3>2. CASE op # "PURCHASE"
      BY <1>5, <3>2 DEF Current
    <3> QED BY <3>1, <3>2
  <2>2. op = "PURCHASE" => accounts[buyer[o]].available >= price[o]
    BY <1>1, <1>5 DEF Current
  <2>3. /\ transfers' = [transfers EXCEPT ![o] = Settled(op, o, a, transfers[o])]
        /\ ledger' = Posted(op, o) /\ toppedUp' = toppedUp
    BY <1>5 DEF Commit, Current
  <2> QED BY <1>6, <2>1, <2>2, <2>3 DEF Call
<1>8. IInv'
  BY <1>2, <1>4, <1>7, CallKeepsIInv DEF TxInv
<1>9. \A u \in Txs \ {t} : txs[u].open => txs[u].saved = {}
  BY <1>1, <1>5, InvFacts DEF Apart
<1>10. txs' = [u \in Txs |-> IF u \in {t} \/ ~txs[u].open THEN Closed
                             ELSE [txs[u] EXCEPT !.fresh = FALSE]]
  BY DEF Commit
<1>11. TxInv'
  BY <1>8, <1>9, <1>10, {t} \in SUBSET Txs, OvertakingKeepsTxInv
<1>12. Next
  <2> HIDE DEF op, o, a
  <2>1. CASE op = "PURCHASE" /\ a = price[o]
    BY <1>2, <1>7, <2>1 DEF Next, Purchase
  <2>2. CASE op = "RELEASE" /\ a = Share(o)
    BY <1>2, <1>7, <2>2 DEF Next, Release
  <2>3. CASE op = "REVERSE" /\ a \in Parts
    BY <1>2, <1>7, <2>3 DEF Next, Reverse
  <2> QED BY <1>4, <2>1, <2>2, <2>3 DEF Asked
<1> QED BY <1>11, <1>12

\* In SQLite a top-up commits while no transaction has saved anything.
LEMMA TopUpStepIsTopUp ==
    ASSUME TxInv, Sqlite, NEW u \in TopUps, TopUpStep(u)
    PROVE  TxInv' /\ Next
<1>1. TopUp(u) /\ \A t \in Txs : txs[t].open => txs[t].saved = {}
  BY DEF TopUpStep
<1>2. IInv'
  BY <1>1, TopUpKeepsIInv DEF TxInv
<1>3. txs' = [t \in Txs |-> IF t \in {} \/ ~txs[t].open THEN Closed
                           ELSE [txs[t] EXCEPT !.fresh = FALSE]]
  BY DEF TopUpStep
<1>4. TxInv'
  BY <1>1, <1>2, <1>3, {} \in SUBSET Txs, OvertakingKeepsTxInv
<1> QED BY <1>1, <1>4 DEF Next

\* Every step keeps the invariant and is a step of Wallet or leaves it alone.
LEMMA StepIsWalletStep ==
    ASSUME TxInv, Sqlite, [TxNext]_vars
    PROVE  TxInv' /\ [Next]_walletVars
<1>1. ASSUME NEW t \in Txs, NEW o \in Orders,
             \/ Begin(t, "PURCHASE", o, price[o])
             \/ Begin(t, "RELEASE", o, Share(o))
             \/ \E a \in Parts : Begin(t, "REVERSE", o, a)
      PROVE  TxInv' /\ UNCHANGED walletVars
  <2>1. PICK op, a : Begin(t, op, o, a) /\ Asked(op, o, a)
    BY <1>1 DEF Asked
  <2> QED BY <2>1, BeginKeepsTxInv DEF Begin
<1>2. ASSUME NEW t \in Txs, ReadAccount(t) PROVE TxInv' /\ UNCHANGED walletVars
  BY <1>2, ReadAccountKeepsTxInv DEF ReadAccount
<1>3. ASSUME NEW t \in Txs, SaveAccount(t) PROVE TxInv' /\ UNCHANGED walletVars
  BY <1>3, SaveAccountKeepsTxInv DEF SaveAccount
<1>4. ASSUME NEW t \in Txs, Abort(t) PROVE TxInv' /\ UNCHANGED walletVars
  BY <1>4, CloseKeepsTxInv DEF Abort
<1>5. CASE UNCHANGED vars
  BY <1>5 DEF vars, walletVars, TxInv, IInv, TypeOK, ReversedWithinPrice
<1>6. CASE TxNext
  BY <1>1, <1>2, <1>3, <1>4, <1>6, CommitIsCall, TopUpStepIsTopUp DEF TxNext
<1>7. UNCHANGED vars => UNCHANGED walletVars
  BY DEF vars, walletVars
<1> QED BY <1>5, <1>6, <1>7

\* model/wallet.go over SQLite: although lockWallet locks nothing, whatever
\* transactions commit, and in whatever order they read and save, amounts to
\* atomic calls, for any number of transactions, orders and users.
THEOREM SqliteImplementsWallet ==
    ASSUME Sqlite PROVE TxSpec => ImplementsWallet
<1>1. TxInit => TxInv /\ Init
  BY InitTxInv DEF TxInit
<1>2. TxInv /\ [TxNext]_vars => TxInv' /\ [Next]_walletVars
  BY StepIsWalletStep
<1> QED BY <1>1, <1>2, PTL DEF TxSpec, ImplementsWallet, Spec

\* The accounts and transfers keep their types while the transactions run.
THEOREM TransactionsTypeCorrect ==
    ASSUME Sqlite PROVE TxSpec => []TxTypeOK
<1>1. TxInit => TxInv
  BY InitTxInv
<1>2. TxInv /\ [TxNext]_vars => TxInv'
  BY StepIsWalletStep
<1>3. TxInv => TxTypeOK
  BY DEF TxInv, IInv, TxTypeOK
<1> QED BY <1>1, <1>2, <1>3, PTL DEF TxSpec

\* What holds of the atomic calls holds of the transactions of SQLite: they
\* neither make nor lose money, nobody spends more than was topped up or gets
\* back more than was paid, and the ledger lacks nothing but the reversals.
THEOREM TransactionsKeepMoney ==
    ASSUME Sqlite
    PROVE  TxSpec => [](MoneyConserved /\ BuyersSpendOwnMoney
                        /\ ReversedWithinPrice /\ LedgerLacksReversals)
<1>1. TxSpec => Spec
  BY SqliteImplementsWallet DEF ImplementsWallet
<1> QED BY <1>1, NoMoneyIsMade, SpendingIsCovered, ReversalsAreCapped, OnlyReversalsAreMissing, PTL

\* To the market the transactions of SQLite look like single steps that take
\* the price of an order once and give all of it back at most once.
THEOREM TransactionsKeepOrderMoney ==
    ASSUME Sqlite PROVE TxSpec => ImplementsOrderMoney
<1>1. TxSpec => Spec
  BY SqliteImplementsWallet DEF ImplementsWallet
<1> QED BY <1>1, WalletImplementsOrderMoney, PTL
=============================================================================
