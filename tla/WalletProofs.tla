---------------------------- MODULE WalletProofs ----------------------------
(***************************************************************************)
(* Proofs about Wallet: its type invariant; that reversals, in any number  *)
(* of parts and in any order with releases, never give back more than was  *)
(* paid; and, in sums over all owners, orders and top-ups, that no call    *)
(* makes or loses money, that nobody spends what is not theirs, and what   *)
(* the ledger leaves out.                                                  *)
(***************************************************************************)
EXTENDS Wallet, SumTheorems, TLAPS

IInv == TypeOK /\ ReversedWithinPrice

\* The calls that Next makes: an operation on an order, for some cents.
Asked(op, o, a) ==
    \/ op = "PURCHASE" /\ a = price[o]
    \/ op = "RELEASE" /\ a = Share(o)
    \/ op = "REVERSE" /\ a \in Parts

LEMMA AmountsAreIntegers ==
    ASSUME NEW o \in Orders
    PROVE  /\ price[o] \in Nat /\ price[o] > 0 /\ Fee(o) \in Int /\ Share(o) \in Int
           /\ \A a \in Int : SellerPart(o, a) \in Int
<1>1. price[o] \in Nat /\ price[o] > 0
  BY WalletAssumption
<1>2. Fee(o) \in Int
  BY <1>1 DEF Fee
<1>3. Share(o) \in Int
  BY <1>1, <1>2 DEF Share
<1>4. ASSUME NEW a \in Int PROVE SellerPart(o, a) \in Int
  <2>1. a * Share(o) \in Int
    BY <1>3
  <2> DEFINE n == a * Share(o)
  <2> HIDE DEF n
  <2>2. n \div price[o] \in Int
    BY <1>1, <2>1 DEF n
  <2> QED BY <2>2 DEF SellerPart, n
<1> QED BY <1>1, <1>2, <1>3, <1>4

LEMMA PlusIsAccount ==
    ASSUME NEW account \in Accounts, NEW x \in Int, NEW y \in Int
    PROVE  Plus(account, x, y) \in Accounts
BY DEF Plus, Accounts

\* Serving a party of a call leaves its account an account.
LEMMA ChangedIsAccount ==
    ASSUME NEW o \in Orders, NEW a \in Int, NEW account \in Accounts,
           NEW op, NEW role,
           \/ op \in {"PURCHASE", "REVERSE"} /\ role \in {"buyer", "seller", "platform"}
           \/ op = "RELEASE" /\ role = "seller"
    PROVE  Changed(op, o, a, role, account) \in Accounts
<1>1. /\ price[o] \in Int /\ Fee(o) \in Int /\ Share(o) \in Int /\ SellerPart(o, a) \in Int
      /\ account.frozen \in Int
  BY AmountsAreIntegers DEF Accounts
<1>2. -price[o] \in Int /\ -Share(o) \in Int /\ SellerPart(o, a) - a \in Int
  BY <1>1
<1>3. TakeBack(account, SellerPart(o, a)) \in Accounts
  <2> DEFINE s == SellerPart(o, a)
  <2>1. s \in Int /\ -s \in Int /\ account.frozen - s \in Int /\ -account.frozen \in Int
    BY <1>1
  <2> HIDE DEF s
  <2>2. TakeBack(account, s) \in Accounts
    BY <2>1, PlusIsAccount DEF TakeBack
  <2> QED BY <2>2 DEF s
<1>4. CASE op = "PURCHASE" /\ role = "buyer"
  <2>1. Changed(op, o, a, role, account) = Plus(account, -price[o], 0)
    BY <1>4 DEF Changed
  <2> QED BY <1>1, <1>2, <2>1, PlusIsAccount
<1>5. CASE op = "PURCHASE" /\ role = "seller"
  <2>1. Changed(op, o, a, role, account) = Plus(account, 0, Share(o))
    BY <1>5 DEF Changed
  <2> QED BY <1>1, <1>2, <2>1, PlusIsAccount
<1>6. CASE op = "PURCHASE" /\ role = "platform"
  <2>1. Changed(op, o, a, role, account) = Plus(account, Fee(o), 0)
    BY <1>6 DEF Changed
  <2> QED BY <1>1, <1>2, <2>1, PlusIsAccount
<1>7. CASE op = "RELEASE" /\ role = "seller"
  <2>1. Changed(op, o, a, role, account) = Plus(account, Share(o), -Share(o))
    BY <1>7 DEF Changed
  <2> QED BY <1>1, <1>2, <2>1, PlusIsAccount
<1>8. CASE op = "REVERSE" /\ role = "buyer"
  <2>1. Changed(op, o, a, role, account) = Plus(account, a, 0)
    BY <1>8 DEF Changed
  <2> QED BY <1>1, <1>2, <2>1, PlusIsAccount
<1>9. CASE op = "REVERSE" /\ role = "seller"
  BY <1>3, <1>9 DEF Changed
<1>10. CASE op = "REVERSE" /\ role = "platform"
  <2>1. Changed(op, o, a, role, account) = Plus(account, SellerPart(o, a) - a, 0)
    BY <1>10 DEF Changed
  <2> QED BY <1>1, <1>2, <2>1, PlusIsAccount
<1> QED BY <1>4, <1>5, <1>6, <1>7, <1>8, <1>9, <1>10

LEMMA OwnerIsOwner ==
    ASSUME NEW o \in Orders, NEW role \in {"buyer", "seller", "platform"}
    PROVE  Owner(o, role) \in Owners
BY WalletAssumption DEF Owner, Owners

LEMMA AfterIsAccounts ==
    ASSUME NEW o \in Orders, NEW a \in Int, NEW accs \in [Owners -> Accounts],
           NEW op, NEW role,
           \/ op \in {"PURCHASE", "REVERSE"} /\ role \in {"buyer", "seller", "platform"}
           \/ op = "RELEASE" /\ role = "seller"
    PROVE  After(op, o, a, role, accs) \in [Owners -> Accounts]
<1> DEFINE owner == Owner(o, role)
           new == Changed(op, o, a, role, accs[owner])
<1>1. owner \in Owners
  BY OwnerIsOwner
<1>2. new \in Accounts
  BY <1>1, ChangedIsAccount
<1>3. After(op, o, a, role, accs) = [accs EXCEPT ![owner] = new]
  BY DEF After
<1> HIDE DEF owner, new
<1> QED BY <1>1, <1>2, <1>3

LEMMA ServedIsAccounts ==
    ASSUME NEW o \in Orders, NEW a \in Int, accounts \in [Owners -> Accounts],
           NEW op \in {"PURCHASE", "RELEASE", "REVERSE"}
    PROVE  Served(op, o, a) \in [Owners -> Accounts]
<1>1. CASE op = "RELEASE"
  BY <1>1, AfterIsAccounts DEF Served
<1>2. CASE op \in {"PURCHASE", "REVERSE"}
  <2> DEFINE one == After(op, o, a, "buyer", accounts)
             two == After(op, o, a, "seller", one)
             three == After(op, o, a, "platform", two)
  <2>1. one \in [Owners -> Accounts]
    BY <1>2, AfterIsAccounts
  <2> HIDE DEF one
  <2>2. two \in [Owners -> Accounts]
    BY <1>2, <2>1, AfterIsAccounts
  <2> HIDE DEF two
  <2>3. three \in [Owners -> Accounts]
    BY <1>2, <2>2, AfterIsAccounts
  <2>4. Served(op, o, a) = three
    BY <1>2 DEF Served, three, two, one
  <2> QED BY <2>3, <2>4
<1> QED BY <1>1, <1>2

LEMMA AskedIsInteger ==
    ASSUME NEW o \in Orders, NEW op, NEW a, Asked(op, o, a)
    PROVE  a \in Int /\ op \in {"PURCHASE", "RELEASE", "REVERSE"}
<1>1. price[o] \in Int /\ Share(o) \in Int
  BY AmountsAreIntegers
<1>2. Parts \subseteq Int
  BY WalletAssumption
<1> QED BY <1>1, <1>2 DEF Asked

\* What a permitted call makes of a transfer stays within the price.
LEMMA SettledWithinPrice ==
    ASSUME NEW o \in Orders, NEW op, NEW a, NEW tr \in Transfers, Asked(op, o, a),
           Permitted(op, o, a, tr), tr.reversed <= price[o]
    PROVE  /\ Settled(op, o, a, tr) \in Transfers
           /\ Settled(op, o, a, tr).reversed <= price[o]
<1>1. price[o] \in Nat /\ tr.reversed \in Nat
  BY AmountsAreIntegers DEF Transfers
<1>2. CASE op = "PURCHASE"
  BY <1>1, <1>2 DEF Settled, Transfers, Statuses
<1>3. CASE op = "RELEASE"
  BY <1>1, <1>3 DEF Settled, Transfers, Statuses
<1>4. CASE op = "REVERSE"
  <2>1. a \in Nat /\ a <= price[o] - tr.reversed
    BY <1>4, WalletAssumption DEF Asked, Permitted
  <2>2. tr.reversed + a \in Nat /\ tr.reversed + a <= price[o]
    BY <1>1, <2>1
  <2> QED BY <1>4, <2>2 DEF Settled, Transfers, Statuses
<1> QED BY <1>2, <1>3, <1>4, AskedIsInteger

LEMMA PostedIsLedger ==
    ASSUME NEW o \in Orders, NEW op, ledger \in [Owners -> Int]
    PROVE  Posted(op, o) \in [Owners -> Int]
<1>1. price[o] \in Int /\ Share(o) \in Int /\ Fee(o) \in Int
  BY AmountsAreIntegers
<1> QED BY <1>1 DEF Posted

LEMMA CallKeepsIInv ==
    ASSUME IInv, NEW o \in Orders, NEW op, NEW a, Asked(op, o, a), Call(op, o, a)
    PROVE  IInv'
<1>1. a \in Int /\ op \in {"PURCHASE", "RELEASE", "REVERSE"}
  BY AskedIsInteger
<1>2. /\ accounts \in [Owners -> Accounts] /\ transfers \in [Orders -> Transfers]
      /\ toppedUp \subseteq TopUps /\ ledger \in [Owners -> Int]
      /\ \A p \in Orders : transfers[p].reversed <= price[p]
  BY DEF IInv, TypeOK, ReversedWithinPrice
<1> DEFINE new == Settled(op, o, a, transfers[o])
<1>3. /\ Permitted(op, o, a, transfers[o]) /\ accounts' = Served(op, o, a)
      /\ transfers' = [transfers EXCEPT ![o] = new]
      /\ ledger' = Posted(op, o) /\ toppedUp' = toppedUp
  BY DEF Call
<1>4. accounts' \in [Owners -> Accounts]
  BY <1>1, <1>2, <1>3, ServedIsAccounts
<1>5. new \in Transfers /\ new.reversed <= price[o]
  BY <1>2, <1>3, SettledWithinPrice
<1>6. ledger' \in [Owners -> Int]
  BY <1>2, <1>3, PostedIsLedger
<1> HIDE DEF new
<1>7. transfers' \in [Orders -> Transfers] /\ \A p \in Orders : transfers'[p].reversed <= price[p]
  BY <1>2, <1>3, <1>5
<1> QED BY <1>2, <1>3, <1>4, <1>6, <1>7 DEF IInv, TypeOK, ReversedWithinPrice

LEMMA TopUpKeepsIInv ==
    ASSUME IInv, NEW u \in TopUps, TopUp(u)
    PROVE  IInv'
<1>1. payee[u] \in Owners /\ credit[u] \in Int /\ Platform \in Owners
  BY WalletAssumption DEF Owners
<1>2. accounts \in [Owners -> Accounts] /\ ledger \in [Owners -> Int] /\ toppedUp \subseteq TopUps
  BY DEF IInv, TypeOK
<1>3. Plus(accounts[payee[u]], credit[u], 0) \in Accounts
  BY <1>1, <1>2, PlusIsAccount
<1>4. accounts' \in [Owners -> Accounts]
  BY <1>1, <1>2, <1>3 DEF TopUp
<1>5. ledger' \in [Owners -> Int]
  BY <1>1, <1>2 DEF TopUp
<1>6. transfers' = transfers /\ toppedUp' \subseteq TopUps
  BY <1>2 DEF TopUp
<1> QED BY <1>4, <1>5, <1>6 DEF IInv, TypeOK, ReversedWithinPrice

LEMMA InitIInv == Init => IInv
BY WalletAssumption DEF Init, IInv, TypeOK, ReversedWithinPrice, Accounts, Transfers, Statuses

LEMMA NextKeepsIInv == IInv /\ [Next]_walletVars => IInv'
<1> SUFFICES ASSUME IInv, [Next]_walletVars PROVE IInv'
  OBVIOUS
<1>1. CASE \E o \in Orders : Purchase(o) \/ Release(o) \/ \E a \in Parts : Reverse(o, a)
  BY <1>1, CallKeepsIInv DEF Purchase, Release, Reverse, Asked
<1>2. CASE \E u \in TopUps : TopUp(u)
  BY <1>2, TopUpKeepsIInv
<1>3. CASE UNCHANGED walletVars
  BY <1>3 DEF walletVars, IInv, TypeOK, ReversedWithinPrice
<1> QED BY <1>1, <1>2, <1>3 DEF Next

\* The inductive invariant holds of every reachable state.
THEOREM InvariantHolds == Spec => []IInv
BY InitIInv, NextKeepsIInv, PTL DEF Spec

\* Balances, transfers and ledger keep their types whatever the calls, prices
\* and parts; what was reversed of a transfer is never negative.
THEOREM TypeCorrect == Spec => []TypeOK
<1>1. IInv => TypeOK
  BY DEF IInv
<1> QED BY <1>1, InvariantHolds, PTL

\* ReverseTransfer: however a refund is split into parts, before or after the
\* release, the buyer gets back at most what was paid.
THEOREM ReversalsAreCapped == Spec => []ReversedWithinPrice
<1>1. IInv => ReversedWithinPrice
  BY DEF IInv
<1> QED BY <1>1, InvariantHolds, PTL
-----------------------------------------------------------------------------
(* The price of an order: the calls implement OrderMoney.                  *)

LEMMA PlacesStep ==
    ASSUME NEW o \in Orders, \A p \in Orders : p # o => Place(p)' = Place(p),
           \/ Place(o)' = Place(o)
           \/ Place(o) = "buyer" /\ Place(o)' = "taken"
           \/ Place(o) = "taken" /\ Place(o)' = "returned"
    PROVE  [PerOrder!Next]_Places
<1>1. Places' = [Places EXCEPT ![o] = Place(o)'] /\ Places[o] = Place(o)
  BY DEF Places
<1>2. CASE Place(o)' = Place(o)
  BY <1>2 DEF Places
<1>3. CASE Place(o) = "buyer" /\ Place(o)' = "taken"
  BY <1>1, <1>3 DEF PerOrder!Next, PerOrder!Take
<1>4. CASE Place(o) = "taken" /\ Place(o)' = "returned"
  BY <1>1, <1>4 DEF PerOrder!Next, PerOrder!GiveBack
<1> QED BY <1>2, <1>3, <1>4

\* A purchase takes the price, the reversal that completes it gives it back,
\* and every other call leaves it where it is.
LEMMA CallMovesOrderMoney ==
    ASSUME IInv, NEW o \in Orders, NEW op, NEW a, Asked(op, o, a), Call(op, o, a)
    PROVE  [PerOrder!Next]_Places
<1> DEFINE old == transfers[o]
           new == Settled(op, o, a, old)
<1>1. /\ transfers \in [Orders -> Transfers] /\ old.reversed \in Nat /\ old.reversed <= price[o]
      /\ price[o] \in Nat /\ price[o] > 0
  BY WalletAssumption DEF IInv, TypeOK, ReversedWithinPrice, Transfers
<1>2. Permitted(op, o, a, old) /\ transfers' = [transfers EXCEPT ![o] = new]
  BY DEF Call
<1>3. transfers'[o] = new /\ \A p \in Orders : p # o => transfers'[p] = transfers[p]
  <2> HIDE DEF new
  <2> QED BY <1>1, <1>2
<1>4. \A p \in Orders : p # o => Place(p)' = Place(p)
  BY <1>3 DEF Place
<1>5. CASE op = "PURCHASE"
  <2>1. old.status = "NONE" /\ new.status = "SUCCEEDED" /\ new.reversed = 0
    BY <1>2, <1>5 DEF Permitted, Settled
  <2>2. Place(o) = "buyer" /\ Place(o)' = "taken"
    BY <1>1, <1>3, <2>1 DEF Place
  <2> QED BY <1>4, <2>2, PlacesStep
<1>6. CASE op = "RELEASE"
  <2>1. Place(o)' = Place(o)
    BY <1>1, <1>2, <1>3, <1>6 DEF Place, Permitted, Settled
  <2> QED BY <1>4, <2>1, PlacesStep
<1>7. CASE op = "REVERSE"
  <2>1. a \in Nat /\ a > 0 /\ a <= price[o] - old.reversed
    BY <1>2, <1>7, WalletAssumption DEF Asked, Permitted
  <2>2. /\ old.status # "NONE" /\ new.status # "NONE" /\ new.reversed = old.reversed + a
    BY <1>2, <1>7 DEF Permitted, Settled
  <2>3. Place(o) = "taken"
    BY <1>1, <2>1, <2>2 DEF Place
  <2>4. Place(o)' \in {"taken", "returned"}
    BY <1>3, <2>2 DEF Place
  <2> QED BY <1>4, <2>3, <2>4, PlacesStep
<1> QED BY <1>5, <1>6, <1>7, AskedIsInteger

\* wallet.go: whatever parts reversals come in, before or after the release,
\* the price of an order is taken once and given back in full at most once.
THEOREM WalletImplementsOrderMoney == Spec => ImplementsOrderMoney
<1>1. Init => PerOrder!Init
  <2> SUFFICES ASSUME Init PROVE PerOrder!Init
    OBVIOUS
  <2>1. \A o \in Orders : Place(o) = "buyer"
    BY DEF Init, Place
  <2> QED BY <2>1 DEF PerOrder!Init, Places
<1>2. IInv /\ [Next]_walletVars => [PerOrder!Next]_Places
  <2> SUFFICES ASSUME IInv, [Next]_walletVars PROVE [PerOrder!Next]_Places
    OBVIOUS
  <2>1. CASE \E o \in Orders : Purchase(o) \/ Release(o) \/ \E a \in Parts : Reverse(o, a)
    BY <2>1, CallMovesOrderMoney DEF Purchase, Release, Reverse, Asked
  <2>2. CASE UNCHANGED transfers
    BY <2>2 DEF Places, Place
  <2> QED BY <2>1, <2>2 DEF Next, TopUp, walletVars
<1> QED BY <1>1, <1>2, InvariantHolds, PTL DEF Spec, PerOrder!Spec, ImplementsOrderMoney
-----------------------------------------------------------------------------
(* Money.                                                                  *)

Money(account) == account.available + account.frozen

Total(accs) == SumFunctionOnSet([w \in Owners |-> Money(accs[w])], Owners)

\* What a call adds to the money of one of its parties.
Paid(op, o, a, role) ==
    CASE op = "PURCHASE" /\ role = "buyer"    -> -price[o]
      [] op = "PURCHASE" /\ role = "seller"   -> Share(o)
      [] op = "PURCHASE" /\ role = "platform" -> Fee(o)
      [] op = "RELEASE"  /\ role = "seller"   -> 0
      [] op = "REVERSE"  /\ role = "buyer"    -> a
      [] op = "REVERSE"  /\ role = "seller"   -> -SellerPart(o, a)
      [] op = "REVERSE"  /\ role = "platform" -> SellerPart(o, a) - a

LEMMA MoneyIsInteger ==
    ASSUME NEW account \in Accounts
    PROVE  Money(account) \in Int
BY DEF Money, Accounts

LEMMA MoneyOfPlus ==
    ASSUME NEW account \in Accounts, NEW x \in Int, NEW y \in Int
    PROVE  Money(Plus(account, x, y)) = Money(account) + (x + y)
BY DEF Plus, Money, Accounts

\* Frozen or available: what is taken back is the seller's part.
LEMMA MoneyTakenBack ==
    ASSUME NEW account \in Accounts, NEW s \in Int
    PROVE  Money(TakeBack(account, s)) = Money(account) - s
BY DEF TakeBack, Plus, Money, Accounts

LEMMA MoneyOfChanged ==
    ASSUME NEW o \in Orders, NEW a \in Int, NEW account \in Accounts,
           NEW op, NEW role,
           \/ op \in {"PURCHASE", "REVERSE"} /\ role \in {"buyer", "seller", "platform"}
           \/ op = "RELEASE" /\ role = "seller"
    PROVE  /\ Paid(op, o, a, role) \in Int
           /\ Money(Changed(op, o, a, role, account)) = Money(account) + Paid(op, o, a, role)
<1> DEFINE s == SellerPart(o, a)
<1>1. /\ price[o] \in Int /\ Fee(o) \in Int /\ Share(o) \in Int /\ s \in Int
      /\ Money(account) \in Int
  BY AmountsAreIntegers, MoneyIsInteger
<1>2. -price[o] \in Int /\ -Share(o) \in Int /\ s - a \in Int /\ -s \in Int
  BY <1>1
<1>3. CASE op = "PURCHASE" /\ role = "buyer"
  <2>1. Changed(op, o, a, role, account) = Plus(account, -price[o], 0)
        /\ Paid(op, o, a, role) = -price[o]
    BY <1>3 DEF Changed, Paid
  <2>2. Money(Plus(account, -price[o], 0)) = Money(account) + (-price[o] + 0)
    BY <1>2, MoneyOfPlus
  <2> QED BY <1>1, <1>2, <2>1, <2>2
<1>4. CASE op = "PURCHASE" /\ role = "seller"
  <2>1. Changed(op, o, a, role, account) = Plus(account, 0, Share(o))
        /\ Paid(op, o, a, role) = Share(o)
    BY <1>4 DEF Changed, Paid
  <2>2. Money(Plus(account, 0, Share(o))) = Money(account) + (0 + Share(o))
    BY <1>1, MoneyOfPlus
  <2> QED BY <1>1, <2>1, <2>2
<1>5. CASE op = "PURCHASE" /\ role = "platform"
  <2>1. Changed(op, o, a, role, account) = Plus(account, Fee(o), 0)
        /\ Paid(op, o, a, role) = Fee(o)
    BY <1>5 DEF Changed, Paid
  <2>2. Money(Plus(account, Fee(o), 0)) = Money(account) + (Fee(o) + 0)
    BY <1>1, MoneyOfPlus
  <2> QED BY <1>1, <2>1, <2>2
<1>6. CASE op = "RELEASE" /\ role = "seller"
  <2>1. Changed(op, o, a, role, account) = Plus(account, Share(o), -Share(o))
        /\ Paid(op, o, a, role) = 0
    BY <1>6 DEF Changed, Paid
  <2>2. Money(Plus(account, Share(o), -Share(o))) = Money(account) + (Share(o) + -Share(o))
    BY <1>1, <1>2, MoneyOfPlus
  <2> QED BY <1>1, <2>1, <2>2
<1>7. CASE op = "REVERSE" /\ role = "buyer"
  <2>1. Changed(op, o, a, role, account) = Plus(account, a, 0) /\ Paid(op, o, a, role) = a
    BY <1>7 DEF Changed, Paid
  <2>2. Money(Plus(account, a, 0)) = Money(account) + (a + 0)
    BY MoneyOfPlus
  <2> QED BY <1>1, <2>1, <2>2
<1>8. CASE op = "REVERSE" /\ role = "seller"
  <2>1. Changed(op, o, a, role, account) = TakeBack(account, s) /\ Paid(op, o, a, role) = -s
    BY <1>8 DEF Changed, Paid
  <2> HIDE DEF s
  <2>2. Money(TakeBack(account, s)) = Money(account) - s
    BY <1>1, MoneyTakenBack
  <2> QED BY <1>1, <2>1, <2>2
<1>9. CASE op = "REVERSE" /\ role = "platform"
  <2>1. Changed(op, o, a, role, account) = Plus(account, s - a, 0)
        /\ Paid(op, o, a, role) = s - a
    BY <1>9 DEF Changed, Paid
  <2> HIDE DEF s
  <2>2. Money(Plus(account, s - a, 0)) = Money(account) + ((s - a) + 0)
    BY <1>2, MoneyOfPlus
  <2> QED BY <1>1, <1>2, <2>1, <2>2
<1> QED BY <1>3, <1>4, <1>5, <1>6, <1>7, <1>8, <1>9

LEMMA OwnersAreFinite == IsFiniteSet(Owners)
BY WalletAssumption, FS_AddElement DEF Owners

\* A change of one account changes the total by the same amount.
LEMMA TotalOfUpdate ==
    ASSUME NEW accs \in [Owners -> Accounts], NEW w \in Owners, NEW new \in Accounts
    PROVE  /\ Total(accs) \in Int
           /\ Total([accs EXCEPT ![w] = new]) = Total(accs) + (Money(new) - Money(accs[w]))
<1> DEFINE after == [accs EXCEPT ![w] = new]
           f == [x \in Owners |-> Money(accs[x])]
           g == [x \in Owners |-> Money(after[x])]
<1>1. after \in [Owners -> Accounts] /\ after[w] = new
      /\ \A x \in Owners \ {w} : after[x] = accs[x]
  OBVIOUS
<1> HIDE DEF after
<1>2. \A x \in Owners : f[x] \in Int /\ g[x] \in Int
  BY <1>1, MoneyIsInteger
<1>3. \A x \in Owners \ {w} : g[x] = f[x]
  BY <1>1
<1>4. f[w] = Money(accs[w]) /\ g[w] = Money(new)
  BY <1>1
<1> HIDE DEF f, g
<1>5. SumFunctionOnSet(g, Owners) = SumFunctionOnSet(f, Owners) + (g[w] - f[w])
  BY <1>2, <1>3, OwnersAreFinite, SumUpdate
<1>6. SumFunctionOnSet(f, Owners) \in Int
  BY <1>2, OwnersAreFinite, SumIsInteger
<1> QED BY <1>4, <1>5, <1>6 DEF Total, f, g, after

LEMMA TotalOfAfter ==
    ASSUME NEW o \in Orders, NEW a \in Int, NEW accs \in [Owners -> Accounts],
           NEW op, NEW role,
           \/ op \in {"PURCHASE", "REVERSE"} /\ role \in {"buyer", "seller", "platform"}
           \/ op = "RELEASE" /\ role = "seller"
    PROVE  /\ Total(accs) \in Int /\ Paid(op, o, a, role) \in Int
           /\ Total(After(op, o, a, role, accs)) = Total(accs) + Paid(op, o, a, role)
<1> DEFINE w == Owner(o, role)
           new == Changed(op, o, a, role, accs[w])
<1>1. w \in Owners /\ accs[w] \in Accounts
  BY OwnerIsOwner
<1>2. /\ new \in Accounts /\ Paid(op, o, a, role) \in Int
      /\ Money(new) = Money(accs[w]) + Paid(op, o, a, role)
  BY <1>1, ChangedIsAccount, MoneyOfChanged
<1>3. After(op, o, a, role, accs) = [accs EXCEPT ![w] = new]
  BY DEF After
<1>4. Money(accs[w]) \in Int
  BY <1>1, MoneyIsInteger
<1> HIDE DEF w, new
<1>5. /\ Total(accs) \in Int
      /\ Total([accs EXCEPT ![w] = new]) = Total(accs) + (Money(new) - Money(accs[w]))
  BY <1>1, <1>2, TotalOfUpdate
<1> QED BY <1>2, <1>3, <1>4, <1>5

\* What a call takes from its parties it gives to the others.
LEMMA CallKeepsTotal ==
    ASSUME NEW o \in Orders, NEW a \in Int, accounts \in [Owners -> Accounts],
           NEW op \in {"PURCHASE", "RELEASE", "REVERSE"}
    PROVE  Total(Served(op, o, a)) = Total(accounts)
<1>1. CASE op = "RELEASE"
  <2>1. /\ Total(accounts) \in Int
        /\ Total(After(op, o, a, "seller", accounts)) = Total(accounts) + Paid(op, o, a, "seller")
    BY <1>1, TotalOfAfter
  <2>2. Paid(op, o, a, "seller") = 0
    BY <1>1 DEF Paid
  <2> QED BY <1>1, <2>1, <2>2 DEF Served
<1>2. CASE op \in {"PURCHASE", "REVERSE"}
  <2> DEFINE one == After(op, o, a, "buyer", accounts)
             two == After(op, o, a, "seller", one)
             three == After(op, o, a, "platform", two)
  <2>1. one \in [Owners -> Accounts] /\ Paid(op, o, a, "buyer") \in Int /\ Total(accounts) \in Int
        /\ Total(one) = Total(accounts) + Paid(op, o, a, "buyer")
    BY <1>2, AfterIsAccounts, TotalOfAfter
  <2> HIDE DEF one
  <2>2. two \in [Owners -> Accounts] /\ Paid(op, o, a, "seller") \in Int
        /\ Total(two) = Total(one) + Paid(op, o, a, "seller")
    BY <1>2, <2>1, AfterIsAccounts, TotalOfAfter
  <2> HIDE DEF two
  <2>3. Paid(op, o, a, "platform") \in Int
        /\ Total(three) = Total(two) + Paid(op, o, a, "platform")
    BY <1>2, <2>2, TotalOfAfter
  <2> HIDE DEF three
  <2>4. Paid(op, o, a, "buyer") + Paid(op, o, a, "seller") + Paid(op, o, a, "platform") = 0
    <3>1. CASE op = "PURCHASE"
      <4>1. price[o] \in Int /\ Fee(o) \in Int
        BY AmountsAreIntegers
      <4> QED BY <3>1, <4>1 DEF Paid, Share
    <3>2. CASE op = "REVERSE"
      <4> DEFINE s == SellerPart(o, a)
      <4>1. s \in Int
        BY AmountsAreIntegers
      <4>2. Paid(op, o, a, "buyer") = a /\ Paid(op, o, a, "seller") = -s
            /\ Paid(op, o, a, "platform") = s - a
        BY <3>2 DEF Paid
      <4> HIDE DEF s
      <4> QED BY <4>1, <4>2
    <3> QED BY <1>2, <3>1, <3>2
  <2>5. Total(three) = Total(accounts)
    BY <2>1, <2>2, <2>3, <2>4
  <2>6. Served(op, o, a) = three
    BY <1>2 DEF Served, three, two, one
  <2> QED BY <2>5, <2>6
<1> QED BY <1>1, <1>2

LEMMA ToppedUpIsFinite ==
    ASSUME TypeOK
    PROVE  IsFiniteSet(toppedUp) /\ \A u \in TopUps : credit[u] \in Nat
BY WalletAssumption, FS_Subset DEF TypeOK

LEMMA StepConservesMoney ==
    ASSUME IInv, MoneyConserved, [Next]_walletVars
    PROVE  MoneyConserved'
<1>1. TypeOK /\ accounts \in [Owners -> Accounts] /\ toppedUp \subseteq TopUps
  BY DEF IInv, TypeOK
<1>2. /\ MoneyConserved <=> Total(accounts) = SumFunctionOnSet(credit, toppedUp)
      /\ MoneyConserved' <=> Total(accounts') = SumFunctionOnSet(credit, toppedUp')
  BY DEF MoneyConserved, Total, Money
<1>3. ASSUME NEW o \in Orders, NEW op, NEW a, Asked(op, o, a), Call(op, o, a)
      PROVE  MoneyConserved'
  <2>1. a \in Int /\ op \in {"PURCHASE", "RELEASE", "REVERSE"}
    BY <1>3, AskedIsInteger
  <2>2. accounts' = Served(op, o, a) /\ toppedUp' = toppedUp
    BY <1>3 DEF Call
  <2> QED BY <1>1, <1>2, <2>1, <2>2, CallKeepsTotal
<1>4. ASSUME NEW u \in TopUps, TopUp(u) PROVE MoneyConserved'
  <2> DEFINE w == payee[u]
             new == Plus(accounts[w], credit[u], 0)
  <2>1. w \in Owners /\ credit[u] \in Int /\ accounts[w] \in Accounts
    BY <1>1, WalletAssumption DEF Owners
  <2>2. new \in Accounts /\ Money(new) = Money(accounts[w]) + (credit[u] + 0)
    BY <2>1, PlusIsAccount, MoneyOfPlus
  <2>3. /\ accounts' = [accounts EXCEPT ![w] = new] /\ u \notin toppedUp
        /\ toppedUp' = toppedUp \cup {u}
    BY <1>4 DEF TopUp
  <2>4. Money(accounts[w]) \in Int
    BY <2>1, MoneyIsInteger
  <2> HIDE DEF w, new
  <2>5. /\ Total(accounts) \in Int
        /\ Total(accounts') = Total(accounts) + (Money(new) - Money(accounts[w]))
    BY <1>1, <2>1, <2>2, <2>3, TotalOfUpdate
  <2>6. IsFiniteSet(toppedUp) /\ \A v \in toppedUp \cup {u} : credit[v] \in Int
    BY <1>1, ToppedUpIsFinite
  <2>7. SumFunctionOnSet(credit, toppedUp \cup {u}) = credit[u] + SumFunctionOnSet(credit, toppedUp)
    BY <2>3, <2>6, SumAdd
  <2> QED BY <1>2, <2>1, <2>2, <2>3, <2>4, <2>5, <2>7
<1>5. CASE UNCHANGED walletVars
  BY <1>2, <1>5 DEF walletVars
<1>6. CASE Next
  BY <1>3, <1>4, <1>6 DEF Next, Purchase, Release, Reverse, Asked
<1> QED BY <1>5, <1>6

-----------------------------------------------------------------------------
(* Users who sell nothing.                                                 *)

\* Before it is paid nothing of an order is reversed.
UnpaidUntouched == \A o \in Orders : transfers[o].status = "NONE" => transfers[o].reversed = 0

SpentOn(o, tr) == IF tr.status = "NONE" THEN 0 ELSE price[o] - tr.reversed

Spent(trs, w) == SumFunctionOnSet([o \in Orders |-> SpentOn(o, trs[o])], Bought(w))

Reversed(trs, w) == SumFunctionOnSet([o \in Orders |-> trs[o].reversed], Bought(w))

Credited(done, w) == SumFunctionOnSet(credit, {u \in done : payee[u] = w})

\* The balance of a buyer is what was topped up less what was spent, and the
\* ledger shows it but for the reversals.
InFunds(w) ==
    /\ accounts[w].available >= 0
    /\ accounts[w].available = Credited(toppedUp, w) - Spent(transfers, w)
    /\ Money(accounts[w]) = ledger[w] + Reversed(transfers, w)

MoneyIInv ==
    /\ IInv
    /\ MoneyConserved
    /\ UnpaidUntouched
    /\ \A w \in Users : SellsNothing(w) => InFunds(w)

LEMMA CreditedIsInteger ==
    ASSUME TypeOK, NEW w
    PROVE  Credited(toppedUp, w) \in Int
<1>1. IsFiniteSet({u \in toppedUp : payee[u] = w}) /\ \A u \in toppedUp : credit[u] \in Int
  BY ToppedUpIsFinite, FS_Subset DEF TypeOK
<1> QED BY <1>1, SumIsInteger DEF Credited

\* A change at one order counts for its buyer.
LEMMA SumOfBought ==
    ASSUME NEW w, NEW o \in Orders, NEW f, NEW g,
           \A p \in Orders : f[p] \in Int /\ g[p] \in Int,
           \A p \in Orders \ {o} : g[p] = f[p]
    PROVE  /\ SumFunctionOnSet(f, Bought(w)) \in Int
           /\ SumFunctionOnSet(g, Bought(w)) =
                SumFunctionOnSet(f, Bought(w)) + IF buyer[o] = w THEN g[o] - f[o] ELSE 0
<1>1. IsFiniteSet(Bought(w)) /\ Bought(w) \subseteq Orders /\ (o \in Bought(w) <=> buyer[o] = w)
  BY WalletAssumption, FS_Subset DEF Bought
<1>2. SumFunctionOnSet(f, Bought(w)) \in Int
  BY <1>1, SumIsInteger
<1>3. CASE buyer[o] = w
  <2>1. SumFunctionOnSet(g, Bought(w)) = SumFunctionOnSet(f, Bought(w)) + (g[o] - f[o])
    BY <1>1, <1>3, SumUpdate
  <2> QED BY <1>2, <1>3, <2>1
<1>4. CASE buyer[o] # w
  <2>1. SumFunctionOnSet(f, Bought(w)) = SumFunctionOnSet(g, Bought(w))
    BY <1>1, <1>4, SumEqual
  <2> QED BY <1>2, <1>4, <2>1
<1> QED BY <1>2, <1>3, <1>4

LEMMA TransfersAddUp ==
    ASSUME transfers \in [Orders -> Transfers], NEW w
    PROVE  Spent(transfers, w) \in Int /\ Reversed(transfers, w) \in Int
<1> DEFINE f == [p \in Orders |-> SpentOn(p, transfers[p])]
           h == [p \in Orders |-> transfers[p].reversed]
<1>1. IsFiniteSet(Bought(w)) /\ Bought(w) \subseteq Orders
  BY WalletAssumption, FS_Subset DEF Bought
<1>2. \A p \in Bought(w) : f[p] \in Int /\ h[p] \in Int
  BY <1>1, AmountsAreIntegers DEF SpentOn, Transfers
<1> HIDE DEF f, h
<1>3. SumFunctionOnSet(f, Bought(w)) \in Int /\ SumFunctionOnSet(h, Bought(w)) \in Int
  BY <1>1, <1>2, SumIsInteger
<1> QED BY <1>3 DEF Spent, Reversed, f, h

LEMMA TransferChanges ==
    ASSUME NEW w, NEW o \in Orders, NEW trs \in [Orders -> Transfers], NEW new \in Transfers
    PROVE  LET after == [trs EXCEPT ![o] = new]
           IN  /\ Spent(trs, w) \in Int /\ Reversed(trs, w) \in Int
               /\ Spent(after, w) = Spent(trs, w)
                    + IF buyer[o] = w THEN SpentOn(o, new) - SpentOn(o, trs[o]) ELSE 0
               /\ Reversed(after, w) = Reversed(trs, w)
                    + IF buyer[o] = w THEN new.reversed - trs[o].reversed ELSE 0
<1> DEFINE after == [trs EXCEPT ![o] = new]
           f == [p \in Orders |-> SpentOn(p, trs[p])]
           g == [p \in Orders |-> SpentOn(p, after[p])]
           h == [p \in Orders |-> trs[p].reversed]
           k == [p \in Orders |-> after[p].reversed]
<1>1. after[o] = new /\ after \in [Orders -> Transfers] /\ \A p \in Orders \ {o} : after[p] = trs[p]
  OBVIOUS
<1> HIDE DEF after
<1>2. \A p \in Orders, tr \in Transfers : tr.reversed \in Int /\ SpentOn(p, tr) \in Int
  BY AmountsAreIntegers DEF SpentOn, Transfers
<1>3. /\ \A p \in Orders : f[p] \in Int /\ g[p] \in Int /\ h[p] \in Int /\ k[p] \in Int
      /\ \A p \in Orders \ {o} : g[p] = f[p] /\ k[p] = h[p]
  BY <1>1, <1>2
<1>4. /\ f[o] = SpentOn(o, trs[o]) /\ g[o] = SpentOn(o, new)
      /\ h[o] = trs[o].reversed /\ k[o] = new.reversed
  BY <1>1
<1>5. /\ Spent(trs, w) = SumFunctionOnSet(f, Bought(w))
      /\ Spent(after, w) = SumFunctionOnSet(g, Bought(w))
      /\ Reversed(trs, w) = SumFunctionOnSet(h, Bought(w))
      /\ Reversed(after, w) = SumFunctionOnSet(k, Bought(w))
  BY DEF Spent, Reversed
<1> HIDE DEF f, g, h, k
<1>6. /\ SumFunctionOnSet(f, Bought(w)) \in Int
      /\ SumFunctionOnSet(g, Bought(w)) =
           SumFunctionOnSet(f, Bought(w)) + IF buyer[o] = w THEN g[o] - f[o] ELSE 0
  BY <1>3, SumOfBought
<1>7. /\ SumFunctionOnSet(h, Bought(w)) \in Int
      /\ SumFunctionOnSet(k, Bought(w)) =
           SumFunctionOnSet(h, Bought(w)) + IF buyer[o] = w THEN k[o] - h[o] ELSE 0
  BY <1>3, SumOfBought
<1> QED BY <1>4, <1>5, <1>6, <1>7 DEF after

\* A call touches the account of a user who sells nothing only as the buyer's.
LEMMA BuyersAccount ==
    ASSUME NEW o \in Orders, NEW a \in Int, accounts \in [Owners -> Accounts],
           NEW op \in {"PURCHASE", "RELEASE", "REVERSE"}, NEW w \in Users, SellsNothing(w)
    PROVE  Served(op, o, a)[w] = IF op # "RELEASE" /\ buyer[o] = w
                                 THEN Changed(op, o, a, "buyer", accounts[w]) ELSE accounts[w]
<1>1. w \in Owners /\ w # seller[o] /\ w # Platform
  BY WalletAssumption DEF SellsNothing, Owners
<1>2. /\ Owner(o, "buyer") = buyer[o] /\ Owner(o, "seller") = seller[o]
      /\ Owner(o, "platform") = Platform
  BY DEF Owner
<1>3. CASE op = "RELEASE"
  BY <1>1, <1>2, <1>3 DEF Served, After
<1>4. CASE op \in {"PURCHASE", "REVERSE"}
  <2> DEFINE one == After(op, o, a, "buyer", accounts)
             two == After(op, o, a, "seller", one)
             three == After(op, o, a, "platform", two)
  <2>1. one \in [Owners -> Accounts]
    BY <1>4, AfterIsAccounts
  <2>2. one[w] = IF buyer[o] = w THEN Changed(op, o, a, "buyer", accounts[w]) ELSE accounts[w]
    BY <1>1, <1>2 DEF After
  <2> HIDE DEF one
  <2>3. two \in [Owners -> Accounts] /\ two[w] = one[w]
    <3>1. two \in [Owners -> Accounts]
      BY <1>4, <2>1, AfterIsAccounts
    <3> QED BY <1>1, <1>2, <2>1, <3>1 DEF After
  <2> HIDE DEF two
  <2>4. three[w] = two[w]
    BY <1>1, <1>2, <2>3 DEF After
  <2> HIDE DEF three
  <2>5. Served(op, o, a) = three
    BY <1>4 DEF Served, three, two, one
  <2> QED BY <1>4, <2>2, <2>3, <2>4, <2>5
<1> QED BY <1>3, <1>4

\* A call leaves a user who sells nothing in funds.
LEMMA CallKeepsInFunds ==
    ASSUME IInv, UnpaidUntouched, NEW w \in Users, SellsNothing(w), InFunds(w),
           NEW o \in Orders, NEW op, NEW a, Asked(op, o, a), Call(op, o, a)
    PROVE  InFunds(w)'
<1>1. a \in Int /\ op \in {"PURCHASE", "RELEASE", "REVERSE"}
  BY AskedIsInteger
<1> DEFINE tr == transfers[o]
           new == Settled(op, o, a, tr)
           acc == accounts[w]
<1>2. /\ accounts \in [Owners -> Accounts] /\ transfers \in [Orders -> Transfers]
      /\ ledger \in [Owners -> Int] /\ w \in Owners /\ w # Platform /\ w # seller[o]
      /\ tr.reversed <= price[o] /\ acc \in Accounts /\ tr \in Transfers
  BY WalletAssumption DEF IInv, TypeOK, ReversedWithinPrice, Owners, SellsNothing
<1>3. /\ Permitted(op, o, a, tr) /\ accounts' = Served(op, o, a)
      /\ transfers' = [transfers EXCEPT ![o] = new]
      /\ ledger' = Posted(op, o) /\ toppedUp' = toppedUp
      /\ op = "PURCHASE" => accounts[buyer[o]].available >= price[o]
  BY DEF Call
<1>4. new \in Transfers
  BY <1>2, <1>3, SettledWithinPrice
<1>5. /\ Spent(transfers, w) \in Int /\ Reversed(transfers, w) \in Int
      /\ Spent(transfers', w) = Spent(transfers, w)
           + IF buyer[o] = w THEN SpentOn(o, new) - SpentOn(o, tr) ELSE 0
      /\ Reversed(transfers', w) = Reversed(transfers, w)
           + IF buyer[o] = w THEN new.reversed - tr.reversed ELSE 0
  BY <1>2, <1>3, <1>4, TransferChanges
<1>6. accounts'[w] = IF op # "RELEASE" /\ buyer[o] = w
                     THEN Changed(op, o, a, "buyer", acc) ELSE acc
  BY <1>1, <1>2, <1>3, BuyersAccount
<1>7. /\ acc.available \in Int /\ acc.frozen \in Int /\ ledger[w] \in Int
      /\ tr.reversed \in Nat /\ price[o] \in Nat
  BY <1>2, AmountsAreIntegers DEF Accounts, Transfers
<1>8. ledger'[w] = ledger[w] - IF op = "PURCHASE" /\ buyer[o] = w THEN price[o] ELSE 0
  BY <1>2, <1>3, <1>7 DEF Posted
<1>9. /\ acc.available >= 0 /\ acc.available = Credited(toppedUp, w) - Spent(transfers, w)
      /\ acc.available + acc.frozen = ledger[w] + Reversed(transfers, w)
  BY DEF InFunds, Money
<1>10. ASSUME NEW d \in Int, NEW e \in Int, NEW f \in Int,
              accounts'[w].available = acc.available + d, accounts'[w].frozen = acc.frozen,
              acc.available + d >= 0,
              Spent(transfers', w) = Spent(transfers, w) - d,
              Reversed(transfers', w) = Reversed(transfers, w) + e,
              ledger'[w] = ledger[w] + f, d = e + f
       PROVE  InFunds(w)'
  <2> DEFINE c == Credited(toppedUp, w)
             sp == Spent(transfers, w)
             rv == Reversed(transfers, w)
  <2>1. Credited(toppedUp', w) = c /\ sp \in Int /\ rv \in Int
    BY <1>3, <1>5
  <2>2. c \in Int
    BY CreditedIsInteger DEF IInv
  <2> HIDE DEF c, sp, rv
  <2>3. acc.available + d = c - (sp - d)
    BY <1>7, <1>9, <2>1, <2>2 DEF c, sp
  <2>4. (acc.available + d) + acc.frozen = (ledger[w] + f) + (rv + e)
    BY <1>7, <1>9, <1>10, <2>1 DEF rv
  <2> QED BY <1>10, <2>1, <2>3, <2>4 DEF InFunds, Money, c, sp, rv
<1>11. CASE buyer[o] # w
  BY <1>5, <1>6, <1>7, <1>8, <1>9, <1>10, <1>11
<1>12. CASE buyer[o] = w /\ op = "PURCHASE"
  <2>1. tr.status = "NONE" /\ tr.reversed = 0 /\ new.status = "SUCCEEDED" /\ new.reversed = 0
    BY <1>3, <1>12 DEF Permitted, UnpaidUntouched, Settled
  <2>2. SpentOn(o, tr) = 0 /\ SpentOn(o, new) = price[o]
    BY <1>7, <2>1 DEF SpentOn
  <2>3. accounts'[w].available = acc.available + (-price[o]) /\ accounts'[w].frozen = acc.frozen
    BY <1>6, <1>7, <1>12 DEF Changed, Plus
  <2>4. acc.available + (-price[o]) >= 0
    BY <1>3, <1>7, <1>12
  <2>5. /\ Spent(transfers', w) = Spent(transfers, w) - (-price[o])
        /\ Reversed(transfers', w) = Reversed(transfers, w) + 0
        /\ ledger'[w] = ledger[w] + (-price[o]) /\ -price[o] \in Int /\ -price[o] = 0 + (-price[o])
    BY <1>5, <1>7, <1>8, <1>12, <2>1, <2>2
  <2> QED BY <1>10, <2>3, <2>4, <2>5
<1>13. CASE buyer[o] = w /\ op = "REVERSE"
  <2>1. tr.status # "NONE" /\ new.status # "NONE" /\ new.reversed = tr.reversed + a /\ a > 0
    BY <1>3, <1>13, WalletAssumption DEF Permitted, Settled, Asked
  <2>2. SpentOn(o, tr) = price[o] - tr.reversed /\ SpentOn(o, new) = price[o] - (tr.reversed + a)
    BY <2>1 DEF SpentOn
  <2>3. accounts'[w].available = acc.available + a /\ accounts'[w].frozen = acc.frozen
    BY <1>1, <1>6, <1>7, <1>13 DEF Changed, Plus
  <2>4. acc.available + a >= 0
    BY <1>1, <1>7, <1>9, <2>1
  <2>5. /\ Spent(transfers', w) = Spent(transfers, w) - a
        /\ Reversed(transfers', w) = Reversed(transfers, w) + a
        /\ ledger'[w] = ledger[w] + 0 /\ a = a + 0
    BY <1>1, <1>5, <1>7, <1>8, <1>13, <2>1, <2>2
  <2> QED BY <1>1, <1>10, <2>3, <2>4, <2>5
<1>14. CASE buyer[o] = w /\ op = "RELEASE"
  <2>1. tr.status # "NONE" /\ new.status # "NONE" /\ new.reversed = tr.reversed
    BY <1>3, <1>14 DEF Permitted, Settled
  <2>2. SpentOn(o, tr) = SpentOn(o, new) /\ SpentOn(o, tr) \in Int
    BY <1>7, <2>1 DEF SpentOn
  <2>3. /\ Spent(transfers', w) = Spent(transfers, w) - 0
        /\ Reversed(transfers', w) = Reversed(transfers, w) + 0
        /\ ledger'[w] = ledger[w] + 0
    BY <1>5, <1>7, <1>8, <1>14, <2>1, <2>2
  <2>4. accounts'[w] = acc
    BY <1>6, <1>14
  <2> QED BY <1>7, <1>9, <1>10, <2>3, <2>4
<1> QED BY <1>1, <1>11, <1>12, <1>13, <1>14

\* A top-up is credited to its payee, in the account and in the ledger alike.
LEMMA TopUpKeepsInFunds ==
    ASSUME IInv, NEW w \in Users, InFunds(w), NEW u \in TopUps, TopUp(u)
    PROVE  InFunds(w)'
<1> DEFINE acc == accounts[w]
           c == Credited(toppedUp, w)
<1>1. /\ accounts \in [Owners -> Accounts] /\ ledger \in [Owners -> Int] /\ w \in Owners
      /\ w # Platform /\ payee[u] \in Users /\ payee[u] \in Owners /\ payee[u] # Platform
      /\ credit[u] \in Nat /\ acc \in Accounts /\ Platform \in Owners
  BY WalletAssumption DEF IInv, TypeOK, Owners
<1>2. /\ u \notin toppedUp /\ toppedUp' = toppedUp \cup {u} /\ transfers' = transfers
      /\ accounts' = [accounts EXCEPT ![payee[u]] = Plus(accounts[payee[u]], credit[u], 0)]
      /\ ledger' = [ledger EXCEPT ![payee[u]] = ledger[payee[u]] + credit[u],
                                  ![Platform] = ledger[Platform] - credit[u]]
  BY DEF TopUp
<1>3. /\ acc.available >= 0 /\ acc.available = c - Spent(transfers, w)
      /\ acc.available + acc.frozen = ledger[w] + Reversed(transfers, w)
      /\ acc.available \in Int /\ acc.frozen \in Int /\ ledger[w] \in Int
  BY <1>1 DEF InFunds, Money, Accounts
<1>4. c \in Int
  BY CreditedIsInteger DEF IInv
<1>5. CASE payee[u] # w
  <2>1. accounts'[w] = acc /\ ledger'[w] = ledger[w]
    BY <1>1, <1>2, <1>5
  <2>2. {v \in toppedUp' : payee[v] = w} = {v \in toppedUp : payee[v] = w}
    BY <1>2, <1>5
  <2> QED BY <1>2, <1>3, <2>1, <2>2 DEF InFunds, Money, Credited
<1>6. CASE payee[u] = w
  <2> DEFINE mine == {v \in toppedUp : payee[v] = w}
  <2>1. IsFiniteSet(mine) /\ u \notin mine /\ \A v \in mine \cup {u} : credit[v] \in Int
    BY <1>1, <1>2, ToppedUpIsFinite, FS_Subset DEF IInv, TypeOK
  <2>2. {v \in toppedUp' : payee[v] = w} = mine \cup {u}
    BY <1>2, <1>6
  <2> HIDE DEF mine
  <2>3. SumFunctionOnSet(credit, mine \cup {u}) = credit[u] + SumFunctionOnSet(credit, mine)
    BY <2>1, SumAdd
  <2>4. Credited(toppedUp', w) = credit[u] + c
    BY <2>2, <2>3 DEF Credited, mine
  <2>5. /\ accounts'[w].available = acc.available + credit[u] /\ accounts'[w].frozen = acc.frozen
        /\ ledger'[w] = ledger[w] + credit[u]
    BY <1>1, <1>2, <1>3, <1>6 DEF Plus
  <2> DEFINE sp == Spent(transfers, w)
             rv == Reversed(transfers, w)
  <2>6. sp \in Int /\ rv \in Int
    BY TransfersAddUp DEF IInv, TypeOK
  <2>7. acc.available + credit[u] = (credit[u] + c) - sp
    BY <1>1, <1>3, <1>4, <2>6
  <2>8. (acc.available + credit[u]) + acc.frozen = (ledger[w] + credit[u]) + rv
    BY <1>1, <1>3, <2>6
  <2> QED BY <1>1, <1>2, <1>3, <2>4, <2>5, <2>7, <2>8 DEF InFunds, Money
<1> QED BY <1>5, <1>6

LEMMA InitMoneyIInv == Init => MoneyIInv
<1> SUFFICES ASSUME Init PROVE MoneyIInv
  OBVIOUS
<1>1. IInv /\ UnpaidUntouched
  BY InitIInv DEF Init, UnpaidUntouched
<1>2. SumFunctionOnSet(credit, toppedUp) = 0
  BY SumEmpty DEF Init
<1>3. MoneyConserved
  <2> DEFINE f == [w \in Owners |-> accounts[w].available + accounts[w].frozen]
  <2>1. \A w \in Owners : f[w] = 0
    BY DEF Init
  <2> HIDE DEF f
  <2>2. SumFunctionOnSet(f, Owners) = 0
    BY <2>1, OwnersAreFinite, SumZero
  <2> QED BY <1>2, <2>2 DEF MoneyConserved, f
<1>4. ASSUME NEW w \in Users PROVE InFunds(w)
  <2> DEFINE f == [p \in Orders |-> SpentOn(p, transfers[p])]
             h == [p \in Orders |-> transfers[p].reversed]
  <2>1. IsFiniteSet(Bought(w)) /\ Bought(w) \subseteq Orders
    BY WalletAssumption, FS_Subset DEF Bought
  <2>2. \A p \in Bought(w) : f[p] = 0 /\ h[p] = 0
    BY <2>1 DEF Init, SpentOn
  <2> HIDE DEF f, h
  <2>3. SumFunctionOnSet(f, Bought(w)) = 0 /\ SumFunctionOnSet(h, Bought(w)) = 0
    BY <2>1, <2>2, SumZero
  <2>4. Credited(toppedUp, w) = 0
    <3>1. {u \in toppedUp : payee[u] = w} = {}
      BY DEF Init
    <3> QED BY <3>1, SumEmpty DEF Credited
  <2>5. Spent(transfers, w) = 0 /\ Reversed(transfers, w) = 0
    BY <2>3 DEF Spent, Reversed, f, h
  <2>6. accounts[w] = [available |-> 0, frozen |-> 0] /\ ledger[w] = 0
    BY DEF Init, Owners
  <2> QED BY <2>4, <2>5, <2>6 DEF InFunds, Money
<1> QED BY <1>1, <1>3, <1>4 DEF MoneyIInv

LEMMA NextKeepsMoneyIInv == MoneyIInv /\ [Next]_walletVars => MoneyIInv'
<1> SUFFICES ASSUME MoneyIInv, [Next]_walletVars PROVE MoneyIInv'
  OBVIOUS
<1>1. IInv' /\ MoneyConserved'
  BY NextKeepsIInv, StepConservesMoney DEF MoneyIInv
<1>2. ASSUME NEW o \in Orders, NEW op, NEW a, Asked(op, o, a), Call(op, o, a)
      PROVE  MoneyIInv'
  <2>1. \A w \in Users : SellsNothing(w) => InFunds(w)'
    BY <1>2, CallKeepsInFunds DEF MoneyIInv
  <2>2. \A w : SellsNothing(w)' <=> SellsNothing(w)
    BY DEF SellsNothing
  <2>3. UnpaidUntouched'
    <3>1. op \in {"PURCHASE", "RELEASE", "REVERSE"}
      BY <1>2, AskedIsInteger
    <3>2. Settled(op, o, a, transfers[o]).status # "NONE"
      BY <3>1 DEF Settled
    <3> HIDE DEF Settled
    <3> QED BY <1>2, <3>2 DEF MoneyIInv, UnpaidUntouched, Call, IInv, TypeOK
  <2> QED BY <1>1, <2>1, <2>2, <2>3 DEF MoneyIInv
<1>3. ASSUME NEW u \in TopUps, TopUp(u) PROVE MoneyIInv'
  <2>1. \A w \in Users : SellsNothing(w) => InFunds(w)'
    BY <1>3, TopUpKeepsInFunds DEF MoneyIInv
  <2>2. UnpaidUntouched'
    BY <1>3 DEF MoneyIInv, UnpaidUntouched, TopUp
  <2>3. \A w : SellsNothing(w)' <=> SellsNothing(w)
    BY DEF SellsNothing
  <2> QED BY <1>1, <2>1, <2>2, <2>3 DEF MoneyIInv
<1>4. CASE UNCHANGED walletVars
  BY <1>1, <1>4 DEF walletVars, MoneyIInv, UnpaidUntouched, InFunds, SellsNothing
<1>5. CASE Next
  BY <1>2, <1>3, <1>5 DEF Next, Purchase, Release, Reverse, Asked
<1> QED BY <1>4, <1>5

LEMMA InFundsSuffices ==
    ASSUME MoneyIInv
    PROVE  BuyersSpendOwnMoney /\ LedgerLacksReversals
<1>1. ASSUME NEW w \in Users, SellsNothing(w)
      PROVE  /\ Spent(transfers, w) <= Credited(toppedUp, w)
             /\ Money(accounts[w]) = ledger[w] + Reversed(transfers, w)
  <2>1. Credited(toppedUp, w) \in Int /\ Spent(transfers, w) \in Int
    BY CreditedIsInteger, TransfersAddUp DEF MoneyIInv, IInv, TypeOK
  <2> QED BY <1>1, <2>1 DEF MoneyIInv, InFunds
<1> QED BY <1>1 DEF BuyersSpendOwnMoney, LedgerLacksReversals, Spent, SpentOn, Credited, Money, Reversed

\* The invariant of the money holds of every reachable state.
THEOREM MoneyInvariantHolds == Spec => []MoneyIInv
BY InitMoneyIInv, NextKeepsMoneyIInv, PTL DEF Spec

\* wallet.go: no purchase, release, reversal or top-up creates or loses money,
\* whatever the rounding of fees and of partial reversals.
THEOREM NoMoneyIsMade == Spec => []MoneyConserved
<1>1. MoneyIInv => MoneyConserved
  BY DEF MoneyIInv
<1> QED BY <1>1, MoneyInvariantHolds, PTL

\* Whoever sells nothing never spends more than was topped up and given back.
THEOREM SpendingIsCovered == Spec => []BuyersSpendOwnMoney
BY InFundsSuffices, MoneyInvariantHolds, PTL

\* The ledger of a buyer explains the balance but for what reversals gave back.
THEOREM OnlyReversalsAreMissing == Spec => []LedgerLacksReversals
BY InFundsSuffices, MoneyInvariantHolds, PTL
=============================================================================
