------------------------------- MODULE Wallet -------------------------------
(***************************************************************************)
(* The wallet of the payment service (new-api, model/wallet.go), each call *)
(* as one atomic step: what its database transactions promise together.    *)
(* WalletTransactions holds the transactions themselves.                   *)
(*                                                                         *)
(* A purchase takes the price from the buyer's available balance, freezes  *)
(* the seller's share of it and pays the platform its fee.  A release      *)
(* makes the frozen share available; a reversal gives money back.          *)
(***************************************************************************)
EXTENDS Integers, FiniteSets, Functions

CONSTANTS
    Orders,    \* business order numbers of purchases
    TopUps,    \* trade numbers of top-ups
    Users,     \* owners of the wallets of buyers and sellers
    Platform,  \* the owner of the platform's wallet
    buyer,     \* [Orders -> Users]
    seller,    \* [Orders -> Users]
    price,     \* [Orders -> cents], more than zero
    payee,     \* [TopUps -> Users]
    credit,    \* [TopUps -> cents]
    Parts      \* the amounts that reversals ask for

\* The orders, users and top-ups are rows of a database: finitely many.
ASSUME WalletAssumption ==
    /\ IsFiniteSet(Orders) /\ IsFiniteSet(TopUps) /\ IsFiniteSet(Users)
    /\ Platform \notin Users
    /\ buyer \in [Orders -> Users]
    /\ seller \in [Orders -> Users]
    /\ price \in [Orders -> Nat \ {0}]
    /\ payee \in [TopUps -> Users]
    /\ credit \in [TopUps -> Nat]
    /\ Parts \subseteq Nat \ {0}

VARIABLES
    accounts,   \* wallet_accounts; a missing row is one with no money
    transfers,  \* wallet_transfers of type PURCHASE, at most one for an order
    toppedUp,   \* wallet_transfers of type TOPUP
    ledger      \* wallet_ledger_entries: credits less debits, for each owner

walletVars == <<accounts, transfers, toppedUp, ledger>>

Owners == Users \cup {Platform}

Accounts == [available : Int, frozen : Int]

Statuses == {"NONE", "SUCCEEDED", "RELEASED", "PARTIALLY_REVERSED", "REVERSED"}

Transfers == [status : Statuses, reversed : Nat]

Init ==
    /\ accounts = [o \in Owners |-> [available |-> 0, frozen |-> 0]]
    /\ transfers = [o \in Orders |-> [status |-> "NONE", reversed |-> 0]]
    /\ toppedUp = {}
    /\ ledger = [o \in Owners |-> 0]
-----------------------------------------------------------------------------
\* The order service charges a tenth of the price, rounded down.
Fee(o) == price[o] \div 10

Share(o) == price[o] - Fee(o)

\* The seller's part of a reversal of a cents.
SellerPart(o, a) == (a * Share(o)) \div price[o]

Plus(account, available, frozen) ==
    [available |-> account.available + available, frozen |-> account.frozen + frozen]

\* A plausible slip: a reversal that exceeds the frozen balance forgets that
\* part of it was frozen.
TakeAvailable(account, a) ==
    IF account.frozen >= a THEN Plus(account, 0, -a) ELSE Plus(account, -a, -account.frozen)

\* The frozen balance first, what is missing from the available one.
TakeBack(account, a) ==
    IF account.frozen >= a THEN Plus(account, 0, -a)
    ELSE Plus(account, account.frozen - a, -account.frozen)

Owner(o, role) ==
    CASE role = "buyer" -> buyer[o]
      [] role = "seller" -> seller[o]
      [] role = "platform" -> Platform

\* What a call of kind op, for a cents of order o, does to the account of one
\* of the parties.
Changed(op, o, a, role, account) ==
    CASE op = "PURCHASE" /\ role = "buyer"    -> Plus(account, -price[o], 0)
      [] op = "PURCHASE" /\ role = "seller"   -> Plus(account, 0, Share(o))
      [] op = "PURCHASE" /\ role = "platform" -> Plus(account, Fee(o), 0)
      [] op = "RELEASE"  /\ role = "seller"   -> Plus(account, Share(o), -Share(o))
      [] op = "REVERSE"  /\ role = "buyer"    -> Plus(account, a, 0)
      [] op = "REVERSE"  /\ role = "seller"   -> TakeBack(account, SellerPart(o, a))
      [] op = "REVERSE"  /\ role = "platform" -> Plus(account, SellerPart(o, a) - a, 0)

After(op, o, a, role, accs) ==
    LET owner == Owner(o, role)
    IN  [accs EXCEPT ![owner] = Changed(op, o, a, role, accs[owner])]

\* The accounts once every party has been served, in the order of the code.
Served(op, o, a) ==
    IF op = "RELEASE" THEN After(op, o, a, "seller", accounts)
    ELSE After(op, o, a, "platform",
               After(op, o, a, "seller", After(op, o, a, "buyer", accounts)))

\* A plausible slip: a reversal counts down.
SettledBackwards(op, o, a, tr) ==
    CASE op = "PURCHASE" -> [status |-> "SUCCEEDED", reversed |-> 0]
      [] op = "RELEASE"  -> [status |-> "RELEASED", reversed |-> tr.reversed]
      [] op = "REVERSE"  -> [status |-> "PARTIALLY_REVERSED", reversed |-> tr.reversed - a]

\* The transfer after a call that read it as tr.
Settled(op, o, a, tr) ==
    CASE op = "PURCHASE" -> [status |-> "SUCCEEDED", reversed |-> 0]
      [] op = "RELEASE"  -> [status |-> "RELEASED", reversed |-> tr.reversed]
      [] op = "REVERSE"  -> [status |-> IF tr.reversed + a >= price[o] THEN "REVERSED"
                                        ELSE "PARTIALLY_REVERSED",
                             reversed |-> tr.reversed + a]

\* A plausible slip: the buyer's entry leaves out the fee.
PostedWithoutFee(op, o) ==
    IF op # "PURCHASE" THEN ledger
    ELSE [w \in Owners |-> ledger[w] + (IF w = seller[o] THEN Share(o) ELSE 0)
                                     + (IF w = Platform THEN Fee(o) ELSE 0)
                                     - (IF w = buyer[o] THEN Share(o) ELSE 0)]

\* A purchase posts to three owners; a release posts a debit and a credit of
\* the seller, which cancel out; a reversal posts nothing.
Posted(op, o) ==
    IF op # "PURCHASE" THEN ledger
    ELSE [w \in Owners |-> ledger[w] + (IF w = seller[o] THEN Share(o) ELSE 0)
                                     + (IF w = Platform THEN Fee(o) ELSE 0)
                                     - (IF w = buyer[o] THEN price[o] ELSE 0)]

\* A plausible slip: the cap ignores what earlier reversals gave back.
UncappedPermitted(op, o, a, tr) ==
    CASE op = "PURCHASE" -> tr.status = "NONE"
      [] op = "RELEASE"  -> tr.status \notin {"NONE", "RELEASED"}
      [] op = "REVERSE"  -> tr.status # "NONE" /\ a <= price[o]

\* The unique index on business order and type admits one purchase; a release
\* is done once; reversals together never exceed the amount.
Permitted(op, o, a, tr) ==
    CASE op = "PURCHASE" -> tr.status = "NONE"
      [] op = "RELEASE"  -> tr.status \notin {"NONE", "RELEASED"}
      [] op = "REVERSE"  -> tr.status # "NONE" /\ a <= price[o] - tr.reversed

Call(op, o, a) ==
    /\ Permitted(op, o, a, transfers[o])
    /\ op = "PURCHASE" => accounts[buyer[o]].available >= price[o]
    /\ accounts' = Served(op, o, a)
    /\ transfers' = [transfers EXCEPT ![o] = Settled(op, o, a, transfers[o])]
    /\ ledger' = Posted(op, o)
    /\ UNCHANGED toppedUp

Purchase(o) == Call("PURCHASE", o, price[o])

Release(o) == Call("RELEASE", o, Share(o))

Reverse(o, a) == Call("REVERSE", o, a)

\* CompleteTopUpToWallet runs inside its caller's transaction.  A second one
\* for the same trade number fails on the unique index and rolls back.
TopUp(u) ==
    /\ u \notin toppedUp
    /\ toppedUp' = toppedUp \cup {u}
    /\ accounts' = [accounts EXCEPT ![payee[u]] = Plus(accounts[payee[u]], credit[u], 0)]
    /\ ledger' = [ledger EXCEPT ![payee[u]] = ledger[payee[u]] + credit[u],
                                ![Platform] = ledger[Platform] - credit[u]]
    /\ UNCHANGED transfers

Next ==
    \/ \E o \in Orders : Purchase(o) \/ Release(o) \/ \E a \in Parts : Reverse(o, a)
    \/ \E u \in TopUps : TopUp(u)

Spec == Init /\ [][Next]_walletVars
-----------------------------------------------------------------------------
(* Properties.                                                             *)

TypeOK ==
    /\ accounts \in [Owners -> Accounts]
    /\ transfers \in [Orders -> Transfers]
    /\ toppedUp \subseteq TopUps
    /\ ledger \in [Owners -> Int]

\* No call creates or loses money: all balances together are what was topped up.
MoneyConserved ==
    SumFunctionOnSet([w \in Owners |-> accounts[w].available + accounts[w].frozen], Owners)
        = SumFunctionOnSet(credit, toppedUp)

Bought(w) == {o \in Orders : buyer[o] = w}

SellsNothing(w) == \A o \in Orders : seller[o] # w

\* Nobody spends more than was topped up, given back and earned: what the
\* purchases of a user who sells nothing cost, less what was reversed, is
\* covered by that user's top-ups.
BuyersSpendOwnMoney ==
    \A w \in Users : SellsNothing(w) =>
        SumFunctionOnSet([o \in Orders |-> IF transfers[o].status = "NONE" THEN 0
                                           ELSE price[o] - transfers[o].reversed], Bought(w))
          <= SumFunctionOnSet(credit, {u \in toppedUp : payee[u] = w})

\* However often a transfer is reversed, the buyer gets back at most its amount.
ReversedWithinPrice == \A o \in Orders : transfers[o].reversed <= price[o]

\* What the ledger leaves unexplained: the balance of a user who sells nothing
\* is what was posted to it, and beyond that exactly what reversals gave back.
LedgerLacksReversals ==
    \A w \in Users : SellsNothing(w) =>
        accounts[w].available + accounts[w].frozen
            = ledger[w] + SumFunctionOnSet([o \in Orders |-> transfers[o].reversed], Bought(w))

\* Where the price of an order is: reversals in parts have returned it once
\* they come to all of it.
Place(o) == IF transfers[o].status = "NONE" THEN "buyer"
            ELSE IF transfers[o].reversed = price[o] THEN "returned" ELSE "taken"

Places == [o \in Orders |-> Place(o)]

PerOrder == INSTANCE OrderMoney WITH money <- Places

\* The calls of all parties together take the price of an order once, and give
\* all of it back at most once: what the orders of the market rely on.
ImplementsOrderMoney == PerOrder!Spec
=============================================================================
