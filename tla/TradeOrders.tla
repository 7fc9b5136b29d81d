----------------------------- MODULE TradeOrders -----------------------------
(***************************************************************************)
(* The orders of the script market: OrderService, PurchaseApprovalService, *)
(* RefundService, DeliveryService and the jobs of TradeRecoveryService,    *)
(* over one listing (ScriptListing), the procurement budget of the         *)
(* enterprise workspace (BudgetGovernance, which PurchaseBudget            *)
(* implements) and the wallet service behind an unreliable network.        *)
(*                                                                         *)
(* An operation that reads before it writes, or that calls the wallet in   *)
(* between, is several steps.  Its first UPDATE of an order locks the row  *)
(* until it commits or rolls back.  Orders have no version: a write does   *)
(* not notice what changed since the read, and a null field is not         *)
(* written.  What an operation writes before it fails is rolled back, the  *)
(* PAYING and PAYMENT_FAILED of a payment included.                        *)
(***************************************************************************)
EXTENDS ScriptListing, Integers, FiniteSets, Functions

CONSTANTS
    Enterprise,  \* the orders that come from purchase requests; the others
                 \* are personal
    Exclusive,   \* the orders for an exclusive or buyout licence
    cents,       \* [Orders -> price of the licence]
    buyerWorkspace,  \* [Orders -> workspace an order is made for]: any, for an
                     \* order as for a purchase request, which names it itself
    Workspace,   \* the enterprise workspace's budget scope
    MonthLimit,  \* its monthly limit, 0 for none
    Refunds,     \* ids of refund requests
    Txs,         \* transactions that may be open at once
    Scheduling   \* TRUE if Spring runs the @Scheduled jobs

ASSUME TradeAssumption ==
    /\ Enterprise \subseteq Orders
    /\ IsFiniteSet(Enterprise)  \* rows of a database: finitely many
    /\ Exclusive \subseteq Orders
    /\ cents \in [Orders -> Nat]
    /\ DOMAIN buyerWorkspace = Orders
    /\ MonthLimit \in Nat
    /\ Scheduling \in BOOLEAN

VARIABLES
    orders,    \* trade_orders: the status, and whether wallet_transfer_no is set
    requests,  \* purchase_requests of the enterprise orders
    licences,  \* script_entitlements, at most one for an order
    refunds,   \* refund_requests
    wallet,    \* the wallet's transfer of each order
    purse,     \* the procurement budget
    txs        \* the open transactions

tradeVars == <<orders, requests, licences, refunds, wallet, purse, txs>>

vars == <<orders, requests, licences, refunds, wallet, purse, txs,
          listing, edits, lapsed, approvals>>

Budget == INSTANCE BudgetGovernance WITH
              Budgets <- {Workspace}, Cents <- Nat, Limits <- {0, MonthLimit}

OrderStatus == {"PENDING_APPROVAL", "REJECTED", "PENDING_PAYMENT", "FULFILLED",
                "REFUND_REQUESTED", "REFUNDED", "CANCELLED", "EXPIRED"}

PurchaseRequestStatus == {"PENDING_APPROVAL", "APPROVED", "REJECTED"}

EntitlementStatus == {"ACTIVE", "REFUND_LOCKED", "REVOKED"}

\* The wallet's transfer: charged once, and what happened to the money since.
Transfers == [charged : BOOLEAN, released : BOOLEAN, reversed : BOOLEAN]

NoTransfer == [charged |-> FALSE, released |-> FALSE, reversed |-> FALSE]

Closed == [op |-> "none"]

\* An open transaction: "read" before it has written anything, "locked" once
\* it holds its row, then what the wallet answered.
Opened == [op : {"pay", "cancel", "approve", "request", "refund", "expire", "settle"},
           order : Orders, refund : Refunds \cup {0},
           at : {"read", "locked", "done", "failed"}]

TypeOK ==
    /\ ListingTypeOK
    /\ orders \in [Orders -> [status : OrderStatus \cup {"NONE"}, transfer : BOOLEAN]]
    /\ requests \in [Orders -> PurchaseRequestStatus \cup {"NONE"}]
    /\ licences \in [Orders -> EntitlementStatus \cup {"NONE"}]
    /\ refunds \in [Refunds -> [order : Orders \cup {NoOrder},
                                status : {"NONE", "REQUESTED", "REFUNDED"}]]
    /\ wallet \in [Orders -> Transfers]
    /\ purse \in [{Workspace} -> Budget!Purses]
    /\ txs \in [Txs -> Opened \cup {Closed}]

\* The seller's draft has been approved, and nobody has touched it since.
Approved ==
    /\ listing = [status |-> "LISTED", review |-> "LISTED",
                  holder |-> NoOrder, until |-> NoOrder]
    /\ edits = [e \in Edits |-> NoEdit]
    /\ lapsed = {}
    /\ approvals = TRUE

\* Trading starts with a draft or an approved listing, and a budget that is set.
Init ==
    /\ ListingInit \/ Approved
    /\ orders = [o \in Orders |-> [status |-> "NONE", transfer |-> FALSE]]
    /\ requests = [o \in Orders |-> "NONE"]
    /\ licences = [o \in Orders |-> "NONE"]
    /\ refunds = [r \in Refunds |-> [order |-> NoOrder, status |-> "NONE"]]
    /\ wallet = [o \in Orders |-> NoTransfer]
    /\ purse = [w \in {Workspace} |-> [amount |-> MonthLimit, single |-> 0,
                                       reserved |-> 0, consumed |-> 0]]
    /\ txs = [t \in Txs |-> Closed]
-----------------------------------------------------------------------------
(* Transactions and rows.                                                  *)

Open(t, op, o, r, at) ==
    /\ txs[t] = Closed
    /\ txs' = [txs EXCEPT ![t] = [op |-> op, order |-> o, refund |-> r, at |-> at]]

Is(t, op, at) == txs[t] # Closed /\ txs[t].op = op /\ txs[t].at = at

Close(t) == txs' = [txs EXCEPT ![t] = Closed]

Goes(t, at) == txs' = [txs EXCEPT ![t].at = at]

\* Only a payment keeps an order locked over several steps.
Locked(o) == \E t \in Txs : txs[t] # Closed /\ txs[t].op = "pay"
                            /\ txs[t].order = o /\ txs[t].at # "read"

\* updateById of an order: its status, and the transfer number if it is known.
Becomes(o, status, transfer) ==
    /\ ~Locked(o)
    /\ orders' = [orders EXCEPT ![o] = [status |-> status,
                                        transfer |-> orders[o].transfer \/ transfer]]

Personal(o) == o \in Orders \ Enterprise

SameWorkspace(o, p) == buyerWorkspace[o] = buyerWorkspace[p]

\* Entitlements are looked up by workspace alone: what is found may belong to
\* another order, and does if this one has none (an order without an item, or
\* one whose delivery failed).
FoundLicences(o) == {p \in Orders : SameWorkspace(o, p) /\ licences[p] # "NONE"}

\* A plausible slip: the look-up takes the first row it finds.
SetFirstLicence(o, status) ==
    \/ FoundLicences(o) = {} /\ UNCHANGED licences
    \/ \E p \in FoundLicences(o) : licences' = [licences EXCEPT ![p] = status]

\* selectOne throws on a second row; without a row nothing is written.
SetLicence(o, status) ==
    /\ \A p, q \in FoundLicences(o) : p = q
    /\ licences' = [p \in Orders |-> IF p \in FoundLicences(o) THEN status ELSE licences[p]]

\* deliver: one licence for an order item, skipped if it is there.  An insert
\* that fails for any other reason is skipped as well.  The orders of purchase
\* requests have no item.
Delivered(o) ==
    IF Personal(o) /\ licences[o] = "NONE" THEN {"ACTIVE", "NONE"} ELSE {licences[o]}
-----------------------------------------------------------------------------
(* Creating orders.                                                        *)

\* create: an exclusive licence takes the reservation; a free licence is
\* delivered in the same transaction.
Create(o) ==
    /\ Personal(o) /\ orders[o].status = "NONE"
    /\ OnSale
    /\ IF o \in Exclusive THEN ReserveExclusive(o) ELSE UNCHANGED listing
    /\ orders' = [orders EXCEPT ![o].status = IF cents[o] = 0 THEN "FULFILLED" ELSE "PENDING_PAYMENT"]
    /\ \E licence \in IF cents[o] = 0 THEN Delivered(o) ELSE {"NONE"} :
           licences' = [licences EXCEPT ![o] = licence]
    /\ UNCHANGED <<requests, refunds, wallet, purse, txs, edits, lapsed, approvals>>

\* submit: reserves the budget; the order gets no item and no deadline.
Submit(o) ==
    /\ o \in Enterprise /\ orders[o].status = "NONE"
    /\ listing.status = "LISTED"
    /\ Budget!Reserve(Workspace, cents[o])
    /\ orders' = [orders EXCEPT ![o].status = "PENDING_APPROVAL"]
    /\ requests' = [requests EXCEPT ![o] = "PENDING_APPROVAL"]
    /\ UNCHANGED <<licences, refunds, wallet, txs, listing, edits, lapsed, approvals>>
-----------------------------------------------------------------------------
(* Paying.                                                                 *)

\* An order that costs nothing returns here: it changes nothing.
PayRead(t, o) ==
    /\ orders[o].status = "PENDING_PAYMENT" /\ cents[o] > 0
    /\ Open(t, "pay", o, 0, "read")
    /\ UNCHANGED <<orders, requests, licences, refunds, wallet, purse>>

\* A plausible slip: PAYING is committed at once.
PayLockStored(t) ==
    /\ Is(t, "pay", "read")
    /\ ~Locked(txs[t].order)
    /\ Goes(t, "locked")
    /\ orders' = [orders EXCEPT ![txs[t].order].status = "PAYING"]
    /\ UNCHANGED <<requests, licences, refunds, wallet, purse>>

\* The UPDATE to PAYING, which nobody else sees.
PayLock(t) ==
    /\ Is(t, "pay", "read")
    /\ ~Locked(txs[t].order)
    /\ Goes(t, "locked")
    /\ UNCHANGED <<orders, requests, licences, refunds, wallet, purse>>

\* A plausible slip: a refusal of the wallet is taken for a success.
PayCallTrusting(t) ==
    /\ Is(t, "pay", "locked")
    /\ \/ /\ ~wallet[txs[t].order].charged
          /\ wallet' = [wallet EXCEPT ![txs[t].order].charged = TRUE]
       \/ UNCHANGED wallet
    /\ Goes(t, "done")
    /\ UNCHANGED <<orders, requests, licences, refunds, purse>>

\* The wallet takes the money once for an order, and its answer may get lost;
\* or it refuses (no money, a second call for the order) or is not reached.
PayCall(t) ==
    /\ Is(t, "pay", "locked")
    /\ \/ /\ ~wallet[txs[t].order].charged
          /\ wallet' = [wallet EXCEPT ![txs[t].order].charged = TRUE]
          /\ Goes(t, "done") \/ Goes(t, "failed")
       \/ UNCHANGED wallet /\ Goes(t, "failed")
    /\ UNCHANGED <<orders, requests, licences, refunds, purse>>

\* A plausible slip: a budget that refuses no longer stops the commit.
PayCommitSwallowing(t) ==
    /\ Is(t, "pay", "done")
    /\ LET o == txs[t].order
       IN  /\ orders' = [orders EXCEPT ![o] = [status |-> "FULFILLED", transfer |-> TRUE]]
           /\ (o \in Enterprise /\ Budget!Consume(Workspace, cents[o])) \/ UNCHANGED purse
           /\ \E licence \in Delivered(o) : licences' = [licences EXCEPT ![o] = licence]
    /\ Close(t)
    /\ UNCHANGED <<requests, refunds, wallet>>

\* The order is paid, its budget consumed, its item delivered.  If the budget
\* refuses, the transaction is marked for rollback although pay catches the
\* exception, and Abandon is all that is left.
PayCommit(t) ==
    /\ Is(t, "pay", "done")
    /\ LET o == txs[t].order
       IN  /\ orders' = [orders EXCEPT ![o] = [status |-> "FULFILLED", transfer |-> TRUE]]
           /\ IF o \in Enterprise THEN Budget!Consume(Workspace, cents[o]) ELSE UNCHANGED purse
           /\ \E licence \in Delivered(o) : licences' = [licences EXCEPT ![o] = licence]
    /\ Close(t)
    /\ UNCHANGED <<requests, refunds, wallet>>

\* The operation throws, or the backend goes down: the transaction is rolled
\* back, what the wallet did is not.
Abandon(t) ==
    /\ txs[t] # Closed
    /\ Close(t)
    /\ UNCHANGED <<orders, requests, licences, refunds, wallet, purse>>

CancelRead(t, o) ==
    /\ orders[o].status = "PENDING_PAYMENT"
    /\ Open(t, "cancel", o, 0, "read")
    /\ UNCHANGED <<orders, requests, licences, refunds, wallet, purse>>

\* cancel gives back neither the reservation nor the budget.
CancelWrite(t) ==
    /\ Is(t, "cancel", "read")
    /\ Becomes(txs[t].order, "CANCELLED", FALSE)
    /\ Close(t)
    /\ UNCHANGED <<requests, licences, refunds, wallet, purse>>
-----------------------------------------------------------------------------
(* Approval of enterprise purchases.                                       *)

ApproveRead(t, o) ==
    /\ requests[o] = "PENDING_APPROVAL"
    /\ Open(t, "approve", o, 0, "read")
    /\ UNCHANGED <<orders, requests, licences, refunds, wallet, purse>>

ApproveWrite(t) ==
    /\ Is(t, "approve", "read")
    /\ Becomes(txs[t].order, "PENDING_PAYMENT", FALSE)
    /\ requests' = [requests EXCEPT ![txs[t].order] = "APPROVED"]
    /\ Close(t)
    /\ UNCHANGED <<licences, refunds, wallet, purse>>

\* reject checks no status.  If the budget refuses the release, the whole
\* transaction rolls back although reject catches the exception.
Reject(o) ==
    /\ requests[o] # "NONE"
    /\ Becomes(o, "REJECTED", FALSE)
    /\ requests' = [requests EXCEPT ![o] = "REJECTED"]
    /\ Budget!Release(Workspace, cents[o])
    /\ UNCHANGED <<licences, refunds, wallet, txs>>
-----------------------------------------------------------------------------
(* Refunds.                                                                *)

RequestRead(t, o) ==
    /\ orders[o].status = "FULFILLED"
    /\ Open(t, "request", o, 0, "read")
    /\ UNCHANGED <<orders, requests, licences, refunds, wallet, purse>>

RequestWrite(t, r) ==
    /\ Is(t, "request", "read")
    /\ refunds[r].order = NoOrder
    /\ Becomes(txs[t].order, "REFUND_REQUESTED", FALSE)
    /\ SetLicence(txs[t].order, "REFUND_LOCKED")
    /\ refunds' = [refunds EXCEPT ![r] = [order |-> txs[t].order, status |-> "REQUESTED"]]
    /\ Close(t)
    /\ UNCHANGED <<requests, wallet, purse>>

\* approve (refund) checks no status; the UPDATE to PROCESSING locks the row.
RefundLock(t, r) ==
    /\ refunds[r].order # NoOrder
    /\ \A u \in Txs : txs[u] # Closed /\ txs[u].op = "refund" => txs[u].refund # r
    /\ Open(t, "refund", refunds[r].order, r, "locked")
    /\ UNCHANGED <<orders, requests, licences, refunds, wallet, purse>>

\* A plausible slip: a wallet that refuses is taken for one that reversed.
RefundCallTrusting(t) ==
    /\ Is(t, "refund", "locked")
    /\ \/ UNCHANGED wallet
       \/ /\ orders[txs[t].order].transfer
          /\ wallet' = [wallet EXCEPT ![txs[t].order].reversed = TRUE]
    /\ Goes(t, "done")
    /\ UNCHANGED <<orders, requests, licences, refunds, purse>>

\* An order without a transfer has nothing to reverse.  The wallet reverses an
\* amount once; its answer may get lost.
RefundCall(t) ==
    /\ Is(t, "refund", "locked")
    /\ LET o == txs[t].order
       IN  \/ ~orders[o].transfer /\ UNCHANGED wallet /\ Goes(t, "done")
           \/ /\ orders[o].transfer /\ ~wallet[o].reversed
              /\ wallet' = [wallet EXCEPT ![o].reversed = TRUE]
              /\ Goes(t, "done") \/ Goes(t, "failed")
           \/ orders[o].transfer /\ UNCHANGED wallet /\ Goes(t, "failed")
    /\ UNCHANGED <<orders, requests, licences, refunds, purse>>

\* A plausible slip: the budget is not reversed with the money.
RefundCommitKeepingBudget(t) ==
    /\ Is(t, "refund", "done")
    /\ LET o == txs[t].order
       IN  /\ UNCHANGED purse
           /\ SetLicence(o, "REVOKED")
           /\ RestoreListed(o)
           /\ Becomes(o, "REFUNDED", FALSE)
    /\ refunds' = [refunds EXCEPT ![txs[t].refund].status = "REFUNDED"]
    /\ Close(t)
    /\ UNCHANGED <<requests, wallet, edits, lapsed, approvals>>

\* A refusal of the budget, or a second entitlement, rolls everything back.
RefundCommit(t) ==
    /\ Is(t, "refund", "done")
    /\ LET o == txs[t].order
       IN  /\ IF o \in Enterprise /\ orders[o].transfer
              THEN Budget!Reverse(Workspace, cents[o]) ELSE UNCHANGED purse
           /\ SetLicence(o, "REVOKED")
           /\ RestoreListed(o)
           /\ Becomes(o, "REFUNDED", FALSE)
    /\ refunds' = [refunds EXCEPT ![txs[t].refund].status = "REFUNDED"]
    /\ Close(t)
    /\ UNCHANGED <<requests, wallet, edits, lapsed, approvals>>
-----------------------------------------------------------------------------
(* The jobs of TradeRecoveryService.                                       *)

ExpireRead(t, o) ==
    /\ Scheduling
    /\ orders[o].status = "PENDING_PAYMENT" /\ Personal(o) /\ o \in lapsed
    /\ Open(t, "expire", o, 0, "read")
    /\ UNCHANGED <<orders, requests, licences, refunds, wallet, purse>>

ExpireWrite(t) ==
    /\ Is(t, "expire", "read")
    /\ Becomes(txs[t].order, "EXPIRED", FALSE)
    /\ ReleaseReservation(txs[t].order)
    /\ Close(t)
    /\ UNCHANGED <<requests, licences, refunds, wallet, purse, edits, lapsed, approvals>>

\* releaseDueSettlements, at some time seven days after the order was fulfilled.
SettleRead(t, o) ==
    /\ Scheduling
    /\ orders[o].status = "FULFILLED" /\ orders[o].transfer /\ ~wallet[o].released
    /\ Open(t, "settle", o, 0, "read")
    /\ UNCHANGED <<orders, requests, licences, refunds, wallet, purse>>

SettleCall(t) ==
    /\ Is(t, "settle", "read")
    /\ wallet' = [wallet EXCEPT ![txs[t].order].released = TRUE]
    /\ Close(t)
    /\ UNCHANGED <<orders, requests, licences, refunds, purse>>
-----------------------------------------------------------------------------
\* Half an hour passes for an order whose deadline somebody looks at: the job
\* that expires orders, or the next buyer of an exclusive licence.
Time(o) ==
    /\ Personal(o) /\ orders[o].status # "NONE"
    /\ Scheduling \/ o \in Exclusive
    /\ Lapse(o)
    /\ UNCHANGED tradeVars

ReadStep(t, o) ==
    \/ PayRead(t, o) \/ CancelRead(t, o) \/ ApproveRead(t, o) \/ RequestRead(t, o)
    \/ ExpireRead(t, o) \/ SettleRead(t, o)

\* What an open transaction does next, the listing left alone.
OrderWrite(t) ==
    \/ PayLock(t) \/ PayCall(t) \/ PayCommit(t)
    \/ CancelWrite(t) \/ ApproveWrite(t)
    \/ \E r \in Refunds : RequestWrite(t, r)
    \/ RefundCall(t) \/ SettleCall(t)

Proceed(t) ==
    \/ OrderWrite(t) /\ UNCHANGED listingVars
    \/ RefundCommit(t) \/ ExpireWrite(t)

Next ==
    \/ \E o \in Orders : Create(o) \/ Submit(o) \/ Time(o)
    \/ \E o \in Orders : Reject(o) /\ UNCHANGED listingVars
    \/ \E t \in Txs, o \in Orders : ReadStep(t, o) /\ UNCHANGED listingVars
    \/ \E t \in Txs, r \in Refunds : RefundLock(t, r) /\ UNCHANGED listingVars
    \/ \E t \in Txs : Proceed(t) \/ (Abandon(t) /\ UNCHANGED listingVars)
    \/ EditStep /\ UNCHANGED tradeVars

Spec == Init /\ [][Next]_vars

\* Every wallet call ends (the client sets no timeout: the network must end
\* it), so an open transaction goes on or is abandoned.  As long as it may, the
\* expiry job (where it is scheduled at all) finds the order, the buyer pays and
\* the platform approves a refund again, and not every attempt is abandoned.
Retries ==
    /\ \A t \in Txs : WF_vars(Proceed(t) \/ (Abandon(t) /\ UNCHANGED listingVars))
    /\ \A o \in Orders : SF_vars(\E t \in Txs : ExpireRead(t, o) /\ UNCHANGED listingVars)
    /\ \A o \in Orders : SF_vars(\E t \in Txs : PayRead(t, o) /\ UNCHANGED listingVars)
    /\ \A r \in Refunds : SF_vars(\E t \in Txs : RefundLock(t, r) /\ UNCHANGED listingVars)
    /\ \A t \in Txs : SF_vars(Proceed(t))

RetrySpec == Spec /\ Retries
-----------------------------------------------------------------------------
(* Properties that hold.                                                   *)

Spent(o) == orders[o].transfer /\ ~\E r \in Refunds : refunds[r].order = o /\ refunds[r].status = "REFUNDED"

\* Across lost answers, rollbacks and stale writes, a paid order that is
\* fulfilled, or whose refund is asked for, was charged by the wallet and knows
\* its transfer.
FulfilledIsPaid ==
    \A o \in Orders :
        orders[o].status \in {"FULFILLED", "REFUND_REQUESTED"} /\ cents[o] > 0 =>
            orders[o].transfer /\ wallet[o].charged

\* Nobody holds an active licence that was not paid, or whose money went back.
ActiveLicenceIsPaid ==
    \A o \in Orders : licences[o] = "ACTIVE" /\ cents[o] > 0 =>
                          wallet[o].charged /\ ~wallet[o].reversed

\* Although a refund looks the licence up by workspace alone, may find another
\* order's or fail on two, and payments of the order go on: the licence of an
\* order whose refund was asked for is not active.
RefundStopsUse ==
    \A r \in Refunds : refunds[r].order # NoOrder => licences[refunds[r].order] # "ACTIVE"

\* An order that shows as refunded has its money back.
RefundedIsReversed ==
    \A o \in Orders : orders[o].status = "REFUNDED" /\ orders[o].transfer => wallet[o].reversed

\* What the budget shows as consumed is what the enterprise's orders cost that
\* the wallet charged, known to the backend, and that were not refunded.
ConsumedBudgetIsSpent ==
    purse[Workspace].consumed =
        SumFunctionOnSet(cents, {o \in Enterprise : Spent(o)})

Unpaid(o) == orders[o].status # "NONE" /\ ~orders[o].transfer

\* Nothing stays reserved for an order that was paid, and nothing is reserved
\* twice: although rejections repeat and payments of rejected orders go on, the
\* reserved budget is covered by orders that were made and are not paid.
ReservedBudgetHasOrders ==
    purse[Workspace].reserved <=
        SumFunctionOnSet(cents, {o \in Enterprise : Unpaid(o)})

Place(o) == IF wallet[o].reversed THEN "returned"
            ELSE IF wallet[o].charged THEN "taken" ELSE "buyer"

Places == [o \in Orders |-> Place(o)]

PerOrder == INSTANCE OrderMoney WITH money <- Places

\* Across retries, lost answers and rollbacks, the backend has the wallet give
\* back only what it took before: the orders use the wallet as Wallet is shown
\* to work.
UsesOrderMoney == PerOrder!Spec

\* Whatever stale row an edit of the seller or the platform writes back, a
\* listing that shows as reserved carries the deadline of an exclusive order
\* that was made.
ReservationHasOrder ==
    listing.status = "EXCLUSIVE_RESERVED" =>
        \E o \in Exclusive : listing.until = o /\ orders[o].status # "NONE"
-----------------------------------------------------------------------------
(* Properties that the design of the market (2026-07-02-script-trading-     *)
(* market-completion-design.md) states and the code does not keep.         *)

\* Section 20: an order that was charged is in the end delivered or refunded.
ChargedOrderIsSettled ==
    \A o \in Orders : wallet[o].charged ~> orders[o].status \in {"FULFILLED", "REFUNDED"}

\* Section 6.5: a refund revokes the licence that belongs to it.
LicenceGoesWithItsOrder ==
    \A o \in Orders : licences[o] \in {"REFUND_LOCKED", "REVOKED"} =>
                          \E r \in Refunds : refunds[r].order = o
=============================================================================
