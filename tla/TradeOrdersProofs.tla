-------------------------- MODULE TradeOrdersProofs --------------------------
(***************************************************************************)
(* Proofs about ScriptListing and TradeOrders: what is on sale was         *)
(* approved, and orders, refunds, licences and the budget agree with what  *)
(* the wallet did, for any number of orders, refund requests and           *)
(* transactions, although answers get lost, transactions are rolled back   *)
(* after the wallet has moved the money, and orders are written from stale *)
(* reads.                                                                  *)
(*                                                                         *)
(* The argument: what an open transaction relies on is only ever confirmed *)
(* by the others.  A transfer number, a charge, a reversal and a refund    *)
(* request are never taken back (Grows), so what the transaction has read, *)
(* or was told by the wallet, still holds when it writes (Supported).      *)
(***************************************************************************)
EXTENDS TradeOrders, SumTheorems, TLAPS
-----------------------------------------------------------------------------
(* The listing: no overlap of edits and orders brings one to the market    *)
(* that the platform has never approved.  As long as nothing was approved, *)
(* neither the row nor any copy of it that an open edit will write back is *)
(* on sale.  An order could put a listing back on sale by giving up its    *)
(* reservation, but no row ever names the order that holds it (Unheld).    *)

OnSaleRow(row) == row.status \in {"LISTED", "EXCLUSIVE_RESERVED"}

\* The row and its copies name no order.
Unheld ==
    /\ listing.holder = NoOrder
    /\ \A e \in Edits : edits[e].open => edits[e].row.holder = NoOrder

NothingOnSale ==
    ~approvals => /\ ~OnSaleRow(listing)
                  /\ \A e \in Edits : edits[e].open => ~OnSaleRow(edits[e].row)

ListingIInv == ListingTypeOK /\ Unheld /\ NothingOnSale

LEMMA OpenEdit ==
    ASSUME ListingTypeOK, NEW e \in Edits, edits[e].open
    PROVE  edits[e].op \in EditOps /\ edits[e].row \in Listings
<1>1. edits[e] # NoEdit
  BY DEF NoEdit
<1> QED BY <1>1 DEF ListingTypeOK, OpenEdits

LEMMA EditedIsListing ==
    ASSUME ListingTypeOK, NEW op \in EditOps, NEW row \in Listings
    PROVE  Edited(op, row) \in Listings
<1>1. StatusAfter(op, row.status) \in ListingStatus
  BY DEF StatusAfter, Listings, ListingStatus
<1>2. ReviewAfter(op, row.review) \in ReviewStatus
  BY DEF ReviewAfter, Listings, ReviewStatus, EditOps
<1>3. /\ row.holder \in Orders \cup {NoOrder} /\ row.until \in Orders \cup {NoOrder}
      /\ listing.holder \in Orders \cup {NoOrder} /\ listing.until \in Orders \cup {NoOrder}
  BY DEF ListingTypeOK, Listings
<1> QED BY <1>1, <1>2, <1>3 DEF Edited, Listings

LEMMA InitListingIInv == ListingInit => ListingIInv
<1> SUFFICES ASSUME ListingInit PROVE ListingIInv
  OBVIOUS
<1>1. /\ listing.status = "DRAFT" /\ listing.holder = NoOrder
      /\ \A e \in Edits : ~edits[e].open
  BY DEF ListingInit, NoEdit
<1>2. listing \in Listings
  BY DEF ListingInit, Listings, ListingStatus, ReviewStatus
<1>3. ListingTypeOK
  BY <1>2 DEF ListingInit, ListingTypeOK
<1>4. Unheld
  BY <1>1 DEF Unheld
<1>5. NothingOnSale
  BY <1>1 DEF NothingOnSale, OnSaleRow
<1> QED BY <1>3, <1>4, <1>5 DEF ListingIInv

LEMMA EditReadKeepsIInv ==
    ASSUME ListingIInv, NEW e \in Edits, NEW op \in EditOps, EditRead(e, op)
    PROVE  ListingIInv'
<1> DEFINE new == [open |-> TRUE, op |-> op, row |-> listing]
<1>1. /\ edits' = [edits EXCEPT ![e] = new] /\ listing' = listing /\ lapsed' = lapsed
      /\ approvals' = approvals /\ edits \in [Edits -> OpenEdits \cup {NoEdit}]
      /\ listing \in Listings
  BY DEF EditRead, ListingIInv, ListingTypeOK
<1>2. new \in OpenEdits /\ new.row = listing
  BY <1>1 DEF OpenEdits
<1> HIDE DEF new
<1>3. edits'[e] = new /\ \A d \in Edits : d # e => edits'[d] = edits[d]
  BY <1>1
<1>4. ListingTypeOK'
  BY <1>1, <1>2 DEF ListingIInv, ListingTypeOK
<1>5. Unheld'
  BY <1>1, <1>2, <1>3 DEF ListingIInv, Unheld
<1>6. NothingOnSale'
  BY <1>1, <1>2, <1>3 DEF ListingIInv, NothingOnSale
<1> QED BY <1>4, <1>5, <1>6 DEF ListingIInv

LEMMA EditWriteKeepsIInv ==
    ASSUME ListingIInv, NEW e \in Edits, EditWrite(e)
    PROVE  ListingIInv'
<1> DEFINE op == edits[e].op
           row == edits[e].row
           new == Edited(op, row)
<1>1. /\ edits[e].open /\ listing' = new /\ lapsed' = lapsed
      /\ edits' = [edits EXCEPT ![e] = NoEdit]
      /\ approvals' = (approvals \/ op = "approve")
  BY DEF EditWrite
<1>2. /\ op \in EditOps /\ row \in Listings /\ edits \in [Edits -> OpenEdits \cup {NoEdit}]
      /\ approvals \in BOOLEAN /\ lapsed \subseteq Orders
  BY <1>1, OpenEdit DEF ListingIInv, ListingTypeOK
<1>3. new \in Listings
  BY <1>2, EditedIsListing DEF ListingIInv
<1>4. new.holder = NoOrder
  BY <1>1 DEF ListingIInv, Unheld, Edited
<1>5. ~approvals /\ op # "approve" => ~OnSaleRow(new)
  BY <1>1, <1>2 DEF ListingIInv, NothingOnSale, OnSaleRow, Edited, StatusAfter
<1> HIDE DEF new, op, row
<1>6. /\ ~edits'[e].open
      /\ \A d \in Edits : edits'[d].open => d # e /\ edits[d].open /\ edits'[d] = edits[d]
  BY <1>1, <1>2 DEF NoEdit
<1>7. ListingTypeOK'
  BY <1>1, <1>2, <1>3 DEF ListingTypeOK
<1>8. Unheld'
  BY <1>1, <1>4, <1>6 DEF ListingIInv, Unheld
<1>9. NothingOnSale'
  BY <1>1, <1>5, <1>6 DEF ListingIInv, NothingOnSale
<1> QED BY <1>7, <1>8, <1>9 DEF ListingIInv

\* What an order does to the row.
OrderChange(o) ==
    /\ ReserveExclusive(o) \/ ReleaseReservation(o) \/ RestoreListed(o)
    /\ UNCHANGED <<edits, lapsed, approvals>>

LEMMA OrderChangeKeepsIInv ==
    ASSUME ListingIInv, NEW o \in Orders, OrderChange(o)
    PROVE  ListingIInv'
<1>1. /\ listing \in Listings /\ listing.holder = NoOrder /\ o # NoOrder
      /\ edits' = edits /\ lapsed' = lapsed /\ approvals' = approvals
  BY ListingAssumption DEF ListingIInv, ListingTypeOK, Unheld, OrderChange
<1>2. CASE listing' = listing
  BY <1>1, <1>2 DEF ListingIInv, ListingTypeOK, Unheld, NothingOnSale
<1>3. CASE ReserveExclusive(o)
  <2>1. /\ listing.status = "LISTED"
        /\ listing' = [listing EXCEPT !.status = "EXCLUSIVE_RESERVED", !.holder = NoOrder,
                                      !.until = o]
    BY <1>3 DEF ReserveExclusive, CanReserve, ReservationOrderNo
  <2>2. listing' \in Listings /\ listing'.holder = NoOrder
    BY <1>1, <2>1 DEF Listings, ListingStatus
  <2>3. approvals
    BY <2>1 DEF ListingIInv, NothingOnSale, OnSaleRow
  <2> QED BY <1>1, <2>2, <2>3 DEF ListingIInv, ListingTypeOK, Unheld, NothingOnSale
<1>4. CASE ReleaseReservation(o) \/ RestoreListed(o)
  <2>1. listing' = listing
    BY <1>1, <1>4 DEF ReleaseReservation, RestoreListed
  <2> QED BY <1>2, <2>1
<1> QED BY <1>3, <1>4 DEF OrderChange

LEMMA LapseKeepsIInv ==
    ASSUME ListingIInv, NEW o \in Orders, Lapse(o)
    PROVE  ListingIInv'
BY DEF Lapse, ListingIInv, ListingTypeOK, Unheld, NothingOnSale

LEMMA IdleKeepsIInv ==
    ASSUME ListingIInv, UNCHANGED listingVars
    PROVE  ListingIInv'
BY DEF listingVars, ListingIInv, ListingTypeOK, Unheld, NothingOnSale

LEMMA EditStepKeepsIInv ==
    ASSUME ListingIInv, EditStep
    PROVE  ListingIInv'
BY EditReadKeepsIInv, EditWriteKeepsIInv DEF EditStep

LEMMA ListingNextKeepsIInv == ListingIInv /\ [ListingNext]_listingVars => ListingIInv'
<1> SUFFICES ASSUME ListingIInv, [ListingNext]_listingVars PROVE ListingIInv'
  OBVIOUS
<1>1. CASE EditStep
  BY <1>1, EditStepKeepsIInv
<1>2. CASE OrderStep
  BY <1>2, OrderChangeKeepsIInv, LapseKeepsIInv DEF OrderStep, OrderChange
<1>3. CASE UNCHANGED listingVars
  BY <1>3, IdleKeepsIInv
<1> QED BY <1>1, <1>2, <1>3 DEF ListingNext

\* The row of a listing and the rows that open edits will write back keep
\* their types.
THEOREM ListingTypeCorrect == ListingSpec => []ListingTypeOK
<1>1. ListingIInv => ListingTypeOK
  BY DEF ListingIInv
<1> QED BY <1>1, InitListingIInv, ListingNextKeepsIInv, PTL DEF ListingSpec

\* ListingService: with any number of overlapping edits and orders, what
\* buyers can order has been approved.
THEOREM ApprovedBeforeSale == ListingSpec => []OnSaleWasApproved
<1>1. ListingIInv => OnSaleWasApproved
  BY DEF ListingIInv, NothingOnSale, OnSaleRow, OnSaleWasApproved, OnSale
<1> QED BY <1>1, InitListingIInv, ListingNextKeepsIInv, PTL DEF ListingSpec
-----------------------------------------------------------------------------
(* Orders, refunds and the wallet.                                         *)

PaidFor(o) == cents[o] = 0 \/ orders[o].transfer

GivenBack(o) == cents[o] = 0 \/ wallet[o].reversed

OrderOK(o) ==
    /\ orders[o].transfer => wallet[o].charged /\ cents[o] > 0
    /\ orders[o].status \in {"FULFILLED", "REFUND_REQUESTED"} => PaidFor(o)
    /\ orders[o].status = "REFUNDED" => GivenBack(o)
    /\ orders[o].status = "NONE" => licences[o] = "NONE"
    /\ licences[o] # "NONE" => Personal(o)
    /\ licences[o] = "ACTIVE" => cents[o] = 0 \/ wallet[o].charged
    /\ wallet[o].reversed => \E r \in Refunds : refunds[r].order = o

\* The order of a refund request was made and paid.
RefundOK(r) ==
    LET o == refunds[r].order
    IN  o # NoOrder => PaidFor(o) /\ orders[o].status # "NONE"

\* What an open transaction tx relies on when it writes.
Supported(tx) ==
    tx # Closed =>
        /\ tx.op = "pay" => cents[tx.order] > 0
        /\ tx.op = "pay" /\ tx.at = "done" => wallet[tx.order].charged
        /\ tx.op = "request" => PaidFor(tx.order)
        /\ tx.op = "refund" => tx.refund \in Refunds /\ refunds[tx.refund].order = tx.order
        /\ tx.op = "refund" /\ tx.at = "done" => GivenBack(tx.order)

TradeIInv ==
    /\ TypeOK
    /\ ListingIInv
    /\ \A o \in Orders : OrderOK(o)
    /\ \A r \in Refunds : RefundOK(r)
    /\ \A t \in Txs : Supported(txs[t])

\* Nothing that an open transaction relies on is taken back.
Grows ==
    /\ \A o \in Orders :
         /\ orders[o].transfer => orders'[o].transfer
         /\ wallet[o].charged => wallet'[o].charged
         /\ wallet[o].reversed => wallet'[o].reversed
    /\ \A r \in Refunds : refunds[r].order # NoOrder => refunds'[r].order = refunds[r].order

LEMMA Types ==
    ASSUME TradeIInv
    PROVE  /\ orders \in [Orders -> [status : OrderStatus \cup {"NONE"}, transfer : BOOLEAN]]
           /\ requests \in [Orders -> PurchaseRequestStatus \cup {"NONE"}]
           /\ licences \in [Orders -> EntitlementStatus \cup {"NONE"}]
           /\ refunds \in [Refunds -> [order : Orders \cup {NoOrder},
                                       status : {"NONE", "REQUESTED", "REFUNDED"}]]
           /\ wallet \in [Orders -> Transfers]
           /\ purse \in [{Workspace} -> Budget!Purses]
           /\ txs \in [Txs -> Opened \cup {Closed}]
           /\ cents \in [Orders -> Nat] /\ Enterprise \subseteq Orders
BY TradeAssumption DEF TradeIInv, TypeOK

LEMMA OpenTx ==
    ASSUME TradeIInv, NEW t \in Txs, txs[t] # Closed
    PROVE  txs[t] \in Opened /\ txs[t].order \in Orders /\ Supported(txs[t])
BY Types DEF TradeIInv, Opened

LEMMA SupportGrows ==
    ASSUME TradeIInv, Grows, NEW tx \in Opened \cup {Closed}, Supported(tx)
    PROVE  Supported(tx)'
<1> SUFFICES ASSUME tx # Closed PROVE Supported(tx)'
  BY DEF Supported
<1>1. tx.order \in Orders
  BY DEF Opened
<1>2. tx.op = "request" => PaidFor(tx.order)'
  BY <1>1 DEF Supported, Grows, PaidFor
<1>3. tx.op = "refund" /\ tx.at = "done" => GivenBack(tx.order)'
  BY <1>1 DEF Supported, Grows, GivenBack
<1>4. tx.op = "refund" => tx.refund \in Refunds /\ refunds'[tx.refund].order = tx.order
  BY <1>1, ListingAssumption DEF Supported, Grows
<1> QED BY <1>1, <1>2, <1>3, <1>4 DEF Supported, Grows

\* A step that only replaces one transaction.
LEMMA OneTransaction ==
    ASSUME TradeIInv, NEW t \in Txs, NEW tx \in Opened \cup {Closed},
           txs' = [txs EXCEPT ![t] = tx], Supported(tx),
           UNCHANGED <<orders, requests, licences, refunds, wallet, purse>>,
           UNCHANGED listingVars
    PROVE  TradeIInv'
<1>1. ListingIInv'
  BY IdleKeepsIInv DEF TradeIInv
<1>2. txs' \in [Txs -> Opened \cup {Closed}]
  BY Types
<1>3. TypeOK'
  BY <1>1, <1>2 DEF TradeIInv, TypeOK, ListingIInv
<1>4. \A o \in Orders : OrderOK(o)'
  BY DEF TradeIInv, OrderOK, PaidFor, GivenBack
<1>5. \A r \in Refunds : RefundOK(r)'
  BY DEF TradeIInv, RefundOK, PaidFor
<1>6. \A u \in Txs : Supported(txs'[u])
  BY Types DEF TradeIInv
<1>7. \A u \in Txs : Supported(txs[u])'
  BY <1>6 DEF Supported, PaidFor, GivenBack
<1> QED BY <1>1, <1>3, <1>4, <1>5, <1>7 DEF TradeIInv

LEMMA OpeningKeepsIInv ==
    ASSUME TradeIInv, NEW t \in Txs, NEW o \in Orders, ReadStep(t, o), UNCHANGED listingVars
    PROVE  TradeIInv'
<1> DEFINE tx(op) == [op |-> op, order |-> o, refund |-> 0, at |-> "read"]
<1>1. PICK op \in {"pay", "cancel", "approve", "request", "expire", "settle"} :
        /\ txs' = [txs EXCEPT ![t] = tx(op)]
        /\ op = "pay" => cents[o] > 0
        /\ op = "request" => orders[o].status = "FULFILLED"
        /\ UNCHANGED <<orders, requests, licences, refunds, wallet, purse>>
  BY DEF ReadStep, PayRead, CancelRead, ApproveRead, RequestRead, ExpireRead, SettleRead, Open
<1>2. /\ tx(op) \in Opened /\ tx(op).op = op /\ tx(op).order = o /\ tx(op).at = "read"
  BY DEF Opened
<1> HIDE DEF tx
<1>3. op = "request" => PaidFor(o)
  BY <1>1 DEF TradeIInv, OrderOK
<1>4. Supported(tx(op))
  BY <1>1, <1>2, <1>3 DEF Supported
<1> QED BY <1>1, <1>2, <1>4, OneTransaction

LEMMA RefundLockKeepsIInv ==
    ASSUME TradeIInv, NEW t \in Txs, NEW r \in Refunds, RefundLock(t, r), UNCHANGED listingVars
    PROVE  TradeIInv'
<1> DEFINE o == refunds[r].order
           tx == [op |-> "refund", order |-> o, refund |-> r, at |-> "locked"]
<1>1. /\ txs' = [txs EXCEPT ![t] = tx] /\ o # NoOrder
      /\ UNCHANGED <<orders, requests, licences, refunds, wallet, purse>>
  BY DEF RefundLock, Open
<1>2. o \in Orders
  BY <1>1, Types
<1>3. /\ tx \in Opened /\ tx.op = "refund" /\ tx.order = o /\ tx.at = "locked" /\ tx.refund = r
  BY <1>2 DEF Opened
<1> HIDE DEF tx
<1>4. Supported(tx)
  BY <1>3 DEF Supported
<1> QED BY <1>1, <1>3, <1>4, OneTransaction

LEMMA PayLockKeepsIInv ==
    ASSUME TradeIInv, NEW t \in Txs, PayLock(t), UNCHANGED listingVars
    PROVE  TradeIInv'
<1> DEFINE old == txs[t]
           tx == [old EXCEPT !.at = "locked"]
<1>1. /\ old # Closed /\ old.op = "pay" /\ txs' = [txs EXCEPT ![t] = tx]
      /\ UNCHANGED <<orders, requests, licences, refunds, wallet, purse>>
  BY Types DEF PayLock, Is, Goes
<1>2. old \in Opened /\ Supported(old)
  BY <1>1, OpenTx
<1> HIDE DEF old
<1>3. tx \in Opened /\ tx.op = "pay" /\ tx.order = old.order /\ tx.at = "locked"
  BY <1>1, <1>2 DEF Opened
<1> HIDE DEF tx
<1>4. Supported(tx)
  BY <1>1, <1>2, <1>3 DEF Supported
<1> QED BY <1>1, <1>3, <1>4, OneTransaction

LEMMA AbandonKeepsIInv ==
    ASSUME TradeIInv, NEW t \in Txs, Abandon(t), UNCHANGED listingVars
    PROVE  TradeIInv'
<1>1. txs' = [txs EXCEPT ![t] = Closed]
  BY DEF Abandon, Close
<1>2. UNCHANGED <<orders, requests, licences, refunds, wallet, purse>>
  BY DEF Abandon
<1> QED BY <1>1, <1>2, OneTransaction DEF Supported

RowsOK ==
    /\ orders \in [Orders -> [status : OrderStatus \cup {"NONE"}, transfer : BOOLEAN]]
    /\ requests \in [Orders -> PurchaseRequestStatus \cup {"NONE"}]
    /\ licences \in [Orders -> EntitlementStatus \cup {"NONE"}]
    /\ refunds \in [Refunds -> [order : Orders \cup {NoOrder},
                                status : {"NONE", "REQUESTED", "REFUNDED"}]]
    /\ wallet \in [Orders -> Transfers]
    /\ purse \in [{Workspace} -> Budget!Purses]

\* A step that changes rows keeps the invariant if what it leaves is in order,
\* because it takes nothing back.
LEMMA GrowingKeepsIInv ==
    ASSUME TradeIInv, Grows, RowsOK', ListingIInv',
           \/ txs' = txs
           \/ \E t \in Txs : \E tx \in Opened \cup {Closed} :
                 txs' = [txs EXCEPT ![t] = tx] /\ Supported(tx)',
           \A o \in Orders : OrderOK(o)',
           \A r \in Refunds : RefundOK(r)'
    PROVE  TradeIInv'
<1>1. txs' \in [Txs -> Opened \cup {Closed}]
  BY Types
<1>2. TypeOK'
  BY <1>1 DEF RowsOK, TypeOK, ListingIInv
<1>3. ASSUME NEW u \in Txs PROVE Supported(txs[u])'
  <2>1. txs[u] \in Opened \cup {Closed} /\ Supported(txs[u])
    BY Types DEF TradeIInv
  <2>2. CASE txs'[u] = txs[u]
    <3>1. Supported(txs[u])'
      BY <2>1, <2>2, SupportGrows DEF Supported, PaidFor, GivenBack
    <3> QED BY <3>1
  <2>3. CASE txs'[u] # txs[u]
    <3>1. PICK tx \in Opened \cup {Closed} : txs'[u] = tx /\ Supported(tx)'
      BY <2>3, Types
    <3> QED BY <3>1 DEF Supported, PaidFor, GivenBack
  <2> QED BY <2>2, <2>3
<1> QED BY <1>2, <1>3 DEF TradeIInv

LEMMA MoveKeepsType ==
    ASSUME purse \in [{Workspace} -> Budget!Purses], NEW d \in Int, NEW e \in Int,
           Budget!Move(Workspace, d, e),
           purse[Workspace].reserved + d >= 0, purse[Workspace].consumed + e >= 0
    PROVE  purse' \in [{Workspace} -> Budget!Purses]
<1> DEFINE p == purse[Workspace]
           new == Budget!Moved(p, d, e)
<1>1. new \in Budget!Purses
  BY DEF Budget!Moved, Budget!Purses
<1>2. purse' = [purse EXCEPT ![Workspace] = new]
  BY DEF Budget!Move
<1> HIDE DEF new
<1> QED BY <1>1, <1>2

LEMMA BudgetKeepsType ==
    ASSUME purse \in [{Workspace} -> Budget!Purses], NEW a \in Nat,
           \/ Budget!Reserve(Workspace, a) \/ Budget!Release(Workspace, a)
           \/ Budget!Consume(Workspace, a) \/ Budget!Reverse(Workspace, a)
    PROVE  purse' \in [{Workspace} -> Budget!Purses]
<1> DEFINE r == purse[Workspace].reserved
           c == purse[Workspace].consumed
<1>1. r \in Nat /\ c \in Nat
  BY DEF Budget!Purses
<1>2. a \in Int /\ -a \in Int /\ 0 \in Int /\ r + a >= 0 /\ c + a >= 0 /\ r + 0 >= 0 /\ c + 0 >= 0
  BY <1>1
<1>3. CASE Budget!Reserve(Workspace, a)
  BY <1>2, <1>3, MoveKeepsType DEF Budget!Reserve
<1>4. CASE Budget!Release(Workspace, a)
  <2>1. r + (-a) >= 0
    BY <1>1, <1>4 DEF Budget!Release
  <2> QED BY <1>2, <1>4, <2>1, MoveKeepsType DEF Budget!Release
<1>5. CASE Budget!Consume(Workspace, a)
  <2>1. r + (-a) >= 0
    BY <1>1, <1>5 DEF Budget!Consume
  <2> QED BY <1>2, <1>5, <2>1, MoveKeepsType DEF Budget!Consume
<1>6. CASE Budget!Reverse(Workspace, a)
  <2>1. c + (-a) >= 0
    BY <1>1, <1>6 DEF Budget!Reverse
  <2> QED BY <1>2, <1>6, <2>1, MoveKeepsType DEF Budget!Reverse
<1> QED BY <1>3, <1>4, <1>5, <1>6

\* Writing a status that claims neither a payment nor a refund.
LEMMA StatusKeepsIInv ==
    ASSUME TradeIInv, NEW o \in Orders,
           NEW s \in {"PENDING_PAYMENT", "PENDING_APPROVAL", "REJECTED", "CANCELLED", "EXPIRED"},
           orders' = [orders EXCEPT ![o] = [status |-> s, transfer |-> orders[o].transfer]],
           UNCHANGED <<licences, refunds, wallet>>,
           requests' \in [Orders -> PurchaseRequestStatus \cup {"NONE"}],
           purse' \in [{Workspace} -> Budget!Purses],
           ListingIInv',
           txs' = txs \/ \E t \in Txs : Close(t)
    PROVE  TradeIInv'
<1>1. /\ orders'[o].status = s /\ orders'[o].transfer = orders[o].transfer
      /\ \A p \in Orders : p # o => orders'[p] = orders[p]
      /\ s \notin {"NONE", "FULFILLED", "REFUND_REQUESTED", "REFUNDED"}
  BY Types
<1>2. Grows
  BY <1>1 DEF Grows
<1>3. RowsOK'
  BY Types DEF RowsOK, OrderStatus
<1>4. \A p \in Orders : PaidFor(p)' = PaidFor(p)
  BY <1>1 DEF PaidFor
<1>5. \A p \in Orders : OrderOK(p)'
  <2> TAKE p \in Orders
  <2>1. OrderOK(p)
    BY DEF TradeIInv
  <2> QED BY <1>1, <1>4, <2>1 DEF OrderOK, GivenBack
<1>6. \A r \in Refunds : RefundOK(r)'
  <2> TAKE r \in Refunds
  <2>1. RefundOK(r) /\ refunds[r].order \in Orders \cup {NoOrder}
    BY Types DEF TradeIInv
  <2> QED BY <1>1, <1>4, <2>1 DEF RefundOK
<1>7. \/ txs' = txs
      \/ \E t \in Txs : \E tx \in Opened \cup {Closed} :
            txs' = [txs EXCEPT ![t] = tx] /\ Supported(tx)'
  BY DEF Close, Supported
<1> QED BY <1>2, <1>3, <1>5, <1>6, <1>7, GrowingKeepsIInv

LEMMA BecomesStatus ==
    ASSUME TradeIInv, NEW o \in Orders, NEW s, Becomes(o, s, FALSE)
    PROVE  orders' = [orders EXCEPT ![o] = [status |-> s, transfer |-> orders[o].transfer]]
BY Types DEF Becomes

LEMMA SubmitKeepsIInv ==
    ASSUME TradeIInv, NEW o \in Orders, Submit(o)
    PROVE  TradeIInv'
<1>1. orders' = [orders EXCEPT ![o] = [status |-> "PENDING_APPROVAL",
                                       transfer |-> orders[o].transfer]]
  <2> DEFINE row == orders[o]
  <2>1. row \in [status : OrderStatus \cup {"NONE"}, transfer : BOOLEAN]
    BY Types
  <2>2. orders' = [orders EXCEPT ![o] = [row EXCEPT !.status = "PENDING_APPROVAL"]]
    BY Types DEF Submit
  <2> HIDE DEF row
  <2>3. [row EXCEPT !.status = "PENDING_APPROVAL"]
          = [status |-> "PENDING_APPROVAL", transfer |-> row.transfer]
    BY <2>1
  <2> QED BY <2>2, <2>3 DEF row
<1>2. requests' \in [Orders -> PurchaseRequestStatus \cup {"NONE"}]
  BY Types DEF Submit, PurchaseRequestStatus
<1>3. purse' \in [{Workspace} -> Budget!Purses]
  BY Types, BudgetKeepsType DEF Submit
<1>4. ListingIInv'
  BY IdleKeepsIInv DEF Submit, listingVars, TradeIInv
<1>5. UNCHANGED <<licences, refunds, wallet>> /\ txs' = txs
  BY DEF Submit
<1> QED BY <1>1, <1>2, <1>3, <1>4, <1>5, StatusKeepsIInv

LEMMA RejectKeepsIInv ==
    ASSUME TradeIInv, NEW o \in Orders, Reject(o), UNCHANGED listingVars
    PROVE  TradeIInv'
<1>1. orders' = [orders EXCEPT ![o] = [status |-> "REJECTED", transfer |-> orders[o].transfer]]
  BY BecomesStatus DEF Reject
<1>2. requests' \in [Orders -> PurchaseRequestStatus \cup {"NONE"}]
  BY Types DEF Reject, PurchaseRequestStatus
<1>3. purse' \in [{Workspace} -> Budget!Purses]
  BY Types, BudgetKeepsType DEF Reject
<1>4. ListingIInv'
  BY IdleKeepsIInv DEF TradeIInv
<1>5. UNCHANGED <<licences, refunds, wallet>> /\ txs' = txs
  BY DEF Reject
<1> QED BY <1>1, <1>2, <1>3, <1>4, <1>5, StatusKeepsIInv

LEMMA CancelWriteKeepsIInv ==
    ASSUME TradeIInv, NEW t \in Txs, CancelWrite(t), UNCHANGED listingVars
    PROVE  TradeIInv'
<1> DEFINE o == txs[t].order
<1>1. o \in Orders
  BY OpenTx DEF CancelWrite, Is
<1>2. orders' = [orders EXCEPT ![o] = [status |-> "CANCELLED", transfer |-> orders[o].transfer]]
  BY <1>1, BecomesStatus DEF CancelWrite
<1>3. UNCHANGED <<requests, licences, refunds, wallet, purse>> /\ Close(t)
  BY DEF CancelWrite
<1>4. ListingIInv'
  BY IdleKeepsIInv DEF TradeIInv
<1> HIDE DEF o
<1> QED BY <1>1, <1>2, <1>3, <1>4, Types, StatusKeepsIInv

LEMMA ApproveWriteKeepsIInv ==
    ASSUME TradeIInv, NEW t \in Txs, ApproveWrite(t), UNCHANGED listingVars
    PROVE  TradeIInv'
<1> DEFINE o == txs[t].order
<1>1. o \in Orders
  BY OpenTx DEF ApproveWrite, Is
<1>2. orders' = [orders EXCEPT ![o] = [status |-> "PENDING_PAYMENT",
                                       transfer |-> orders[o].transfer]]
  BY <1>1, BecomesStatus DEF ApproveWrite
<1>3. UNCHANGED <<licences, refunds, wallet, purse>> /\ Close(t)
  BY DEF ApproveWrite
<1>4. requests' \in [Orders -> PurchaseRequestStatus \cup {"NONE"}]
  BY Types DEF ApproveWrite, PurchaseRequestStatus
<1>5. ListingIInv'
  BY IdleKeepsIInv DEF TradeIInv
<1> HIDE DEF o
<1> QED BY <1>1, <1>2, <1>3, <1>4, <1>5, Types, StatusKeepsIInv

LEMMA ExpireWriteKeepsIInv ==
    ASSUME TradeIInv, NEW t \in Txs, ExpireWrite(t)
    PROVE  TradeIInv'
<1> DEFINE o == txs[t].order
<1>1. o \in Orders
  BY OpenTx DEF ExpireWrite, Is
<1>2. orders' = [orders EXCEPT ![o] = [status |-> "EXPIRED", transfer |-> orders[o].transfer]]
  BY <1>1, BecomesStatus DEF ExpireWrite
<1>3. UNCHANGED <<requests, licences, refunds, wallet, purse>> /\ Close(t)
  BY DEF ExpireWrite
<1>4. ListingIInv'
  BY <1>1, OrderChangeKeepsIInv DEF TradeIInv, ExpireWrite, OrderChange
<1> HIDE DEF o
<1> QED BY <1>1, <1>2, <1>3, <1>4, Types, StatusKeepsIInv

\* Time and the edits of the listing.
LEMMA ListingStepKeepsIInv ==
    ASSUME TradeIInv, UNCHANGED tradeVars, ListingIInv'
    PROVE  TradeIInv'
<1>1. UNCHANGED <<orders, requests, licences, refunds, wallet, purse, txs>>
  BY DEF tradeVars
<1>2. Grows
  BY <1>1 DEF Grows
<1>3. RowsOK'
  BY <1>1, Types DEF RowsOK
<1>4. \A o \in Orders : OrderOK(o)'
  BY <1>1 DEF TradeIInv, OrderOK, PaidFor, GivenBack
<1>5. \A r \in Refunds : RefundOK(r)'
  BY <1>1 DEF TradeIInv, RefundOK, PaidFor
<1> QED BY <1>1, <1>2, <1>3, <1>4, <1>5, GrowingKeepsIInv

LEMMA GoesTo ==
    ASSUME TradeIInv, NEW t \in Txs, txs[t] # Closed, NEW at \in {"locked", "done", "failed"},
           Goes(t, at)
    PROVE  \E tx \in Opened :
              /\ txs' = [txs EXCEPT ![t] = tx] /\ tx # Closed /\ tx.at = at
              /\ tx.op = txs[t].op /\ tx.order = txs[t].order /\ tx.refund = txs[t].refund
<1> DEFINE old == txs[t]
           tx == [old EXCEPT !.at = at]
<1>1. old \in Opened
  BY OpenTx
<1>2. txs' = [txs EXCEPT ![t] = tx]
  BY Types DEF Goes
<1>3. old # Closed
  OBVIOUS
<1> HIDE DEF old
<1>4. /\ tx \in Opened /\ tx.at = at /\ tx.op = old.op /\ tx.order = old.order
      /\ tx.refund = old.refund
  BY <1>1 DEF Opened
<1>5. tx # Closed
  <2>1. "at" \in DOMAIN tx /\ "at" \notin DOMAIN Closed
    BY <1>1 DEF Opened, Closed
  <2> QED BY <2>1
<1> HIDE DEF tx
<1> QED BY <1>2, <1>4, <1>5 DEF old

\* A step of the wallet for one order, which changes nothing else but a
\* transaction: it charges the order, releases it, or reverses it on request.
LEMMA WalletKeepsIInv ==
    ASSUME TradeIInv, NEW o \in Orders, NEW new \in Transfers,
           wallet' = [wallet EXCEPT ![o] = new],
           wallet[o].charged => new.charged,
           wallet[o].reversed => new.reversed,
           new.reversed => wallet[o].reversed \/ \E r \in Refunds : refunds[r].order = o,
           UNCHANGED <<orders, requests, licences, refunds, purse>>, UNCHANGED listingVars,
           \E t \in Txs : \E tx \in Opened \cup {Closed} :
              txs' = [txs EXCEPT ![t] = tx] /\ Supported(tx)'
    PROVE  TradeIInv'
<1>1. ListingIInv'
  BY IdleKeepsIInv DEF TradeIInv
<1>2. /\ wallet' \in [Orders -> Transfers] /\ wallet'[o] = new
      /\ \A p \in Orders : p # o => wallet'[p] = wallet[p]
  BY Types
<1>3. Grows
  BY <1>2 DEF Grows
<1>4. RowsOK'
  BY <1>2, Types DEF RowsOK
<1>5. \A p \in Orders : OrderOK(p)'
  <2> TAKE p \in Orders
  <2>1. OrderOK(p)
    BY DEF TradeIInv
  <2>2. /\ wallet[p].charged => wallet'[p].charged
        /\ wallet[p].reversed => wallet'[p].reversed
        /\ wallet'[p].reversed => wallet[p].reversed \/ \E r \in Refunds : refunds[r].order = p
    BY <1>2
  <2> QED BY <2>1, <2>2 DEF OrderOK, PaidFor, GivenBack
<1>6. \A r \in Refunds : RefundOK(r)'
  BY DEF TradeIInv, RefundOK, PaidFor
<1> QED BY <1>1, <1>3, <1>4, <1>5, <1>6, GrowingKeepsIInv

LEMMA PayCallKeepsIInv ==
    ASSUME TradeIInv, NEW t \in Txs, PayCall(t), UNCHANGED listingVars
    PROVE  TradeIInv'
<1> DEFINE o == txs[t].order
           old == wallet[o]
           new == [old EXCEPT !.charged = TRUE]
<1>1. /\ txs[t] # Closed /\ txs[t].op = "pay" /\ o \in Orders /\ Supported(txs[t])
      /\ UNCHANGED <<orders, requests, licences, refunds, purse>>
  BY OpenTx DEF PayCall, Is
<1>2. old \in Transfers /\ cents[o] > 0
  BY <1>1, Types DEF Supported
<1>3. /\ new \in Transfers /\ new.charged /\ new.reversed = old.reversed
  BY <1>2 DEF Transfers
<1>4. PICK at \in {"done", "failed"} :
        /\ Goes(t, at)
        /\ wallet' = [wallet EXCEPT ![o] = new] \/ (at = "failed" /\ wallet' = wallet)
  BY DEF PayCall
<1>5. PICK tx \in Opened :
        /\ txs' = [txs EXCEPT ![t] = tx] /\ tx.at = at
        /\ tx.op = "pay" /\ tx.order = o
  BY <1>1, <1>4, GoesTo
<1> HIDE DEF new
<1>6. wallet' = [wallet EXCEPT ![o] = IF wallet' = wallet THEN old ELSE new]
  BY <1>1, <1>4, Types
<1>7. Supported(tx)'
  <2>1. at = "done" => wallet'[o].charged
    BY <1>1, <1>3, <1>4, Types
  <2> QED BY <1>2, <1>5, <2>1 DEF Supported
<1> DEFINE row == IF wallet' = wallet THEN old ELSE new
<1>8. /\ row \in Transfers /\ (old.charged => row.charged) /\ row.reversed = old.reversed
  BY <1>2, <1>3
<1> HIDE DEF row, old
<1>9. wallet' = [wallet EXCEPT ![o] = row]
  BY <1>6 DEF row
<1> QED BY <1>1, <1>5, <1>7, <1>8, <1>9, WalletKeepsIInv DEF old

LEMMA RefundCallKeepsIInv ==
    ASSUME TradeIInv, NEW t \in Txs, RefundCall(t), UNCHANGED listingVars
    PROVE  TradeIInv'
<1> DEFINE o == txs[t].order
           old == wallet[o]
           new == [old EXCEPT !.reversed = TRUE]
<1>1. /\ txs[t] # Closed /\ txs[t].op = "refund" /\ o \in Orders /\ Supported(txs[t])
      /\ UNCHANGED <<orders, requests, licences, refunds, purse>>
  BY OpenTx DEF RefundCall, Is
<1>2. old \in Transfers /\ txs[t].refund \in Refunds /\ refunds[txs[t].refund].order = o
  BY <1>1, Types DEF Supported
<1>3. new \in Transfers /\ new.reversed /\ new.charged = old.charged
  BY <1>2 DEF Transfers
<1>4. PICK at \in {"done", "failed"} :
        /\ Goes(t, at)
        /\ \/ wallet' = [wallet EXCEPT ![o] = new]
           \/ wallet' = wallet /\ (at = "done" => ~orders[o].transfer)
  BY DEF RefundCall
<1>5. PICK tx \in Opened :
        /\ txs' = [txs EXCEPT ![t] = tx] /\ tx.at = at
        /\ tx.op = "refund" /\ tx.order = o /\ tx.refund = txs[t].refund
  BY <1>1, <1>4, GoesTo
<1> HIDE DEF new
<1> DEFINE row == IF wallet' = wallet THEN old ELSE new
<1>6. wallet' = [wallet EXCEPT ![o] = row]
  BY <1>1, <1>4, Types
<1>7. at = "done" => cents[o] = 0 \/ wallet'[o].reversed
  <2>1. CASE wallet' = [wallet EXCEPT ![o] = new]
    BY <1>1, <1>3, <2>1, Types
  <2>2. CASE wallet' = wallet /\ (at = "done" => ~orders[o].transfer)
    <3>1. RefundOK(txs[t].refund)
      BY <1>2 DEF TradeIInv
    <3>2. PaidFor(o)
      BY <1>1, <1>2, <3>1, ListingAssumption DEF RefundOK
    <3> QED BY <2>2, <3>2 DEF PaidFor
  <2> QED BY <1>4, <2>1, <2>2
<1>8. Supported(tx)'
  BY <1>1, <1>2, <1>5, <1>7 DEF Supported, GivenBack
<1>9. /\ row \in Transfers /\ (old.reversed => row.reversed) /\ row.charged = old.charged
      /\ \E r \in Refunds : refunds[r].order = o
  BY <1>2, <1>3
<1> HIDE DEF row, old
<1> QED BY <1>1, <1>5, <1>6, <1>8, <1>9, WalletKeepsIInv DEF old

LEMMA SettleCallKeepsIInv ==
    ASSUME TradeIInv, NEW t \in Txs, SettleCall(t), UNCHANGED listingVars
    PROVE  TradeIInv'
<1> DEFINE o == txs[t].order
           old == wallet[o]
           new == [old EXCEPT !.released = TRUE]
<1>1. /\ txs[t] # Closed /\ o \in Orders /\ wallet' = [wallet EXCEPT ![o] = new]
      /\ txs' = [txs EXCEPT ![t] = Closed]
      /\ UNCHANGED <<orders, requests, licences, refunds, purse>>
  BY OpenTx DEF SettleCall, Is, Close
<1>2. old \in Transfers
  BY <1>1, Types
<1>3. new \in Transfers /\ new.charged = old.charged /\ new.reversed = old.reversed
  BY <1>2 DEF Transfers
<1>4. Supported(Closed)'
  BY DEF Supported
<1> HIDE DEF new
<1> QED BY <1>1, <1>3, <1>4, WalletKeepsIInv

LEMMA CreateKeepsIInv ==
    ASSUME TradeIInv, NEW o \in Orders, Create(o)
    PROVE  TradeIInv'
<1> DEFINE s == IF cents[o] = 0 THEN "FULFILLED" ELSE "PENDING_PAYMENT"
           row == orders[o]
           new == [row EXCEPT !.status = s]
<1>1. /\ Personal(o) /\ row.status = "NONE" /\ licences[o] = "NONE"
      /\ UNCHANGED <<requests, refunds, wallet, purse, txs, edits, lapsed, approvals>>
  BY DEF Create, TradeIInv, OrderOK
<1>2. ListingIInv'
  BY OrderChangeKeepsIInv, IdleKeepsIInv DEF Create, OrderChange, TradeIInv, listingVars
<1>3. orders' = [orders EXCEPT ![o] = new]
  BY <1>1, Types DEF Create
<1> PICK licence \in {"ACTIVE", "NONE"} :
      /\ licences' = [licences EXCEPT ![o] = licence]
      /\ licence = "ACTIVE" => cents[o] = 0
  BY <1>1 DEF Create, Delivered
<1>4. row \in [status : OrderStatus \cup {"NONE"}, transfer : BOOLEAN]
  BY Types
<1> HIDE DEF row
<1>5. /\ new \in [status : OrderStatus \cup {"NONE"}, transfer : BOOLEAN]
      /\ new.status = s /\ new.transfer = row.transfer
  BY <1>4 DEF OrderStatus
<1> HIDE DEF new
<1>6. /\ orders'[o] = new /\ licences'[o] = licence
      /\ \A p \in Orders : p # o => orders'[p] = orders[p] /\ licences'[p] = licences[p]
  BY <1>3, Types
<1>7. Grows
  BY <1>1, <1>5, <1>6 DEF Grows, row
<1>8. RowsOK'
  BY <1>1, <1>3, <1>5, Types DEF RowsOK, EntitlementStatus
<1>9. \A p \in Orders : OrderOK(p)'
  <2> TAKE p \in Orders
  <2>1. OrderOK(p)
    BY DEF TradeIInv
  <2> QED BY <1>1, <1>5, <1>6, <2>1 DEF OrderOK, PaidFor, GivenBack, Personal, row
<1>10. \A r \in Refunds : RefundOK(r)'
  <2> TAKE r \in Refunds
  <2>1. RefundOK(r) /\ refunds[r].order \in Orders \cup {NoOrder}
    BY Types DEF TradeIInv
  <2>2. refunds[r].order # o
    BY <1>1, <2>1, ListingAssumption DEF RefundOK, row
  <2> QED BY <1>1, <1>6, <2>1, <2>2 DEF RefundOK, PaidFor
<1> QED BY <1>1, <1>2, <1>7, <1>8, <1>9, <1>10, GrowingKeepsIInv

LEMMA PayCommitKeepsIInv ==
    ASSUME TradeIInv, NEW t \in Txs, PayCommit(t), UNCHANGED listingVars
    PROVE  TradeIInv'
<1>1. PICK o \in Orders : o = txs[t].order
  BY OpenTx DEF PayCommit, Is
<1>2. /\ cents[o] > 0 /\ wallet[o].charged
  BY <1>1, OpenTx DEF PayCommit, Is, Supported
<1>3. /\ orders' = [orders EXCEPT ![o] = [status |-> "FULFILLED", transfer |-> TRUE]]
      /\ Close(t) /\ UNCHANGED <<requests, refunds, wallet>>
  BY <1>1 DEF PayCommit
<1> PICK licence \in Delivered(o) : licences' = [licences EXCEPT ![o] = licence]
  BY <1>1 DEF PayCommit
<1>4. purse' \in [{Workspace} -> Budget!Purses]
  BY <1>1, Types, BudgetKeepsType DEF PayCommit
<1>5. ListingIInv'
  BY IdleKeepsIInv DEF TradeIInv
<1>6. /\ orders'[o].status = "FULFILLED" /\ orders'[o].transfer /\ licences'[o] = licence
      /\ \A p \in Orders : p # o => orders'[p] = orders[p] /\ licences'[p] = licences[p]
  BY <1>3, Types
<1>7. licence = licences[o] \/ (licence = "ACTIVE" /\ Personal(o) /\ licences[o] = "NONE")
  BY DEF Delivered
<1>8. Grows
  BY <1>3, <1>6 DEF Grows
<1>9. RowsOK'
  BY <1>3, <1>4, <1>7, Types DEF RowsOK, OrderStatus, EntitlementStatus
<1>10. \A p \in Orders : OrderOK(p)'
  <2> TAKE p \in Orders
  <2>1. OrderOK(p)
    BY DEF TradeIInv
  <2>2. CASE p = o
    BY <1>2, <1>3, <1>6, <1>7, <2>1, <2>2 DEF OrderOK, PaidFor, GivenBack, Personal
  <2>3. CASE p # o
    BY <1>3, <1>6, <2>1, <2>3 DEF OrderOK, PaidFor, GivenBack, Personal
  <2> QED BY <2>2, <2>3
<1>11. \A r \in Refunds : RefundOK(r)'
  <2> TAKE r \in Refunds
  <2>1. RefundOK(r) /\ refunds[r].order \in Orders \cup {NoOrder}
    BY Types DEF TradeIInv
  <2>2. CASE refunds[r].order = o
    BY <1>3, <1>6, <1>7, <2>1, <2>2 DEF RefundOK, PaidFor
  <2>3. CASE refunds[r].order # o
    BY <1>3, <1>6, <2>1, <2>3 DEF RefundOK, PaidFor
  <2> QED BY <2>2, <2>3
<1>12. \E u \in Txs : \E tx \in Opened \cup {Closed} :
          txs' = [txs EXCEPT ![u] = tx] /\ Supported(tx)'
  BY <1>3 DEF Close, Supported
<1> QED BY <1>5, <1>8, <1>9, <1>10, <1>11, <1>12, GrowingKeepsIInv

\* A step of a refund writes the licences that are there, and gives none.
LEMMA LicencesWritten ==
    ASSUME TradeIInv, NEW o \in Orders, NEW s \in {"REFUND_LOCKED", "REVOKED"}, SetLicence(o, s)
    PROVE  /\ licences' \in [Orders -> EntitlementStatus \cup {"NONE"}]
           /\ \A p \in Orders : \/ licences'[p] = licences[p]
                                \/ licences[p] # "NONE" /\ licences'[p] = s
           /\ licences[o] # "NONE" => licences'[o] = s
BY Types DEF SetLicence, FoundLicences, SameWorkspace, EntitlementStatus

\* A step of a refund: the order shows it, and so do its licence and request.
LEMMA RefundStepKeepsIInv ==
    ASSUME TradeIInv, NEW o \in Orders, NEW t \in Txs, Close(t),
           NEW os \in {"REFUND_REQUESTED", "REFUNDED"},
           NEW ls \in {"REFUND_LOCKED", "REVOKED"},
           NEW r \in Refunds, NEW rs \in {"REQUESTED", "REFUNDED"},
           orders' = [orders EXCEPT ![o] = [status |-> os, transfer |-> orders[o].transfer]],
           SetLicence(o, ls),
           refunds' = [refunds EXCEPT ![r] = [order |-> o, status |-> rs]],
           refunds[r].order \in {NoOrder, o},
           PaidFor(o), os = "REFUNDED" => GivenBack(o),
           UNCHANGED <<requests, wallet>>,
           purse' \in [{Workspace} -> Budget!Purses],
           ListingIInv'
    PROVE  TradeIInv'
<1>1. /\ orders'[o].status = os /\ orders'[o].transfer = orders[o].transfer
      /\ \A p \in Orders : p # o => orders'[p] = orders[p]
  BY Types
<1>2. /\ licences' \in [Orders -> EntitlementStatus \cup {"NONE"}]
      /\ \A p \in Orders : \/ licences'[p] = licences[p]
                           \/ licences[p] # "NONE" /\ licences'[p] = ls
      /\ licences[o] # "NONE" => licences'[o] = ls
  BY LicencesWritten
<1>3. refunds'[r].order = o /\ \A q \in Refunds : q # r => refunds'[q] = refunds[q]
  BY Types
<1>4. Grows
  BY <1>1, <1>2, <1>3 DEF Grows
<1>5. RowsOK'
  BY <1>2, Types DEF RowsOK, OrderStatus
<1>6. \A p \in Orders : PaidFor(p)' = PaidFor(p) /\ GivenBack(p)' = GivenBack(p)
  BY <1>1 DEF PaidFor, GivenBack
<1>7. \A p \in Orders : OrderOK(p)'
  <2> TAKE p \in Orders
  <2>1. OrderOK(p)
    BY DEF TradeIInv
  <2>2. wallet'[p].reversed => \E q \in Refunds : refunds'[q].order = p
    <3> SUFFICES ASSUME wallet[p].reversed PROVE \E q \in Refunds : refunds'[q].order = p
      OBVIOUS
    <3>1. PICK q \in Refunds : refunds[q].order = p
      BY <2>1 DEF OrderOK
    <3>2. p # NoOrder
      BY ListingAssumption
    <3> QED BY <1>3, <3>1, <3>2
  <2>3. CASE p = o
    BY <1>1, <1>2, <1>6, <2>1, <2>2, <2>3 DEF OrderOK, Personal
  <2>4. CASE p # o
    BY <1>1, <1>2, <1>6, <2>1, <2>2, <2>4 DEF OrderOK, Personal
  <2> QED BY <2>3, <2>4
<1>8. \A q \in Refunds : RefundOK(q)'
  <2> TAKE q \in Refunds
  <2>1. RefundOK(q) /\ refunds[q].order \in Orders \cup {NoOrder}
    BY Types DEF TradeIInv
  <2>2. CASE refunds'[q].order = o
    BY <1>1, <1>6, <2>2 DEF RefundOK
  <2>3. CASE refunds'[q].order # o
    <3>1. refunds'[q] = refunds[q]
      BY <1>3, <2>3
    <3> QED BY <1>1, <1>2, <1>6, <2>1, <2>3, <3>1 DEF RefundOK
  <2> QED BY <2>2, <2>3
<1>9. \E u \in Txs : \E tx \in Opened \cup {Closed} :
          txs' = [txs EXCEPT ![u] = tx] /\ Supported(tx)'
  BY DEF Close, Supported
<1> QED BY <1>4, <1>5, <1>7, <1>8, <1>9, GrowingKeepsIInv

LEMMA RequestWriteKeepsIInv ==
    ASSUME TradeIInv, NEW t \in Txs, NEW r \in Refunds, RequestWrite(t, r), UNCHANGED listingVars
    PROVE  TradeIInv'
<1>1. PICK o \in Orders : o = txs[t].order
  BY OpenTx DEF RequestWrite, Is
<1>2. PaidFor(o)
  BY <1>1, OpenTx DEF RequestWrite, Is, Supported
<1>3. orders' = [orders EXCEPT ![o] = [status |-> "REFUND_REQUESTED",
                                       transfer |-> orders[o].transfer]]
  BY <1>1, BecomesStatus DEF RequestWrite
<1>4. /\ Close(t) /\ SetLicence(o, "REFUND_LOCKED")
      /\ refunds' = [refunds EXCEPT ![r] = [order |-> o, status |-> "REQUESTED"]]
      /\ refunds[r].order = NoOrder /\ UNCHANGED <<requests, wallet, purse>>
  BY <1>1 DEF RequestWrite
<1>5. ListingIInv'
  BY IdleKeepsIInv DEF TradeIInv
<1> QED BY <1>2, <1>3, <1>4, <1>5, Types, RefundStepKeepsIInv

LEMMA RefundCommitKeepsIInv ==
    ASSUME TradeIInv, NEW t \in Txs, RefundCommit(t)
    PROVE  TradeIInv'
<1>1. PICK o \in Orders, r \in Refunds : o = txs[t].order /\ r = txs[t].refund
  BY OpenTx DEF RefundCommit, Is, Supported
<1>2. refunds[r].order = o /\ GivenBack(o)
  BY <1>1, OpenTx DEF RefundCommit, Is, Supported
<1>3. PaidFor(o)
  BY <1>2, ListingAssumption DEF TradeIInv, RefundOK
<1>4. orders' = [orders EXCEPT ![o] = [status |-> "REFUNDED", transfer |-> orders[o].transfer]]
  BY <1>1, BecomesStatus DEF RefundCommit
<1>5. /\ Close(t) /\ SetLicence(o, "REVOKED") /\ UNCHANGED <<requests, wallet>>
      /\ refunds' = [refunds EXCEPT ![r].status = "REFUNDED"]
  BY <1>1 DEF RefundCommit
<1>6. refunds' = [refunds EXCEPT ![r] = [order |-> o, status |-> "REFUNDED"]]
  <2> DEFINE row == refunds[r]
  <2>1. row \in [order : Orders \cup {NoOrder}, status : {"NONE", "REQUESTED", "REFUNDED"}]
    BY <1>2, Types
  <2>2. refunds' = [refunds EXCEPT ![r] = [row EXCEPT !.status = "REFUNDED"]]
    BY <1>5
  <2>3. row.order = o
    BY <1>2
  <2> HIDE DEF row
  <2>4. [row EXCEPT !.status = "REFUNDED"] = [order |-> o, status |-> "REFUNDED"]
    BY <2>1, <2>3
  <2> QED BY <2>2, <2>4
<1>7. purse' \in [{Workspace} -> Budget!Purses]
  BY <1>1, Types, BudgetKeepsType DEF RefundCommit
<1>8. ListingIInv'
  BY <1>1, OrderChangeKeepsIInv DEF TradeIInv, RefundCommit, OrderChange
<1> QED BY <1>2, <1>3, <1>4, <1>5, <1>6, <1>7, <1>8, RefundStepKeepsIInv

LEMMA InitTradeIInv == Init => TradeIInv
<1> SUFFICES ASSUME Init PROVE TradeIInv
  OBVIOUS
<1>1. ListingIInv
  <2>1. CASE ListingInit
    BY <2>1, InitListingIInv
  <2>2. CASE Approved
    <3>1. listing \in Listings /\ listing.holder = NoOrder
      BY <2>2 DEF Approved, Listings, ListingStatus, ReviewStatus
    <3>2. \A e \in Edits : ~edits[e].open
      BY <2>2 DEF Approved, NoEdit
    <3>3. ListingTypeOK
      BY <2>2, <3>1 DEF Approved, ListingTypeOK
    <3> QED
      BY <2>2, <3>1, <3>2, <3>3 DEF Approved, ListingIInv, Unheld, NothingOnSale
  <2> QED
    BY <2>1, <2>2 DEF Init
<1>2. purse \in [{Workspace} -> Budget!Purses]
  BY TradeAssumption DEF Init, Budget!Purses
<1>3. /\ orders \in [Orders -> [status : OrderStatus \cup {"NONE"}, transfer : BOOLEAN]]
      /\ requests \in [Orders -> PurchaseRequestStatus \cup {"NONE"}]
      /\ licences \in [Orders -> EntitlementStatus \cup {"NONE"}]
      /\ refunds \in [Refunds -> [order : Orders \cup {NoOrder},
                                  status : {"NONE", "REQUESTED", "REFUNDED"}]]
      /\ wallet \in [Orders -> Transfers]
      /\ txs \in [Txs -> Opened \cup {Closed}]
  BY DEF Init, Transfers, NoTransfer
<1>4. TypeOK
  BY <1>1, <1>2, <1>3 DEF TypeOK, ListingIInv
<1>5. \A o \in Orders : OrderOK(o)
  BY DEF Init, OrderOK, NoTransfer
<1>6. \A r \in Refunds : RefundOK(r)
  BY DEF Init, RefundOK
<1>7. \A t \in Txs : Supported(txs[t])
  BY DEF Init, Supported
<1> QED BY <1>1, <1>4, <1>5, <1>6, <1>7 DEF TradeIInv

LEMMA ProceedKeepsIInv ==
    ASSUME TradeIInv, NEW t \in Txs, Proceed(t)
    PROVE  TradeIInv'
<1>1. CASE OrderWrite(t) /\ UNCHANGED listingVars
  BY <1>1, PayLockKeepsIInv, PayCallKeepsIInv, PayCommitKeepsIInv, CancelWriteKeepsIInv,
     ApproveWriteKeepsIInv, RequestWriteKeepsIInv, RefundCallKeepsIInv, SettleCallKeepsIInv
     DEF OrderWrite
<1> QED BY <1>1, RefundCommitKeepsIInv, ExpireWriteKeepsIInv DEF Proceed

LEMMA TimeKeepsIInv ==
    ASSUME TradeIInv, NEW o \in Orders, Time(o)
    PROVE  TradeIInv'
BY LapseKeepsIInv, ListingStepKeepsIInv DEF Time, TradeIInv

LEMMA NextKeepsTradeIInv == TradeIInv /\ [Next]_vars => TradeIInv'
<1> SUFFICES ASSUME TradeIInv, [Next]_vars PROVE TradeIInv'
  OBVIOUS
<1>1. CASE \E o \in Orders : Create(o) \/ Submit(o) \/ Time(o)
  BY <1>1, CreateKeepsIInv, SubmitKeepsIInv, TimeKeepsIInv
<1>2. CASE \E o \in Orders : Reject(o) /\ UNCHANGED listingVars
  BY <1>2, RejectKeepsIInv
<1>3. CASE \E t \in Txs, o \in Orders : ReadStep(t, o) /\ UNCHANGED listingVars
  BY <1>3, OpeningKeepsIInv
<1>4. CASE \E t \in Txs, r \in Refunds : RefundLock(t, r) /\ UNCHANGED listingVars
  BY <1>4, RefundLockKeepsIInv
<1>5. CASE \E t \in Txs : Proceed(t) \/ (Abandon(t) /\ UNCHANGED listingVars)
  BY <1>5, ProceedKeepsIInv, AbandonKeepsIInv
<1>6. CASE EditStep /\ UNCHANGED tradeVars
  BY <1>6, EditStepKeepsIInv, ListingStepKeepsIInv DEF TradeIInv
<1>7. CASE UNCHANGED vars
  <2>1. UNCHANGED tradeVars /\ UNCHANGED listingVars
    BY <1>7 DEF vars, tradeVars, listingVars
  <2> QED BY <2>1, IdleKeepsIInv, ListingStepKeepsIInv DEF TradeIInv
<1> QED BY <1>1, <1>2, <1>3, <1>4, <1>5, <1>6, <1>7 DEF Next

\* The inductive invariant holds of every reachable state.
THEOREM TradeInvariantHolds == Spec => []TradeIInv
BY InitTradeIInv, NextKeepsTradeIInv, PTL DEF Spec

\* Orders, requests, licences, refunds, the wallet and the budget keep their
\* types; in particular the budget never shows a negative amount.
THEOREM TradeTypeCorrect == Spec => []TypeOK
<1>1. TradeIInv => TypeOK
  BY DEF TradeIInv
<1> QED BY <1>1, TradeInvariantHolds, PTL

\* OrderService.pay and RefundService.request: whatever answers get lost and
\* however operations overlap, a fulfilled order was charged.
THEOREM FulfilledWasPaid == Spec => []FulfilledIsPaid
<1>1. TradeIInv => FulfilledIsPaid
  BY Types DEF TradeIInv, FulfilledIsPaid, OrderOK, PaidFor
<1> QED BY <1>1, TradeInvariantHolds, PTL

\* RefundService.approve: an order that shows as refunded has its money back.
THEOREM RefundedWasReversed == Spec => []RefundedIsReversed
<1>1. TradeIInv => RefundedIsReversed
  <2> SUFFICES ASSUME TradeIInv, NEW o \in Orders,
                      orders[o].status = "REFUNDED", orders[o].transfer
               PROVE  wallet[o].reversed
    BY DEF RefundedIsReversed
  <2>1. OrderOK(o) /\ cents[o] \in Nat
    BY Types DEF TradeIInv
  <2> QED BY <2>1 DEF OrderOK, GivenBack
<1> QED BY <1>1, TradeInvariantHolds, PTL

\* ListingService under the orders that reserve, release and restore the listing: what
\* buyers can order was approved, whichever edits and orders overlap.
THEOREM SoldWasApproved == Spec => []OnSaleWasApproved
<1>1. TradeIInv => OnSaleWasApproved
  BY DEF TradeIInv, ListingIInv, NothingOnSale, OnSaleRow, OnSaleWasApproved, OnSale
<1> QED BY <1>1, TradeInvariantHolds, PTL
-----------------------------------------------------------------------------
(* Delivery: a second layer over the invariant above.  The wallet takes    *)
(* the money of an order for one payment only, so there is at most one     *)
(* payment under way that may still deliver, and its order has no transfer *)
(* number and no licence yet.  An order whose refund is asked for has a    *)
(* transfer number, so no payment delivers it again; and its request finds *)
(* its licence, alone, or fails.                                           *)

\* The wallet has taken the money for the payment t.
PaymentDone(t) == txs[t] # Closed /\ txs[t].op = "pay" /\ txs[t].at = "done"

DeliveryIInv ==
    /\ TradeIInv
    /\ \A o \in Orders : licences[o] # "NONE" => PaidFor(o)
    /\ RefundStopsUse
    /\ \A t \in Txs : PaymentDone(t) => ~orders[txs[t].order].transfer
    /\ \A t, u \in Txs : PaymentDone(t) /\ PaymentDone(u) /\ txs[t].order = txs[u].order
                            => t = u

\* No payment is done that was not before.
NoPaymentDone == \A t \in Txs : PaymentDone(t)' => PaymentDone(t) /\ txs'[t] = txs[t]

LEMMA OneMoves ==
    ASSUME TradeIInv, NEW t \in Txs, NEW tx \in Opened \cup {Closed},
           txs' = [txs EXCEPT ![t] = tx],
           tx = Closed \/ tx.op # "pay" \/ tx.at # "done"
    PROVE  NoPaymentDone
BY Types DEF NoPaymentDone, PaymentDone

LEMMA OneCloses ==
    ASSUME TradeIInv, NEW t \in Txs, Close(t)
    PROVE  NoPaymentDone /\ ~PaymentDone(t)'
BY Types DEF Close, NoPaymentDone, PaymentDone

\* A step that neither delivers nor asks for a refund.
LEMMA PlainKeepsDelivery ==
    ASSUME DeliveryIInv, TradeIInv', NoPaymentDone, UNCHANGED <<licences, refunds>>,
           \A o \in Orders : orders'[o].transfer = orders[o].transfer
    PROVE  DeliveryIInv'
<1>1. \A o \in Orders : licences'[o] # "NONE" => PaidFor(o)'
  BY DEF DeliveryIInv, PaidFor
<1>2. RefundStopsUse'
  BY DEF DeliveryIInv, RefundStopsUse
<1>3. \A t \in Txs : PaymentDone(t)' => ~orders'[txs'[t].order].transfer
  <2> SUFFICES ASSUME NEW t \in Txs, PaymentDone(t)'
               PROVE  ~orders'[txs'[t].order].transfer
    OBVIOUS
  <2>1. PaymentDone(t) /\ txs'[t] = txs[t]
    BY DEF NoPaymentDone
  <2>2. txs[t].order \in Orders
    BY <2>1, OpenTx DEF PaymentDone, DeliveryIInv
  <2> QED BY <2>1, <2>2 DEF DeliveryIInv
<1>4. \A t, u \in Txs : PaymentDone(t)' /\ PaymentDone(u)' /\ txs'[t].order = txs'[u].order
                           => t = u
  BY DEF NoPaymentDone, DeliveryIInv
<1> QED BY <1>1, <1>2, <1>3, <1>4 DEF DeliveryIInv

LEMMA StatusWritten ==
    ASSUME TradeIInv, NEW o \in Orders, NEW s, Becomes(o, s, FALSE)
    PROVE  /\ orders'[o].status = s
           /\ \A p \in Orders : orders'[p].transfer = orders[p].transfer
           /\ \A p \in Orders : p # o => orders'[p] = orders[p]
<1>1. orders' = [orders EXCEPT ![o] = [status |-> s, transfer |-> orders[o].transfer]]
  BY BecomesStatus
<1> QED BY <1>1, Types

LEMMA StatusKeepsDelivery ==
    ASSUME DeliveryIInv, TradeIInv', NoPaymentDone, UNCHANGED <<licences, refunds>>,
           NEW o \in Orders, NEW s, Becomes(o, s, FALSE)
    PROVE  DeliveryIInv'
<1>1. \A p \in Orders : orders'[p].transfer = orders[p].transfer
  BY StatusWritten DEF DeliveryIInv
<1> QED BY <1>1, PlainKeepsDelivery

LEMMA CreateKeepsDelivery ==
    ASSUME DeliveryIInv, TradeIInv', NEW o \in Orders, Create(o)
    PROVE  DeliveryIInv'
<1>1. /\ TradeIInv /\ UNCHANGED <<txs, refunds>>
      /\ Personal(o) /\ orders[o].status = "NONE" /\ licences[o] = "NONE"
  BY DEF Create, DeliveryIInv, TradeIInv, OrderOK
<1>2. PICK licence \in {"ACTIVE", "NONE"} :
        /\ licences' = [licences EXCEPT ![o] = licence]
        /\ licence = "ACTIVE" => cents[o] = 0
  BY <1>1 DEF Create, Delivered
<1>3. /\ orders \in [Orders -> [status : OrderStatus \cup {"NONE"}, transfer : BOOLEAN]]
      /\ licences \in [Orders -> EntitlementStatus \cup {"NONE"}]
  BY <1>1, Types
<1>4. orders[o] \in [status : OrderStatus \cup {"NONE"}, transfer : BOOLEAN]
  BY <1>3
<1>5. /\ licences'[o] = licence /\ orders'[o].transfer = orders[o].transfer
      /\ \A p \in Orders : p # o => orders'[p] = orders[p] /\ licences'[p] = licences[p]
  BY <1>2, <1>3, <1>4 DEF Create
<1>6. \A p \in Orders : licences'[p] # "NONE" => PaidFor(p)'
  BY <1>2, <1>5 DEF DeliveryIInv, PaidFor
<1>7. RefundStopsUse'
  <2> SUFFICES ASSUME NEW r \in Refunds, refunds[r].order # NoOrder
               PROVE  licences'[refunds[r].order] # "ACTIVE"
    BY <1>1 DEF RefundStopsUse
  <2>1. refunds[r].order \in Orders /\ refunds[r].order # o
    BY <1>1, Types DEF TradeIInv, RefundOK
  <2> QED BY <1>5, <2>1 DEF DeliveryIInv, RefundStopsUse
<1>8. \A t \in Txs : PaymentDone(t)' => ~orders'[txs'[t].order].transfer
  BY <1>1, <1>5, OpenTx DEF DeliveryIInv, PaymentDone
<1>9. \A t, u \in Txs : PaymentDone(t)' /\ PaymentDone(u)' /\ txs'[t].order = txs'[u].order
                           => t = u
  BY <1>1 DEF DeliveryIInv, PaymentDone
<1> QED BY <1>6, <1>7, <1>8, <1>9 DEF DeliveryIInv

LEMMA SubmitKeepsDelivery ==
    ASSUME DeliveryIInv, TradeIInv', NEW o \in Orders, Submit(o)
    PROVE  DeliveryIInv'
<1>1. TradeIInv /\ UNCHANGED <<txs, licences, refunds>>
  BY DEF Submit, DeliveryIInv
<1>2. orders[o] \in [status : OrderStatus \cup {"NONE"}, transfer : BOOLEAN]
  BY <1>1, Types
<1>3. /\ orders'[o].transfer = orders[o].transfer
      /\ \A p \in Orders : p # o => orders'[p] = orders[p]
  BY <1>1, <1>2, Types DEF Submit
<1>4. NoPaymentDone
  BY <1>1 DEF NoPaymentDone, PaymentDone
<1> QED BY <1>1, <1>3, <1>4, PlainKeepsDelivery

LEMMA PayCallKeepsDelivery ==
    ASSUME DeliveryIInv, TradeIInv', NEW t \in Txs, PayCall(t)
    PROVE  DeliveryIInv'
<1>1. /\ TradeIInv /\ txs[t] # Closed /\ txs[t].op = "pay"
      /\ UNCHANGED <<orders, licences, refunds>>
  BY DEF PayCall, Is, DeliveryIInv
<1>2. PICK o \in Orders : o = txs[t].order
  BY <1>1, OpenTx
<1>3. CASE Goes(t, "failed")
  <2>1. PICK tx \in Opened : txs' = [txs EXCEPT ![t] = tx] /\ tx.at = "failed"
    BY <1>1, <1>3, GoesTo
  <2>2. NoPaymentDone
    BY <1>1, <2>1, OneMoves
  <2> QED BY <1>1, <2>2, PlainKeepsDelivery
<1>4. CASE ~wallet[o].charged /\ Goes(t, "done")
  <2>1. PICK tx \in Opened : /\ txs' = [txs EXCEPT ![t] = tx] /\ tx # Closed
                             /\ tx.at = "done" /\ tx.op = "pay" /\ tx.order = o
    BY <1>1, <1>2, <1>4, GoesTo
  <2>2. /\ txs'[t] = tx /\ \A u \in Txs : u # t => txs'[u] = txs[u]
    BY <1>1, <2>1, Types
  <2>3. ~orders[o].transfer
    BY <1>1, <1>4 DEF TradeIInv, OrderOK
  <2>4. \A u \in Txs : PaymentDone(u) => txs[u].order # o
    BY <1>1, <1>4, OpenTx DEF PaymentDone, Supported
  <2>5. \A o1 \in Orders : licences'[o1] # "NONE" => PaidFor(o1)'
    BY <1>1 DEF DeliveryIInv, PaidFor
  <2>6. RefundStopsUse'
    BY <1>1 DEF DeliveryIInv, RefundStopsUse
  <2>7. \A u \in Txs : PaymentDone(u)' => ~orders'[txs'[u].order].transfer
    BY <1>1, <2>1, <2>2, <2>3 DEF DeliveryIInv, PaymentDone
  <2>8. \A u, v \in Txs : PaymentDone(u)' /\ PaymentDone(v)' /\ txs'[u].order = txs'[v].order
                             => u = v
    BY <1>1, <2>1, <2>2, <2>4 DEF DeliveryIInv, PaymentDone
  <2> QED BY <2>5, <2>6, <2>7, <2>8 DEF DeliveryIInv
<1> QED BY <1>2, <1>3, <1>4 DEF PayCall

LEMMA PayCommitKeepsDelivery ==
    ASSUME DeliveryIInv, TradeIInv', NEW t \in Txs, PayCommit(t)
    PROVE  DeliveryIInv'
<1>1. TradeIInv /\ PaymentDone(t) /\ Close(t)
  BY DEF PayCommit, Is, DeliveryIInv, PaymentDone
<1>2. PICK o \in Orders : o = txs[t].order
  BY <1>1, OpenTx DEF PaymentDone
<1>3. /\ orders' = [orders EXCEPT ![o] = [status |-> "FULFILLED", transfer |-> TRUE]]
      /\ \E licence \in Delivered(o) : licences' = [licences EXCEPT ![o] = licence]
      /\ refunds' = refunds
  BY <1>2 DEF PayCommit
<1>4. /\ orders'[o].transfer
      /\ \A p \in Orders : p # o => orders'[p] = orders[p] /\ licences'[p] = licences[p]
  BY <1>1, <1>3, Types
<1>5. ~PaidFor(o)
  BY <1>1, <1>2, OpenTx DEF DeliveryIInv, PaidFor, PaymentDone, Supported
<1>6. \A p \in Orders : licences'[p] # "NONE" => PaidFor(p)'
  BY <1>4 DEF DeliveryIInv, PaidFor
<1>7. RefundStopsUse'
  <2> SUFFICES ASSUME NEW r \in Refunds, refunds[r].order # NoOrder
               PROVE  licences'[refunds[r].order] # "ACTIVE"
    BY <1>3 DEF RefundStopsUse
  <2>1. refunds[r].order \in Orders /\ refunds[r].order # o
    BY <1>1, <1>5, Types DEF TradeIInv, RefundOK
  <2> QED BY <1>4, <2>1 DEF DeliveryIInv, RefundStopsUse
<1>8. NoPaymentDone /\ ~PaymentDone(t)'
  BY <1>1, OneCloses
<1>9. \A u \in Txs : PaymentDone(u)' => ~orders'[txs'[u].order].transfer
  <2> SUFFICES ASSUME NEW u \in Txs, PaymentDone(u)'
               PROVE  ~orders'[txs'[u].order].transfer
    OBVIOUS
  <2>1. PaymentDone(u) /\ txs'[u] = txs[u] /\ u # t
    BY <1>8 DEF NoPaymentDone
  <2>2. txs[u].order \in Orders /\ txs[u].order # o
    BY <1>1, <1>2, <2>1, OpenTx DEF PaymentDone, DeliveryIInv
  <2> QED BY <1>4, <2>1, <2>2 DEF DeliveryIInv
<1>10. \A u, v \in Txs : PaymentDone(u)' /\ PaymentDone(v)' /\ txs'[u].order = txs'[v].order
                            => u = v
  BY <1>8 DEF NoPaymentDone, DeliveryIInv
<1> QED BY <1>6, <1>7, <1>9, <1>10 DEF DeliveryIInv

\* A step of a refund activates no licence.  The licence of its own order, if
\* there is one, is the one it writes.
LEMMA RefundStepKeepsDelivery ==
    ASSUME DeliveryIInv, TradeIInv', NEW t \in Txs, Close(t),
           NEW o \in Orders, NEW os, NEW ls \in {"REFUND_LOCKED", "REVOKED"},
           Becomes(o, os, FALSE), SetLicence(o, ls),
           \A r \in Refunds : refunds'[r].order \in {refunds[r].order, o}
    PROVE  DeliveryIInv'
<1>1. TradeIInv /\ NoPaymentDone
  BY OneCloses DEF DeliveryIInv
<1>2. \A p \in Orders : orders'[p].transfer = orders[p].transfer
  BY <1>1, StatusWritten
<1>3. /\ \A p \in Orders : licences'[p] \in {licences[p], ls}
      /\ \A p \in Orders : licences'[p] # "NONE" => licences[p] # "NONE"
      /\ licences[o] # "NONE" => licences'[o] = ls
  BY <1>1, LicencesWritten
<1>4. \A p \in Orders : licences'[p] # "NONE" => PaidFor(p)'
  BY <1>2, <1>3 DEF DeliveryIInv, PaidFor
<1>5. RefundStopsUse'
  <2> SUFFICES ASSUME NEW r \in Refunds, refunds'[r].order # NoOrder
               PROVE  licences'[refunds'[r].order] # "ACTIVE"
    BY DEF RefundStopsUse
  <2>1. CASE refunds'[r].order = o
    BY <1>3, <2>1
  <2>2. CASE refunds'[r].order # o
    <3>1. refunds'[r].order = refunds[r].order /\ refunds[r].order \in Orders
      BY <1>1, <2>2, Types
    <3> QED BY <1>3, <3>1 DEF DeliveryIInv, RefundStopsUse
  <2> QED BY <2>1, <2>2
<1>6. \A u \in Txs : PaymentDone(u)' => ~orders'[txs'[u].order].transfer
  BY <1>1, <1>2, OpenTx DEF NoPaymentDone, DeliveryIInv, PaymentDone
<1>7. \A u, v \in Txs : PaymentDone(u)' /\ PaymentDone(v)' /\ txs'[u].order = txs'[v].order
                           => u = v
  BY <1>1 DEF NoPaymentDone, DeliveryIInv
<1> QED BY <1>4, <1>5, <1>6, <1>7 DEF DeliveryIInv

LEMMA RefundsKeepDelivery ==
    ASSUME DeliveryIInv, TradeIInv', NEW t \in Txs,
           RefundCommit(t) \/ \E r \in Refunds : RequestWrite(t, r)
    PROVE  DeliveryIInv'
<1>1. TradeIInv /\ txs[t] # Closed /\ Close(t)
  BY DEF DeliveryIInv, RefundCommit, RequestWrite, Is
<1>2. PICK o \in Orders : o = txs[t].order
  BY <1>1, OpenTx
<1>3. CASE \E r \in Refunds : RequestWrite(t, r)
  <2>1. PICK r \in Refunds :
          /\ Becomes(o, "REFUND_REQUESTED", FALSE) /\ SetLicence(o, "REFUND_LOCKED")
          /\ refunds' = [refunds EXCEPT ![r] = [order |-> o, status |-> "REQUESTED"]]
    BY <1>2, <1>3 DEF RequestWrite
  <2>2. \A q \in Refunds : refunds'[q].order \in {refunds[q].order, o}
    BY <1>1, <2>1, Types
  <2> QED BY <1>1, <2>1, <2>2, RefundStepKeepsDelivery
<1>4. CASE RefundCommit(t)
  <2>1. /\ Becomes(o, "REFUNDED", FALSE) /\ SetLicence(o, "REVOKED")
        /\ refunds' = [refunds EXCEPT ![txs[t].refund].status = "REFUNDED"]
    BY <1>2, <1>4 DEF RefundCommit
  <2>2. \A q \in Refunds : refunds'[q].order \in {refunds[q].order, o}
    BY <1>1, <2>1, Types
  <2> QED BY <1>1, <2>1, <2>2, RefundStepKeepsDelivery
<1> QED BY <1>3, <1>4

LEMMA OpeningKeepsDelivery ==
    ASSUME DeliveryIInv, TradeIInv', NEW t \in Txs,
           \/ \E o \in Orders : ReadStep(t, o)
           \/ \E r \in Refunds : RefundLock(t, r)
           \/ PayLock(t) \/ Abandon(t) \/ RefundCall(t) \/ SettleCall(t)
    PROVE  DeliveryIInv'
<1>1. TradeIInv /\ UNCHANGED <<orders, licences, refunds>>
  BY DEF DeliveryIInv, ReadStep, PayRead, CancelRead, ApproveRead, RequestRead, ExpireRead,
         SettleRead, RefundLock, PayLock, Abandon, RefundCall, SettleCall
<1>2. CASE \E o \in Orders : ReadStep(t, o)
  <2>1. PICK o \in Orders, op \in {"pay", "cancel", "approve", "request", "expire", "settle"} :
           txs' = [txs EXCEPT ![t] = [op |-> op, order |-> o, refund |-> 0, at |-> "read"]]
    BY <1>2 DEF ReadStep, PayRead, CancelRead, ApproveRead, RequestRead, ExpireRead,
                SettleRead, Open
  <2> PICK tx : tx = [op |-> op, order |-> o, refund |-> 0, at |-> "read"]
    OBVIOUS
  <2>2. tx \in Opened /\ tx.at = "read" /\ txs' = [txs EXCEPT ![t] = tx]
    BY <2>1 DEF Opened
  <2> QED BY <1>1, <2>2, OneMoves, PlainKeepsDelivery
<1>3. CASE \E r \in Refunds : RefundLock(t, r)
  <2>1. PICK r \in Refunds :
           /\ refunds[r].order # NoOrder
           /\ txs' = [txs EXCEPT ![t] = [op |-> "refund", order |-> refunds[r].order,
                                         refund |-> r, at |-> "locked"]]
    BY <1>3 DEF RefundLock, Open
  <2>2. refunds[r].order \in Orders
    BY <1>1, <2>1, Types
  <2> PICK tx : tx = [op |-> "refund", order |-> refunds[r].order, refund |-> r,
                      at |-> "locked"]
    OBVIOUS
  <2>3. tx \in Opened /\ tx.at = "locked" /\ txs' = [txs EXCEPT ![t] = tx]
    BY <2>1, <2>2 DEF Opened
  <2> QED BY <1>1, <2>3, OneMoves, PlainKeepsDelivery
<1>4. CASE PayLock(t)
  <2>1. PICK tx \in Opened : txs' = [txs EXCEPT ![t] = tx] /\ tx.at = "locked"
    BY <1>1, <1>4, GoesTo DEF PayLock, Is
  <2> QED BY <1>1, <2>1, OneMoves, PlainKeepsDelivery
<1>5. CASE Abandon(t) \/ SettleCall(t)
  <2>1. NoPaymentDone
    BY <1>1, <1>5, OneCloses DEF Abandon, SettleCall
  <2> QED BY <1>1, <2>1, PlainKeepsDelivery
<1>6. CASE RefundCall(t)
  <2>1. PICK tx \in Opened : txs' = [txs EXCEPT ![t] = tx] /\ tx.op = "refund"
    BY <1>1, <1>6, GoesTo DEF RefundCall, Is
  <2> QED BY <1>1, <2>1, OneMoves, PlainKeepsDelivery
<1> QED BY <1>2, <1>3, <1>4, <1>5, <1>6

LEMMA WritesKeepDelivery ==
    ASSUME DeliveryIInv, TradeIInv', NEW t \in Txs,
           CancelWrite(t) \/ ApproveWrite(t) \/ ExpireWrite(t)
    PROVE  DeliveryIInv'
<1>1. TradeIInv /\ txs[t] # Closed /\ Close(t) /\ UNCHANGED <<licences, refunds>>
  BY DEF DeliveryIInv, CancelWrite, ApproveWrite, ExpireWrite, Is
<1>2. PICK o \in Orders : o = txs[t].order
  BY <1>1, OpenTx
<1>3. PICK s \in {"CANCELLED", "PENDING_PAYMENT", "EXPIRED"} : Becomes(o, s, FALSE)
  BY <1>2 DEF CancelWrite, ApproveWrite, ExpireWrite
<1> QED BY <1>1, <1>3, OneCloses, StatusKeepsDelivery

LEMMA NextKeepsDelivery == DeliveryIInv /\ [Next]_vars => DeliveryIInv'
<1> SUFFICES ASSUME DeliveryIInv, [Next]_vars PROVE DeliveryIInv'
  OBVIOUS
<1>1. TradeIInv /\ TradeIInv'
  BY NextKeepsTradeIInv DEF DeliveryIInv
<1>2. CASE \E o \in Orders : Create(o) \/ Submit(o)
  BY <1>1, <1>2, CreateKeepsDelivery, SubmitKeepsDelivery
<1>3. CASE \E o \in Orders : Reject(o)
  <2>1. PICK o \in Orders : Becomes(o, "REJECTED", FALSE) /\ UNCHANGED <<licences, refunds, txs>>
    BY <1>3 DEF Reject
  <2>2. NoPaymentDone
    BY <2>1 DEF NoPaymentDone, PaymentDone
  <2> QED BY <1>1, <2>1, <2>2, StatusKeepsDelivery
<1>4. CASE UNCHANGED tradeVars
  <2>1. UNCHANGED <<orders, licences, refunds, txs>>
    BY <1>4 DEF tradeVars
  <2>2. NoPaymentDone
    BY <2>1 DEF NoPaymentDone, PaymentDone
  <2> QED BY <1>1, <2>1, <2>2, PlainKeepsDelivery
<1>5. CASE \E t \in Txs : \/ \E o \in Orders : ReadStep(t, o)
                          \/ \E r \in Refunds : RefundLock(t, r)
                          \/ Abandon(t)
  BY <1>1, <1>5, OpeningKeepsDelivery
<1>6. CASE \E t \in Txs : Proceed(t)
  BY <1>1, <1>6, OpeningKeepsDelivery, WritesKeepDelivery, RefundsKeepDelivery,
     PayCallKeepsDelivery, PayCommitKeepsDelivery DEF Proceed, OrderWrite
<1>7. (\E o \in Orders : Time(o)) \/ UNCHANGED vars => UNCHANGED tradeVars
  BY DEF Time, vars, tradeVars
<1> QED BY <1>2, <1>3, <1>4, <1>5, <1>6, <1>7 DEF Next

LEMMA InitDeliveryIInv == Init => DeliveryIInv
BY InitTradeIInv DEF Init, DeliveryIInv, RefundStopsUse, PaymentDone

\* RefundService.request and DeliveryService: once the refund of an order is asked for,
\* its licence is not active again, although the licence is looked up by workspace
\* alone, for any number of orders of one workspace, and payments go on.
THEOREM RefundStoppedUse == Spec => []RefundStopsUse
<1>1. DeliveryIInv => RefundStopsUse
  BY DEF DeliveryIInv
<1> QED BY <1>1, InitDeliveryIInv, NextKeepsDelivery, PTL DEF Spec

\* DeliveryService and RefundService: an active licence is one whose money was
\* taken and not given back.
THEOREM ActiveLicenceWasPaid == Spec => []ActiveLicenceIsPaid
<1>1. DeliveryIInv => ActiveLicenceIsPaid
  <2> SUFFICES ASSUME DeliveryIInv, NEW o \in Orders, licences[o] = "ACTIVE", cents[o] > 0
               PROVE  wallet[o].charged /\ ~wallet[o].reversed
    BY DEF ActiveLicenceIsPaid
  <2>1. OrderOK(o)
    BY DEF DeliveryIInv, TradeIInv
  <2>2. wallet[o].charged
    BY <2>1, TradeAssumption DEF OrderOK
  <2>3. ASSUME wallet[o].reversed PROVE FALSE
    <3>1. PICK r \in Refunds : refunds[r].order = o
      BY <2>1, <2>3 DEF OrderOK
    <3>2. o # NoOrder
      BY ListingAssumption
    <3> QED BY <3>1, <3>2 DEF DeliveryIInv, RefundStopsUse
  <2> QED BY <2>2, <2>3
<1> QED BY <1>1, InitDeliveryIInv, NextKeepsDelivery, PTL DEF Spec
-----------------------------------------------------------------------------
(* The reservation: a third layer.  A row that is reserved names, by its   *)
(* deadline, an exclusive order that was made, and so does every copy of   *)
(* the row that an open edit will write back; an order that was made stays *)
(* made.                                                                   *)

ReservationOK(row) ==
    /\ row.status = "EXCLUSIVE_RESERVED" => row.until # NoOrder
    /\ row.until # NoOrder => row.until \in Exclusive /\ orders[row.until].status # "NONE"

ReservationIInv ==
    /\ TradeIInv
    /\ ReservationOK(listing)
    /\ \A e \in Edits : edits[e].open => ReservationOK(edits[e].row)

LEMMA MadeStaysMade ==
    ASSUME TradeIInv, [Next]_vars
    PROVE  \A o \in Orders : orders[o].status # "NONE" => orders'[o].status # "NONE"
<1>1. CASE UNCHANGED orders
  BY <1>1
<1>2. ASSUME NEW o \in Orders, NEW s, s # "NONE", Becomes(o, s, FALSE)
      PROVE  \A p \in Orders : orders[p].status # "NONE" => orders'[p].status # "NONE"
  BY <1>2, StatusWritten
<1>3. CASE \E o \in Orders : Create(o) \/ Submit(o)
  <2> PICK o \in Orders, s \in {"FULFILLED", "PENDING_PAYMENT", "PENDING_APPROVAL"} :
        orders' = [orders EXCEPT ![o].status = s]
    BY <1>3 DEF Create, Submit
  <2>1. orders[o] \in [status : OrderStatus \cup {"NONE"}, transfer : BOOLEAN]
    BY Types
  <2>2. orders'[o].status = s /\ \A p \in Orders : p # o => orders'[p] = orders[p]
    BY <2>1, Types
  <2> QED BY <2>2
<1>4. CASE \E o \in Orders : Reject(o)
  BY <1>2, <1>4 DEF Reject
<1>5. CASE \E t \in Txs : PayCommit(t)
  <2> PICK t \in Txs : PayCommit(t)
    BY <1>5
  <2> PICK o \in Orders : o = txs[t].order
    BY OpenTx DEF PayCommit, Is
  <2>1. orders' = [orders EXCEPT ![o] = [status |-> "FULFILLED", transfer |-> TRUE]]
    BY DEF PayCommit
  <2> QED BY <2>1, Types
<1>6. CASE \E t \in Txs : \/ CancelWrite(t) \/ ApproveWrite(t) \/ ExpireWrite(t)
                          \/ RefundCommit(t) \/ \E r \in Refunds : RequestWrite(t, r)
  <2> PICK t \in Txs : \/ CancelWrite(t) \/ ApproveWrite(t) \/ ExpireWrite(t)
                       \/ RefundCommit(t) \/ \E r \in Refunds : RequestWrite(t, r)
    BY <1>6
  <2> PICK o \in Orders : o = txs[t].order
    BY OpenTx DEF CancelWrite, ApproveWrite, ExpireWrite, RefundCommit, RequestWrite, Is
  <2> PICK s \in {"CANCELLED", "PENDING_PAYMENT", "EXPIRED", "REFUNDED", "REFUND_REQUESTED"} :
        Becomes(o, s, FALSE)
    BY DEF CancelWrite, ApproveWrite, ExpireWrite, RefundCommit, RequestWrite
  <2> QED BY <1>2
<1>7. CASE \E t \in Txs : \/ \E o \in Orders : ReadStep(t, o)
                          \/ \E r \in Refunds : RefundLock(t, r)
                          \/ Abandon(t) \/ PayLock(t) \/ PayCall(t) \/ RefundCall(t)
                          \/ SettleCall(t)
  BY <1>1, <1>7 DEF ReadStep, PayRead, CancelRead, ApproveRead, RequestRead, ExpireRead,
     SettleRead, RefundLock, Abandon, PayLock, PayCall, RefundCall, SettleCall
<1>8. CASE (\E o \in Orders : Time(o)) \/ UNCHANGED tradeVars \/ UNCHANGED vars
  BY <1>1, <1>8 DEF Time, tradeVars, vars
<1> QED BY <1>3, <1>4, <1>5, <1>6, <1>7, <1>8 DEF Next, Proceed, OrderWrite

LEMMA ReservationStays ==
    ASSUME TradeIInv, [Next]_vars, NEW row \in Listings, ReservationOK(row)
    PROVE  ReservationOK(row)'
<1>1. row.until \in Orders \cup {NoOrder}
  BY DEF Listings
<1> QED BY <1>1, MadeStaysMade DEF ReservationOK

\* A step that leaves the listing and the edits alone.
LEMMA ListingAloneKeepsReservation ==
    ASSUME ReservationIInv, TradeIInv', [Next]_vars, listing' = listing, edits' = edits
    PROVE  ReservationIInv'
<1>1. listing \in Listings /\ \A e \in Edits : edits[e].open => edits[e].row \in Listings
  BY OpenEdit DEF ReservationIInv, TradeIInv, ListingIInv, ListingTypeOK
<1> QED BY <1>1, ReservationStays DEF ReservationIInv, ReservationOK

LEMMA EditsKeepReservation ==
    ASSUME ReservationIInv, TradeIInv', EditStep, UNCHANGED tradeVars
    PROVE  ReservationIInv'
<1>1. ListingTypeOK /\ orders' = orders /\ TradeIInv
  BY DEF ReservationIInv, TradeIInv, ListingIInv, tradeVars
<1>2. PICK e \in Edits : EditWrite(e) \/ \E op \in EditOps : EditRead(e, op)
  BY DEF EditStep
<1>3. edits \in [Edits -> OpenEdits \cup {NoEdit}]
  BY <1>1 DEF ListingTypeOK
<1>4. CASE \E op \in EditOps : EditRead(e, op)
  <2> PICK op \in EditOps : EditRead(e, op)
    BY <1>4
  <2>1. /\ edits'[e].row = listing /\ listing' = listing
        /\ \A d \in Edits : d # e => edits'[d] = edits[d]
    BY <1>3 DEF EditRead
  <2> QED BY <1>1, <2>1 DEF ReservationIInv, ReservationOK
<1>5. CASE EditWrite(e)
  <2> PICK op \in EditOps, row \in Listings : op = edits[e].op /\ row = edits[e].row
    BY <1>1, <1>5, OpenEdit DEF EditWrite
  <2>1. /\ ReservationOK(row) /\ ReservationOK(listing)
        /\ listing' = Edited(op, row)
        /\ \A d \in Edits : edits'[d].open => edits[d].open /\ edits'[d] = edits[d]
    BY <1>3, <1>5 DEF EditWrite, ReservationIInv, NoEdit
  <2>2. /\ listing'.until = IF row.until = NoOrder THEN listing.until ELSE row.until
        /\ listing'.status = "EXCLUSIVE_RESERVED" => row.status = "EXCLUSIVE_RESERVED"
    BY <2>1 DEF Edited, StatusAfter
  <2>3. ReservationOK(listing)'
    BY <1>1, <2>1, <2>2 DEF ReservationOK
  <2> QED BY <1>1, <2>1, <2>3 DEF ReservationIInv, ReservationOK
<1> QED BY <1>2, <1>4, <1>5

LEMMA CreateKeepsReservation ==
    ASSUME ReservationIInv, TradeIInv', NEW o \in Orders, Create(o)
    PROVE  ReservationIInv'
<1>1. [Next]_vars /\ edits' = edits /\ TradeIInv /\ listing \in Listings
  BY DEF Next, Create, ReservationIInv, TradeIInv, ListingIInv, ListingTypeOK
<1>2. CASE o \notin Exclusive
  BY <1>1, <1>2, ListingAloneKeepsReservation DEF Create
<1>3. CASE o \in Exclusive
  <2>1. listing'.until = o /\ o # NoOrder
    BY <1>1, <1>3, ListingAssumption DEF Create, ReserveExclusive, Listings
  <2>2. orders'[o].status # "NONE"
    <3>1. orders[o] \in [status : OrderStatus \cup {"NONE"}, transfer : BOOLEAN]
      BY <1>1, Types
    <3> QED BY <1>1, <3>1, Types DEF Create
  <2>3. ReservationOK(listing)'
    BY <1>3, <2>1, <2>2 DEF ReservationOK
  <2>4. \A e \in Edits : edits[e].open => ReservationOK(edits[e].row)'
    <3>1. \A e \in Edits : edits[e].open => edits[e].row \in Listings
      BY <1>1, OpenEdit DEF TradeIInv, ListingIInv
    <3> QED BY <1>1, <3>1, ReservationStays DEF ReservationIInv, ReservationOK
  <2> QED BY <1>1, <2>3, <2>4 DEF ReservationIInv, ReservationOK
<1> QED BY <1>2, <1>3

LEMMA NextKeepsReservation == ReservationIInv /\ [Next]_vars => ReservationIInv'
<1> SUFFICES ASSUME ReservationIInv, [Next]_vars PROVE ReservationIInv'
  OBVIOUS
<1>1. /\ TradeIInv /\ TradeIInv' /\ listing.holder = NoOrder
      /\ \A o \in Orders : o # NoOrder
  BY NextKeepsTradeIInv, ListingAssumption DEF ReservationIInv, TradeIInv, ListingIInv, Unheld
<1>2. CASE EditStep /\ UNCHANGED tradeVars
  BY <1>1, <1>2, EditsKeepReservation
<1>3. CASE \E o \in Orders : Create(o)
  BY <1>1, <1>3, CreateKeepsReservation
<1>4. CASE UNCHANGED <<listing, edits>>
  BY <1>1, <1>4, ListingAloneKeepsReservation
<1>5. CASE \E t \in Txs : RefundCommit(t) \/ ExpireWrite(t)
  <2> PICK t \in Txs : RefundCommit(t) \/ ExpireWrite(t)
    BY <1>5
  <2> PICK o \in Orders : o = txs[t].order
    BY <1>1, OpenTx DEF RefundCommit, ExpireWrite, Is
  <2>1. UNCHANGED <<listing, edits>>
    BY <1>1 DEF RefundCommit, ExpireWrite, RestoreListed, ReleaseReservation
  <2> QED BY <1>4, <2>1
<1>6. (\E o \in Orders : Submit(o) \/ Time(o)) \/ UNCHANGED listingVars \/ UNCHANGED vars
        => UNCHANGED <<listing, edits>>
  BY DEF Submit, Time, Lapse, listingVars, vars
<1> QED BY <1>2, <1>3, <1>4, <1>5, <1>6 DEF Next, Proceed

\* ListingService over the conditional updates of ScriptListingMapper: a reserved listing
\* carries the deadline of an exclusive order that was made, whatever stale row is written
\* back.
THEOREM ReservedForAnOrder == Spec => []ReservationHasOrder
<1>1. Init => ReservationIInv
  BY InitTradeIInv
     DEF Init, ListingInit, Approved, NoEdit, ReservationIInv, ReservationOK
<1>2. ReservationIInv => ReservationHasOrder
  BY TradeAssumption DEF ReservationIInv, ReservationOK, ReservationHasOrder
<1> QED BY <1>1, <1>2, NextKeepsReservation, PTL DEF Spec
-----------------------------------------------------------------------------
(* What the budget shows as consumed: a third layer.  The wallet reverses  *)
(* an order once, so of all refund requests for a paid order at most one   *)
(* is about to take the money back, and none has done so before it.        *)

\* A refund request of order o has been carried out.
Refunded(o) == \E r \in Refunds : refunds[r].order = o /\ refunds[r].status = "REFUNDED"

\* The wallet has given the money of a paid order back to the refund t.
RefundDone(t) ==
    /\ txs[t] # Closed /\ txs[t].op = "refund" /\ txs[t].at = "done"
    /\ orders[txs[t].order].transfer

RefundedOnce ==
    /\ \A o \in Orders : orders[o].transfer /\ Refunded(o) => wallet[o].reversed
    /\ \A t \in Txs : RefundDone(t) => ~Refunded(txs[t].order)
    /\ \A t, u \in Txs : RefundDone(t) /\ RefundDone(u) /\ txs[t].order = txs[u].order
                            => t = u

SpendingIInv == DeliveryIInv /\ RefundedOnce /\ ConsumedBudgetIsSpent

LEMMA PricesAddUp ==
    ASSUME NEW S, S \subseteq Enterprise
    PROVE  IsFiniteSet(S) /\ \A o \in S : cents[o] \in Int
BY TradeAssumption, FS_Subset

LEMMA MoveWrites ==
    ASSUME TradeIInv, NEW d, NEW e, Budget!Move(Workspace, d, e)
    PROVE  purse'[Workspace].consumed = purse[Workspace].consumed + e
<1> PICK new : new = Budget!Moved(purse[Workspace], d, e)
  OBVIOUS
<1>1. purse' = [purse EXCEPT ![Workspace] = new]
  BY DEF Budget!Move
<1>2. purse'[Workspace] = new
  BY <1>1, Types
<1> QED BY <1>2 DEF Budget!Moved

LEMMA BudgetConsumes ==
    ASSUME TradeIInv, NEW o \in Orders
    PROVE  /\ Budget!Reserve(Workspace, cents[o]) \/ Budget!Release(Workspace, cents[o])
                => purse'[Workspace].consumed = purse[Workspace].consumed
           /\ Budget!Consume(Workspace, cents[o])
                => purse'[Workspace].consumed = purse[Workspace].consumed + cents[o]
           /\ Budget!Reverse(Workspace, cents[o])
                => purse'[Workspace].consumed = purse[Workspace].consumed - cents[o]
<1>1. purse[Workspace].consumed \in Int /\ cents[o] \in Int
  BY Types DEF Budget!Purses
<1>2. ASSUME Budget!Reserve(Workspace, cents[o]) \/ Budget!Release(Workspace, cents[o])
      PROVE  purse'[Workspace].consumed = purse[Workspace].consumed
  <2>1. PICK d : Budget!Move(Workspace, d, 0)
    BY <1>2 DEF Budget!Reserve, Budget!Release
  <2>2. purse'[Workspace].consumed = purse[Workspace].consumed + 0
    BY <2>1, MoveWrites
  <2> QED BY <1>1, <2>2
<1>3. ASSUME Budget!Consume(Workspace, cents[o])
      PROVE  purse'[Workspace].consumed = purse[Workspace].consumed + cents[o]
  BY <1>3, MoveWrites DEF Budget!Consume
<1>4. ASSUME Budget!Reverse(Workspace, cents[o])
      PROVE  purse'[Workspace].consumed = purse[Workspace].consumed - cents[o]
  <2>1. purse'[Workspace].consumed = purse[Workspace].consumed + (-cents[o])
    BY <1>4, MoveWrites DEF Budget!Reverse
  <2> QED BY <1>1, <2>1
<1> QED BY <1>2, <1>3, <1>4

\* A step that takes no order into or out of the spent ones.
LEMMA SpendingStays ==
    ASSUME SpendingIInv, DeliveryIInv',
           \A o \in Orders : /\ orders'[o].transfer = orders[o].transfer
                             /\ Refunded(o)' = Refunded(o)
                             /\ wallet[o].reversed => wallet'[o].reversed,
           \A t \in Txs : RefundDone(t)' => RefundDone(t) /\ txs'[t] = txs[t],
           purse'[Workspace].consumed = purse[Workspace].consumed
    PROVE  SpendingIInv'
<1>1. \A o \in Orders : orders'[o].transfer /\ Refunded(o)' => wallet'[o].reversed
  BY DEF SpendingIInv, RefundedOnce
<1>2. ASSUME NEW t \in Txs, RefundDone(t)' PROVE ~Refunded(txs[t].order)'
  <2>1. RefundDone(t) /\ txs'[t] = txs[t]
    BY <1>2
  <2>2. txs[t].order \in Orders
    BY <2>1, OpenTx DEF RefundDone, SpendingIInv, DeliveryIInv
  <2>3. ~Refunded(txs[t].order)
    BY <2>1 DEF SpendingIInv, RefundedOnce
  <2>4. PICK o \in Orders : o = txs[t].order /\ o = txs'[t].order
    BY <2>1, <2>2
  <2>5. ~Refunded(o)'
    BY <2>3, <2>4
  <2> QED BY <2>4, <2>5 DEF Refunded
<1>3. ASSUME NEW t \in Txs, NEW u \in Txs, RefundDone(t)', RefundDone(u)',
             txs'[t].order = txs'[u].order
      PROVE  t = u
  BY <1>3 DEF SpendingIInv, RefundedOnce
<1>4. RefundedOnce'
  BY <1>1, <1>2, <1>3 DEF RefundedOnce
<1>5. \A o \in Orders : Spent(o)' <=> Spent(o)
  BY DEF Spent, Refunded
<1>6. {o \in Enterprise : Spent(o)'} = {o \in Enterprise : Spent(o)}
  BY <1>5, TradeAssumption
<1>7. ConsumedBudgetIsSpent'
  BY <1>6 DEF SpendingIInv, ConsumedBudgetIsSpent
<1> QED BY <1>4, <1>7 DEF SpendingIInv

\* A step that replaces one transaction, and not by a refund that is done.
LEMMA OneMovesNoRefund ==
    ASSUME TradeIInv, NEW t \in Txs, NEW tx \in Opened \cup {Closed},
           txs' = [txs EXCEPT ![t] = tx],
           tx = Closed \/ tx.op # "refund" \/ tx.at # "done",
           \A o \in Orders : orders'[o].transfer = orders[o].transfer
    PROVE  \A u \in Txs : RefundDone(u)' => RefundDone(u) /\ txs'[u] = txs[u]
<1> SUFFICES ASSUME NEW u \in Txs, RefundDone(u)' PROVE RefundDone(u) /\ txs'[u] = txs[u]
  OBVIOUS
<1>1. u # t /\ txs'[u] = txs[u]
  BY Types DEF RefundDone
<1>2. txs[u].order \in Orders
  BY <1>1, OpenTx DEF RefundDone
<1> QED BY <1>1, <1>2 DEF RefundDone

LEMMA ReversalsStay ==
    ASSUME TradeIInv, NEW o \in Orders,
           \/ wallet' = [wallet EXCEPT ![o].charged = TRUE]
           \/ wallet' = [wallet EXCEPT ![o].released = TRUE]
           \/ wallet' = [wallet EXCEPT ![o].reversed = TRUE]
           \/ UNCHANGED wallet
    PROVE  \A p \in Orders : wallet[p].reversed => wallet'[p].reversed
<1> SUFFICES ASSUME NEW p \in Orders, wallet[p].reversed PROVE wallet'[p].reversed
  OBVIOUS
<1>1. wallet \in [Orders -> Transfers] /\ wallet[o] \in Transfers
  BY Types
<1>2. CASE p = o
  BY <1>1, <1>2 DEF Transfers
<1>3. CASE p # o
  BY <1>1, <1>3
<1> QED BY <1>2, <1>3

\* Reading a row, calling the wallet to pay or to settle, giving up.
LEMMA OpeningKeepsSpending ==
    ASSUME SpendingIInv, DeliveryIInv', NEW t \in Txs,
           \/ \E o \in Orders : ReadStep(t, o)
           \/ \E r \in Refunds : RefundLock(t, r)
           \/ PayLock(t) \/ PayCall(t) \/ Abandon(t) \/ SettleCall(t)
    PROVE  SpendingIInv'
<1>1. TradeIInv /\ UNCHANGED <<orders, refunds, purse>>
  BY DEF SpendingIInv, DeliveryIInv, ReadStep, PayRead, CancelRead, ApproveRead, RequestRead,
         ExpireRead, SettleRead, RefundLock, PayLock, PayCall, Abandon, SettleCall
<1>2. \A o \in Orders : wallet[o].reversed => wallet'[o].reversed
  <2>1. CASE UNCHANGED wallet
    BY <2>1
  <2>2. CASE PayCall(t) \/ SettleCall(t)
    <3>1. PICK o \in Orders : o = txs[t].order
      BY <1>1, <2>2, OpenTx DEF PayCall, SettleCall, Is
    <3>2. \/ wallet' = [wallet EXCEPT ![o].charged = TRUE]
          \/ wallet' = [wallet EXCEPT ![o].released = TRUE]
          \/ UNCHANGED wallet
      BY <2>2, <3>1 DEF PayCall, SettleCall
    <3> QED BY <1>1, <3>2, ReversalsStay
  <2> QED BY <2>1, <2>2 DEF ReadStep, PayRead, CancelRead, ApproveRead, RequestRead,
             ExpireRead, SettleRead, RefundLock, PayLock, Abandon
<1>3. \E tx \in Opened \cup {Closed} :
         /\ txs' = [txs EXCEPT ![t] = tx]
         /\ tx = Closed \/ tx.op # "refund" \/ tx.at # "done"
  <2>1. CASE \E o \in Orders : ReadStep(t, o)
    <3>1. PICK o \in Orders, op \in {"pay", "cancel", "approve", "request", "expire", "settle"} :
             txs' = [txs EXCEPT ![t] = [op |-> op, order |-> o, refund |-> 0, at |-> "read"]]
      BY <2>1 DEF ReadStep, PayRead, CancelRead, ApproveRead, RequestRead, ExpireRead,
                  SettleRead, Open
    <3> PICK tx : tx = [op |-> op, order |-> o, refund |-> 0, at |-> "read"]
      OBVIOUS
    <3>2. tx \in Opened /\ tx.at = "read" /\ txs' = [txs EXCEPT ![t] = tx]
      BY <3>1 DEF Opened
    <3> QED BY <3>2
  <2>2. CASE \E r \in Refunds : RefundLock(t, r)
    <3>1. PICK r \in Refunds :
             /\ refunds[r].order # NoOrder
             /\ txs' = [txs EXCEPT ![t] = [op |-> "refund", order |-> refunds[r].order,
                                           refund |-> r, at |-> "locked"]]
      BY <2>2 DEF RefundLock, Open
    <3>2. refunds[r].order \in Orders
      BY <1>1, <3>1, Types
    <3> PICK tx : tx = [op |-> "refund", order |-> refunds[r].order, refund |-> r,
                        at |-> "locked"]
      OBVIOUS
    <3>3. tx \in Opened /\ tx.at = "locked" /\ txs' = [txs EXCEPT ![t] = tx]
      BY <3>1, <3>2 DEF Opened
    <3> QED BY <3>3
  <2>3. CASE PayLock(t) \/ PayCall(t)
    <3>1. PICK at \in {"locked", "done", "failed"} : Goes(t, at)
      BY <2>3 DEF PayLock, PayCall
    <3>2. txs[t] # Closed /\ txs[t].op = "pay"
      BY <2>3 DEF PayLock, PayCall, Is
    <3>3. PICK tx \in Opened : txs' = [txs EXCEPT ![t] = tx] /\ tx.op = "pay"
      BY <1>1, <3>1, <3>2, GoesTo
    <3> QED BY <3>3
  <2>4. CASE Abandon(t) \/ SettleCall(t)
    BY <2>4 DEF Abandon, SettleCall, Close
  <2> QED BY <2>1, <2>2, <2>3, <2>4
<1>4. \A u \in Txs : RefundDone(u)' => RefundDone(u) /\ txs'[u] = txs[u]
  BY <1>1, <1>3, OneMovesNoRefund
<1>5. \A o \in Orders : Refunded(o)' = Refunded(o)
  BY <1>1 DEF Refunded
<1> QED BY <1>1, <1>2, <1>4, <1>5, SpendingStays

\* An order gets another status.
LEMMA StatusKeepsSpending ==
    ASSUME SpendingIInv, DeliveryIInv', NEW o \in Orders, NEW s, Becomes(o, s, FALSE),
           (\E t \in Txs : Close(t)) \/ UNCHANGED txs,
           UNCHANGED wallet, \A p \in Orders : Refunded(p)' = Refunded(p),
           purse'[Workspace].consumed = purse[Workspace].consumed
    PROVE  SpendingIInv'
<1>1. TradeIInv
  BY DEF SpendingIInv, DeliveryIInv
<1>2. \A p \in Orders : orders'[p].transfer = orders[p].transfer
  BY <1>1, StatusWritten
<1>3. \A u \in Txs : RefundDone(u)' => RefundDone(u) /\ txs'[u] = txs[u]
  <2>1. CASE UNCHANGED txs
    BY <1>1, <1>2, <2>1, OpenTx DEF RefundDone
  <2>2. CASE \E t \in Txs : Close(t)
    BY <1>1, <1>2, <2>2, OneMovesNoRefund DEF Close
  <2> QED BY <2>1, <2>2
<1> QED BY <1>2, <1>3, SpendingStays

LEMMA CreatingKeepsSpending ==
    ASSUME SpendingIInv, DeliveryIInv', NEW o \in Orders, Create(o) \/ Submit(o)
    PROVE  SpendingIInv'
<1>1. TradeIInv /\ UNCHANGED <<refunds, wallet, txs>>
  BY DEF SpendingIInv, DeliveryIInv, Create, Submit
<1>2. \A p \in Orders : orders'[p].transfer = orders[p].transfer
  <2>1. PICK s : orders' = [orders EXCEPT ![o].status = s]
    BY DEF Create, Submit
  <2>2. orders[o] \in [status : OrderStatus \cup {"NONE"}, transfer : BOOLEAN]
    BY <1>1, Types
  <2> QED BY <1>1, <2>1, <2>2, Types
<1>3. purse'[Workspace].consumed = purse[Workspace].consumed
  BY <1>1, BudgetConsumes DEF Create, Submit
<1>4. \A u \in Txs : RefundDone(u)' => RefundDone(u) /\ txs'[u] = txs[u]
  BY <1>1, <1>2, OpenTx DEF RefundDone
<1>5. \A p \in Orders : Refunded(p)' = Refunded(p)
  BY <1>1 DEF Refunded
<1> QED BY <1>1, <1>2, <1>3, <1>4, <1>5, SpendingStays

LEMMA WritesKeepSpending ==
    ASSUME SpendingIInv, DeliveryIInv',
           \/ \E o \in Orders : Reject(o)
           \/ \E t \in Txs : CancelWrite(t) \/ ApproveWrite(t) \/ ExpireWrite(t)
    PROVE  SpendingIInv'
<1>1. TradeIInv /\ UNCHANGED <<refunds, wallet>>
  BY DEF SpendingIInv, DeliveryIInv, Reject, CancelWrite, ApproveWrite, ExpireWrite
<1>2. \A p \in Orders : Refunded(p)' = Refunded(p)
  BY <1>1 DEF Refunded
<1>3. CASE \E o \in Orders : Reject(o)
  <2>1. PICK o \in Orders : Reject(o)
    BY <1>3
  <2>2. purse'[Workspace].consumed = purse[Workspace].consumed
    BY <1>1, <2>1, BudgetConsumes DEF Reject
  <2>3. Becomes(o, "REJECTED", FALSE) /\ UNCHANGED txs
    BY <2>1 DEF Reject
  <2> QED BY <1>1, <1>2, <2>2, <2>3, StatusKeepsSpending
<1>4. CASE \E t \in Txs : CancelWrite(t) \/ ApproveWrite(t) \/ ExpireWrite(t)
  <2>1. PICK t \in Txs : CancelWrite(t) \/ ApproveWrite(t) \/ ExpireWrite(t)
    BY <1>4
  <2>2. txs[t] # Closed /\ Close(t) /\ UNCHANGED purse
    BY <2>1 DEF CancelWrite, ApproveWrite, ExpireWrite, Is
  <2>3. PICK o \in Orders : o = txs[t].order
    BY <1>1, <2>2, OpenTx
  <2>4. PICK s \in {"CANCELLED", "PENDING_PAYMENT", "EXPIRED"} : Becomes(o, s, FALSE)
    BY <2>1, <2>3 DEF CancelWrite, ApproveWrite, ExpireWrite
  <2> QED BY <1>1, <1>2, <2>2, <2>4, StatusKeepsSpending
<1> QED BY <1>3, <1>4

\* A new request has not been carried out.
LEMMA RequestKeepsSpending ==
    ASSUME SpendingIInv, DeliveryIInv', NEW t \in Txs, NEW r \in Refunds, RequestWrite(t, r)
    PROVE  SpendingIInv'
<1>1. /\ TradeIInv /\ Close(t) /\ txs[t] # Closed /\ UNCHANGED <<wallet, purse>>
      /\ refunds[r].order = NoOrder
  BY DEF SpendingIInv, DeliveryIInv, RequestWrite, Is
<1>2. PICK o \in Orders : o = txs[t].order
  BY <1>1, OpenTx
<1>3. refunds' = [refunds EXCEPT ![r] = [order |-> o, status |-> "REQUESTED"]]
  BY <1>2 DEF RequestWrite
<1>4. refunds'[r].status = "REQUESTED" /\ \A q \in Refunds : q # r => refunds'[q] = refunds[q]
  BY <1>1, <1>3, Types
<1>5. \A p \in Orders : Refunded(p)' = Refunded(p)
  BY <1>1, <1>4, ListingAssumption DEF Refunded
<1>6. Becomes(o, "REFUND_REQUESTED", FALSE)
  BY <1>2 DEF RequestWrite
<1> QED BY <1>1, <1>5, <1>6, StatusKeepsSpending

\* The wallet reverses an order that was not reversed, so no request for it has
\* been carried out, and no other is about to be.
LEMMA RefundCallKeepsSpending ==
    ASSUME SpendingIInv, DeliveryIInv', NEW t \in Txs, RefundCall(t)
    PROVE  SpendingIInv'
<1>1. /\ TradeIInv /\ txs[t] # Closed /\ txs[t].op = "refund"
      /\ UNCHANGED <<orders, refunds, purse>>
  BY DEF SpendingIInv, DeliveryIInv, RefundCall, Is
<1>2. PICK o \in Orders : o = txs[t].order
  BY <1>1, OpenTx
<1>3. \A p \in Orders : wallet[p].reversed => wallet'[p].reversed
  <2>1. wallet' = [wallet EXCEPT ![o].reversed = TRUE] \/ UNCHANGED wallet
    BY <1>2 DEF RefundCall
  <2> QED BY <1>1, <2>1, ReversalsStay
<1>4. \A p \in Orders : Refunded(p)' = Refunded(p)
  BY <1>1 DEF Refunded
<1>5. CASE Goes(t, "failed") \/ ~orders[o].transfer
  <2>1. PICK tx \in Opened : txs' = [txs EXCEPT ![t] = tx] /\ tx.order = o
                             /\ (tx.at = "failed" \/ ~orders[o].transfer)
    BY <1>1, <1>2, <1>5, GoesTo DEF RefundCall
  <2>2. txs'[t] = tx /\ \A u \in Txs : u # t => txs'[u] = txs[u]
    BY <1>1, <2>1, Types
  <2>3. \A u \in Txs : RefundDone(u)' => RefundDone(u) /\ txs'[u] = txs[u]
    BY <1>1, <2>1, <2>2 DEF RefundDone
  <2> QED BY <1>1, <1>3, <1>4, <2>3, SpendingStays
<1>6. CASE orders[o].transfer /\ ~wallet[o].reversed /\ Goes(t, "done")
  <2>1. PICK tx \in Opened : txs' = [txs EXCEPT ![t] = tx] /\ tx.order = o
    BY <1>1, <1>2, <1>6, GoesTo
  <2>2. txs'[t].order = o /\ \A u \in Txs : u # t => txs'[u] = txs[u]
    BY <1>1, <2>1, Types
  <2>3. ~Refunded(o)
    BY <1>6 DEF SpendingIInv, RefundedOnce
  <2>4. ASSUME NEW u \in Txs, RefundDone(u) PROVE txs[u].order # o
    <3>1. Supported(txs[u]) /\ orders[txs[u].order].transfer /\ txs[u].order \in Orders
      BY <1>1, <2>4, OpenTx DEF RefundDone
    <3>2. GivenBack(txs[u].order)
      BY <2>4, <3>1 DEF RefundDone, Supported
    <3>3. wallet[txs[u].order].reversed
      BY <1>1, <3>1, <3>2 DEF TradeIInv, OrderOK, GivenBack
    <3> QED BY <1>6, <3>3
  <2>5. \A p \in Orders : orders'[p].transfer /\ Refunded(p)' => wallet'[p].reversed
    BY <1>1, <1>3, <1>4 DEF SpendingIInv, RefundedOnce
  <2>6. \A u \in Txs : u # t /\ RefundDone(u)' => RefundDone(u) /\ txs'[u] = txs[u]
    BY <1>1, <2>2 DEF RefundDone
  <2>7. \A u \in Txs : RefundDone(u)' => ~Refunded(txs'[u].order)
    BY <2>2, <2>3, <2>6 DEF SpendingIInv, RefundedOnce
  <2>8. \A u \in Txs : RefundDone(u)' => ~Refunded(txs[u].order)'
    BY <1>1, <2>7 DEF Refunded
  <2>9. \A u, v \in Txs : RefundDone(u)' /\ RefundDone(v)' /\ txs'[u].order = txs'[v].order
                             => u = v
    BY <2>2, <2>4, <2>6 DEF SpendingIInv, RefundedOnce
  <2>10. RefundedOnce'
    BY <2>5, <2>8, <2>9 DEF RefundedOnce
  <2>11. ConsumedBudgetIsSpent'
    BY <1>1 DEF SpendingIInv, ConsumedBudgetIsSpent, Spent
  <2> QED BY <2>10, <2>11 DEF SpendingIInv
<1> QED BY <1>2, <1>5, <1>6 DEF RefundCall

\* An order becomes spent when it is paid: it was not, and no refund is under way.
LEMMA PayCommitKeepsSpending ==
    ASSUME SpendingIInv, DeliveryIInv', NEW t \in Txs, PayCommit(t)
    PROVE  SpendingIInv'
<1>1. /\ TradeIInv /\ DeliveryIInv /\ PaymentDone(t) /\ Close(t)
      /\ txs[t] # Closed /\ txs[t].op = "pay" /\ UNCHANGED <<refunds, wallet>>
  BY DEF SpendingIInv, DeliveryIInv, PaymentDone, PayCommit, Is
<1>2. PICK o \in Orders : o = txs[t].order
  BY <1>1, OpenTx
<1>3. ~orders[o].transfer /\ cents[o] > 0
  BY <1>1, <1>2, OpenTx DEF DeliveryIInv, Supported
<1>4. \A r \in Refunds : refunds[r].order # o
  <2> SUFFICES ASSUME NEW r \in Refunds, refunds[r].order = o PROVE FALSE
    OBVIOUS
  <2>1. PaidFor(o)
    BY <1>1, ListingAssumption DEF TradeIInv, RefundOK
  <2> QED BY <1>3, <2>1 DEF PaidFor
<1>5. /\ orders'[o].transfer
      /\ \A p \in Orders : p # o => orders'[p] = orders[p]
  <2>1. orders' = [orders EXCEPT ![o] = [status |-> "FULFILLED", transfer |-> TRUE]]
    BY <1>2 DEF PayCommit
  <2> QED BY <1>1, <2>1, Types
<1>6. /\ \A p \in Orders : Refunded(p)' = Refunded(p)
      /\ ~Refunded(o)
  BY <1>1, <1>4 DEF Refunded
<1>7. \A u \in Txs : RefundDone(u)' => /\ RefundDone(u) /\ txs'[u] = txs[u]
                                       /\ txs[u].order \in Orders
  <2> SUFFICES ASSUME NEW u \in Txs, RefundDone(u)'
               PROVE  /\ RefundDone(u) /\ txs'[u] = txs[u]
                      /\ txs[u].order \in Orders
    OBVIOUS
  <2>1. u # t /\ txs'[u] = txs[u]
    BY <1>1, Types DEF Close, RefundDone
  <2>2. txs[u].order \in Orders /\ Supported(txs[u]) /\ txs[u].op = "refund"
    BY <1>1, <2>1, OpenTx DEF RefundDone
  <2>3. txs[u].order # o
    BY <1>4, <2>1, <2>2 DEF Supported, RefundDone
  <2> QED BY <1>5, <2>1, <2>2, <2>3 DEF RefundDone
<1>8. RefundedOnce'
  <2>1. \A p \in Orders : orders'[p].transfer /\ Refunded(p)' => wallet'[p].reversed
    BY <1>1, <1>5, <1>6 DEF SpendingIInv, RefundedOnce
  <2>2. \A u \in Txs : RefundDone(u)' => ~Refunded(txs'[u].order)
    BY <1>7 DEF SpendingIInv, RefundedOnce
  <2>3. \A u \in Txs : RefundDone(u)' => ~Refunded(txs[u].order)'
    BY <1>1, <2>2 DEF Refunded
  <2>4. \A u, v \in Txs : RefundDone(u)' /\ RefundDone(v)' /\ txs'[u].order = txs'[v].order
                             => u = v
    BY <1>7 DEF SpendingIInv, RefundedOnce
  <2> QED BY <2>1, <2>3, <2>4 DEF RefundedOnce
<1>9. ConsumedBudgetIsSpent'
  <2> DEFINE S == {p \in Enterprise : Spent(p)}
             T == {p \in Enterprise : Spent(p)'}
  <2>1. \A p \in Orders : p # o => (Spent(p)' <=> Spent(p))
    BY <1>5, <1>6 DEF Spent, Refunded
  <2>2. Spent(o)' /\ ~Spent(o)
    BY <1>3, <1>5, <1>6 DEF Spent, Refunded
  <2>3. Enterprise \subseteq Orders
    BY TradeAssumption
  <2>4. IsFiniteSet(S) /\ \A p \in S \cup {o} : cents[p] \in Int
    BY PricesAddUp, TradeAssumption
  <2>5. CASE o \in Enterprise
    <3>1. T = S \cup {o} /\ o \notin S
      BY <2>1, <2>2, <2>3, <2>5
    <3> HIDE DEF S, T
    <3>2. SumFunctionOnSet(cents, T) = cents[o] + SumFunctionOnSet(cents, S)
      BY <2>4, <3>1, SumAdd
    <3>3. purse'[Workspace].consumed = purse[Workspace].consumed + cents[o]
      BY <1>1, <1>2, <2>5, BudgetConsumes DEF PayCommit
    <3>4. SumFunctionOnSet(cents, S) \in Int /\ cents[o] \in Int
      BY <2>4, SumIsInteger
    <3>5. purse[Workspace].consumed = SumFunctionOnSet(cents, S)
      BY DEF SpendingIInv, ConsumedBudgetIsSpent, S
    <3>6. purse'[Workspace].consumed = SumFunctionOnSet(cents, T)
      BY <3>2, <3>3, <3>4, <3>5
    <3> QED BY <3>6 DEF ConsumedBudgetIsSpent, T
  <2>6. CASE o \notin Enterprise
    <3>1. T = S
      BY <2>1, <2>3, <2>6
    <3>2. UNCHANGED purse
      BY <1>2, <2>6 DEF PayCommit
    <3> QED BY <3>1, <3>2 DEF SpendingIInv, ConsumedBudgetIsSpent
  <2> QED BY <2>5, <2>6
<1> QED BY <1>8, <1>9 DEF SpendingIInv

\* A refund takes its order out of the spent ones, where it was until now.
LEMMA RefundCommitKeepsSpending ==
    ASSUME SpendingIInv, DeliveryIInv', NEW t \in Txs, RefundCommit(t)
    PROVE  SpendingIInv'
<1>1. /\ TradeIInv /\ Close(t) /\ txs[t] # Closed /\ txs[t].op = "refund"
      /\ txs[t].at = "done" /\ UNCHANGED wallet
  BY DEF SpendingIInv, DeliveryIInv, RefundCommit, Is
<1>2. PICK o \in Orders : o = txs[t].order
  BY <1>1, OpenTx
<1>3. PICK r \in Refunds : r = txs[t].refund /\ refunds[r].order = o
  BY <1>1, <1>2, OpenTx DEF Supported
<1>4. /\ refunds'[r].order = o /\ refunds'[r].status = "REFUNDED"
      /\ \A q \in Refunds : q # r => refunds'[q] = refunds[q]
  <2>1. refunds' = [refunds EXCEPT ![r].status = "REFUNDED"]
    BY <1>3 DEF RefundCommit
  <2>2. refunds[r] \in [order : Orders \cup {NoOrder}, status : {"NONE", "REQUESTED", "REFUNDED"}]
    BY <1>1, Types
  <2> QED BY <1>1, <1>3, <2>1, <2>2, Types
<1>5. Refunded(o)' /\ \A p \in Orders : p # o => (Refunded(p)' <=> Refunded(p))
  BY <1>3, <1>4 DEF Refunded
<1>6. \A p \in Orders : orders'[p].transfer = orders[p].transfer
  <2>1. Becomes(o, "REFUNDED", FALSE)
    BY <1>2 DEF RefundCommit
  <2> QED BY <1>1, <2>1, StatusWritten
<1>7. \A u \in Txs : RefundDone(u)' => /\ RefundDone(u) /\ txs'[u] = txs[u] /\ u # t
                                       /\ txs[u].order \in Orders
  <2>1. \A u \in Txs : RefundDone(u)' => RefundDone(u) /\ txs'[u] = txs[u]
    BY <1>1, <1>6, OneMovesNoRefund DEF Close
  <2>2. ~RefundDone(t)'
    BY <1>1, Types DEF Close, RefundDone
  <2> QED BY <1>1, <2>1, <2>2, OpenTx DEF RefundDone
<1>8. orders[o].transfer => wallet[o].reversed /\ RefundDone(t)
  <2>1. GivenBack(o)
    BY <1>1, <1>2, OpenTx DEF Supported
  <2> QED BY <1>1, <1>2, <2>1 DEF TradeIInv, OrderOK, GivenBack, RefundDone
<1>9. RefundedOnce'
  <2>1. \A p \in Orders : orders'[p].transfer /\ Refunded(p)' => wallet'[p].reversed
    BY <1>1, <1>5, <1>6, <1>8 DEF SpendingIInv, RefundedOnce
  <2>2. ASSUME NEW u \in Txs, RefundDone(u)' PROVE ~Refunded(txs[u].order)'
    <3>1. PICK p \in Orders : p = txs[u].order /\ p = txs'[u].order
      BY <1>7, <2>2
    <3>2. p # o
      BY <1>2, <1>7, <1>8, <2>2, <3>1 DEF SpendingIInv, RefundedOnce, RefundDone
    <3>3. ~Refunded(p)
      BY <1>7, <2>2, <3>1 DEF SpendingIInv, RefundedOnce
    <3>4. ~Refunded(p)'
      BY <1>5, <3>2, <3>3
    <3> QED BY <3>1, <3>4 DEF Refunded
  <2>3. \A u, v \in Txs : RefundDone(u)' /\ RefundDone(v)' /\ txs'[u].order = txs'[v].order
                             => u = v
    BY <1>7 DEF SpendingIInv, RefundedOnce
  <2> QED BY <2>1, <2>2, <2>3 DEF RefundedOnce
<1>10. ConsumedBudgetIsSpent'
  <2> DEFINE S == {p \in Enterprise : Spent(p)}
             T == {p \in Enterprise : Spent(p)'}
  <2>1. \A p \in Orders : p # o => (Spent(p)' <=> Spent(p))
    BY <1>5, <1>6 DEF Spent, Refunded
  <2>2. ~Spent(o)'
    BY <1>5 DEF Spent, Refunded
  <2>3. Enterprise \subseteq Orders
    BY TradeAssumption
  <2>4. CASE o \in Enterprise /\ orders[o].transfer
    <3>1. Spent(o)
      BY <1>2, <1>8, <2>4 DEF SpendingIInv, RefundedOnce, Spent, Refunded
    <3>2. T = S \ {o} /\ o \in S
      BY <2>1, <2>2, <2>3, <2>4, <3>1
    <3>3. IsFiniteSet(S) /\ \A p \in S : cents[p] \in Int
      BY PricesAddUp
    <3>4. purse'[Workspace].consumed = purse[Workspace].consumed - cents[o]
      BY <1>1, <1>2, <2>4, BudgetConsumes DEF RefundCommit
    <3>5. purse[Workspace].consumed = SumFunctionOnSet(cents, S)
      BY DEF SpendingIInv, ConsumedBudgetIsSpent
    <3> HIDE DEF S, T
    <3>6. SumFunctionOnSet(cents, S) = cents[o] + SumFunctionOnSet(cents, T)
      BY <3>2, <3>3, SumRemove
    <3>7. IsFiniteSet(T) /\ \A p \in T : cents[p] \in Int
      BY <3>2, <3>3, FS_RemoveElement
    <3>8. SumFunctionOnSet(cents, T) \in Int /\ cents[o] \in Int
      BY <3>2, <3>3, <3>7, SumIsInteger
    <3>9. purse'[Workspace].consumed = SumFunctionOnSet(cents, T)
      BY <3>4, <3>5, <3>6, <3>8
    <3> QED BY <3>9 DEF ConsumedBudgetIsSpent, T
  <2>5. CASE ~(o \in Enterprise /\ orders[o].transfer)
    <3>1. T = S
      BY <2>1, <2>2, <2>3, <2>5 DEF Spent
    <3>2. UNCHANGED purse
      BY <1>2, <2>5 DEF RefundCommit
    <3> QED BY <3>1, <3>2 DEF SpendingIInv, ConsumedBudgetIsSpent
  <2> QED BY <2>4, <2>5
<1> QED BY <1>9, <1>10 DEF SpendingIInv

LEMMA NextKeepsSpending == SpendingIInv /\ [Next]_vars => SpendingIInv'
<1> SUFFICES ASSUME SpendingIInv, [Next]_vars PROVE SpendingIInv'
  OBVIOUS
<1>1. TradeIInv /\ DeliveryIInv'
  BY NextKeepsDelivery DEF SpendingIInv, DeliveryIInv
<1>2. CASE \E o \in Orders : Create(o) \/ Submit(o)
  BY <1>1, <1>2, CreatingKeepsSpending
<1>3. CASE \E o \in Orders : Reject(o)
  BY <1>1, <1>3, WritesKeepSpending
<1>4. CASE UNCHANGED tradeVars
  <2>1. UNCHANGED <<orders, refunds, wallet, purse, txs>>
    BY <1>4 DEF tradeVars
  <2>2. \A p \in Orders : Refunded(p)' = Refunded(p)
    BY <2>1 DEF Refunded
  <2>3. \A t \in Txs : RefundDone(t)' => RefundDone(t) /\ txs'[t] = txs[t]
    BY <2>1 DEF RefundDone
  <2> QED BY <1>1, <2>1, <2>2, <2>3, SpendingStays
<1>5. CASE \E t \in Txs : \/ \E o \in Orders : ReadStep(t, o)
                          \/ \E r \in Refunds : RefundLock(t, r)
                          \/ Abandon(t)
  BY <1>1, <1>5, OpeningKeepsSpending
<1>6. CASE \E t \in Txs : Proceed(t)
  BY <1>1, <1>6, OpeningKeepsSpending, WritesKeepSpending, RequestKeepsSpending,
     RefundCallKeepsSpending, PayCommitKeepsSpending, RefundCommitKeepsSpending
     DEF Proceed, OrderWrite
<1>7. (\E o \in Orders : Time(o)) \/ UNCHANGED vars => UNCHANGED tradeVars
  BY DEF Time, vars, tradeVars
<1> QED BY <1>2, <1>3, <1>4, <1>5, <1>6, <1>7 DEF Next

LEMMA InitSpendingIInv == Init => SpendingIInv
<1> SUFFICES ASSUME Init PROVE SpendingIInv
  OBVIOUS
<1>1. DeliveryIInv
  BY InitDeliveryIInv
<1>2. \A o \in Orders : ~orders[o].transfer
  BY DEF Init
<1>3. \A t \in Txs : ~RefundDone(t)
  BY DEF Init, RefundDone
<1>4. RefundedOnce
  BY <1>2, <1>3 DEF RefundedOnce
<1>5. {o \in Enterprise : Spent(o)} = {}
  BY <1>2, TradeAssumption DEF Spent
<1>6. ConsumedBudgetIsSpent
  BY <1>5, SumEmpty DEF ConsumedBudgetIsSpent, Init
<1> QED BY <1>1, <1>4, <1>6 DEF SpendingIInv

\* PurchaseApprovalService, OrderService and RefundService: across lost answers,
\* rollbacks and repeated refund requests, the consumed budget is what the
\* enterprise's charged and not refunded orders cost.
THEOREM SpendingAddsUp == Spec => []ConsumedBudgetIsSpent
<1>1. SpendingIInv => ConsumedBudgetIsSpent
  BY DEF SpendingIInv
<1> QED BY <1>1, InitSpendingIInv, NextKeepsSpending, PTL DEF Spec
-----------------------------------------------------------------------------
(* The wallet: the orders use it as OrderMoney allows.  A fourth layer over *)
(* TradeIInv: what was given back was taken before, because a refund calls  *)
(* the wallet only for an order that knows its transfer.                    *)

TakenFirst == \A o \in Orders : wallet[o].reversed => wallet[o].charged

OrderMoneyIInv == TradeIInv /\ TakenFirst

LEMMA PlacesStep ==
    ASSUME NEW o \in Orders, \A p \in Orders : p # o => wallet'[p] = wallet[p],
           \/ Place(o)' = Place(o)
           \/ Place(o) = "buyer" /\ Place(o)' = "taken"
           \/ Place(o) = "taken" /\ Place(o)' = "returned"
    PROVE  [PerOrder!Next]_Places
<1>1. \A p \in Orders : p # o => Place(p)' = Place(p)
  BY DEF Place
<1>2. Places' = [Places EXCEPT ![o] = Place(o)'] /\ Places[o] = Place(o)
  BY <1>1 DEF Places
<1>3. CASE Place(o)' = Place(o)
  BY <1>1, <1>3 DEF Places
<1>4. CASE Place(o) = "buyer" /\ Place(o)' = "taken"
  BY <1>2, <1>4 DEF PerOrder!Next, PerOrder!Take
<1>5. CASE Place(o) = "taken" /\ Place(o)' = "returned"
  BY <1>2, <1>5 DEF PerOrder!Next, PerOrder!GiveBack
<1> QED BY <1>3, <1>4, <1>5

LEMMA WalletCallsAsAllowed ==
    ASSUME OrderMoneyIInv, NEW t \in Txs, PayCall(t) \/ RefundCall(t) \/ SettleCall(t)
    PROVE  TakenFirst' /\ [PerOrder!Next]_Places
<1>1. TradeIInv /\ TakenFirst
  BY DEF OrderMoneyIInv
<1>2. PICK o \in Orders : o = txs[t].order
  BY <1>1, OpenTx DEF PayCall, RefundCall, SettleCall, Is
<1>3. wallet \in [Orders -> Transfers] /\ wallet[o] \in Transfers
  BY <1>1, Types
<1>4. CASE UNCHANGED wallet
  BY <1>1, <1>4 DEF TakenFirst, Places, Place
<1>5. CASE ~wallet[o].charged /\ wallet' = [wallet EXCEPT ![o].charged = TRUE]
  <2>1. /\ wallet'[o].charged /\ wallet'[o].reversed = wallet[o].reversed
        /\ \A p \in Orders : p # o => wallet'[p] = wallet[p]
    BY <1>3, <1>5 DEF Transfers
  <2>2. ~wallet[o].reversed
    BY <1>1, <1>5 DEF TakenFirst
  <2>3. Place(o) = "buyer" /\ Place(o)' = "taken"
    BY <1>5, <2>1, <2>2 DEF Place
  <2>4. TakenFirst'
    BY <1>1, <2>1 DEF TakenFirst
  <2> QED BY <2>1, <2>3, <2>4, PlacesStep
<1>6. CASE /\ orders[o].transfer /\ ~wallet[o].reversed
           /\ wallet' = [wallet EXCEPT ![o].reversed = TRUE]
  <2>1. /\ wallet'[o].reversed /\ wallet'[o].charged = wallet[o].charged
        /\ \A p \in Orders : p # o => wallet'[p] = wallet[p]
    BY <1>3, <1>6 DEF Transfers
  <2>2. wallet[o].charged
    BY <1>1, <1>6 DEF TradeIInv, OrderOK
  <2>3. Place(o) = "taken" /\ Place(o)' = "returned"
    BY <1>6, <2>1, <2>2 DEF Place
  <2>4. TakenFirst'
    BY <1>1, <2>1, <2>2 DEF TakenFirst
  <2> QED BY <2>1, <2>3, <2>4, PlacesStep
<1>7. CASE wallet' = [wallet EXCEPT ![o].released = TRUE]
  <2>1. /\ wallet'[o].charged = wallet[o].charged /\ wallet'[o].reversed = wallet[o].reversed
        /\ \A p \in Orders : p # o => wallet'[p] = wallet[p]
    BY <1>3, <1>7 DEF Transfers
  <2>2. Place(o)' = Place(o)
    BY <2>1 DEF Place
  <2>3. TakenFirst'
    BY <1>1, <2>1 DEF TakenFirst
  <2> QED BY <2>1, <2>2, <2>3, PlacesStep
<1> QED BY <1>2, <1>4, <1>5, <1>6, <1>7 DEF PayCall, RefundCall, SettleCall

LEMMA NextKeepsOrderMoney ==
    OrderMoneyIInv /\ [Next]_vars => OrderMoneyIInv' /\ [PerOrder!Next]_Places
<1> SUFFICES ASSUME OrderMoneyIInv, [Next]_vars
             PROVE  OrderMoneyIInv' /\ [PerOrder!Next]_Places
  OBVIOUS
<1>1. TradeIInv'
  BY NextKeepsTradeIInv DEF OrderMoneyIInv
<1>2. CASE UNCHANGED wallet
  BY <1>1, <1>2 DEF OrderMoneyIInv, TakenFirst, Places, Place
<1>3. CASE \E t \in Txs : PayCall(t) \/ RefundCall(t) \/ SettleCall(t)
  BY <1>1, <1>3, WalletCallsAsAllowed DEF OrderMoneyIInv
<1>4. UNCHANGED wallet \/ \E t \in Txs : PayCall(t) \/ RefundCall(t) \/ SettleCall(t)
  <2>1. CASE \E o \in Orders : Create(o) \/ Submit(o) \/ Time(o) \/ Reject(o)
    BY <2>1 DEF Create, Submit, Time, Reject, tradeVars
  <2>2. CASE \E t \in Txs : \/ \E o \in Orders : ReadStep(t, o)
                            \/ \E r \in Refunds : RefundLock(t, r)
                            \/ Abandon(t)
    BY <2>2 DEF ReadStep, PayRead, CancelRead, ApproveRead, RequestRead, ExpireRead,
       SettleRead, RefundLock, Abandon
  <2>3. CASE \E t \in Txs : Proceed(t)
    BY <2>3 DEF Proceed, OrderWrite, PayLock, PayCommit, CancelWrite, ApproveWrite,
       RequestWrite, RefundCommit, ExpireWrite
  <2>4. CASE UNCHANGED tradeVars \/ UNCHANGED vars
    BY <2>4 DEF tradeVars, vars
  <2> QED BY <2>1, <2>2, <2>3, <2>4 DEF Next
<1> QED BY <1>2, <1>3, <1>4

\* OrderService and RefundService: across retries, lost answers and rollbacks
\* the backend has the wallet give back only what it took before.
THEOREM OrdersUseOrderMoney == Spec => UsesOrderMoney
<1>1. Init => OrderMoneyIInv /\ PerOrder!Init
  BY InitTradeIInv DEF Init, OrderMoneyIInv, TakenFirst, NoTransfer, PerOrder!Init, Places, Place
<1> QED BY <1>1, NextKeepsOrderMoney, PTL DEF Spec, PerOrder!Spec, UsesOrderMoney
-----------------------------------------------------------------------------
(* The monthly limit: a reservation is checked against it, and paying only *)
(* moves reserved money on, so what the enterprise has spent is covered.   *)

\* The purse never holds more than its limit, which nobody changes here.
PurseWithinLimit ==
    LET p == purse[Workspace]
    IN  /\ p.amount = MonthLimit
        /\ MonthLimit > 0 => p.reserved + p.consumed <= MonthLimit

\* A step that leaves the budget alone, or moves the price of one order in it.
BudgetStep ==
    \/ UNCHANGED purse
    \/ \E o \in Orders : \/ Budget!Reserve(Workspace, cents[o])
                         \/ Budget!Release(Workspace, cents[o])
                         \/ Budget!Consume(Workspace, cents[o])
                         \/ Budget!Reverse(Workspace, cents[o])

LEMMA NextIsBudgetStep ==
    ASSUME TradeIInv, [Next]_vars
    PROVE  BudgetStep
<1>1. CASE \E o \in Orders : Create(o) \/ Submit(o) \/ Time(o) \/ Reject(o)
  BY <1>1 DEF Create, Submit, Time, Reject, tradeVars, BudgetStep
<1>2. CASE \E t \in Txs : \/ \E o \in Orders : ReadStep(t, o)
                          \/ \E r \in Refunds : RefundLock(t, r)
                          \/ Abandon(t)
  BY <1>2 DEF ReadStep, PayRead, CancelRead, ApproveRead, RequestRead, ExpireRead,
     SettleRead, RefundLock, Abandon, BudgetStep
<1>3. ASSUME NEW t \in Txs, Proceed(t) PROVE BudgetStep
  <2>1. CASE PayCommit(t)
    <3>1. txs[t].order \in Orders
      BY <2>1, OpenTx DEF PayCommit, Is
    <3> QED BY <2>1, <3>1 DEF PayCommit, BudgetStep
  <2>2. CASE RefundCommit(t)
    <3>1. txs[t].order \in Orders
      BY <2>2, OpenTx DEF RefundCommit, Is
    <3> QED BY <2>2, <3>1 DEF RefundCommit, BudgetStep
  <2>3. CASE OrderWrite(t) /\ ~PayCommit(t)
    BY <2>3 DEF OrderWrite, PayLock, PayCall, CancelWrite, ApproveWrite, RequestWrite,
       RefundCall, SettleCall, BudgetStep
  <2>4. CASE ExpireWrite(t)
    BY <2>4 DEF ExpireWrite, BudgetStep
  <2> QED BY <1>3, <2>1, <2>2, <2>3, <2>4 DEF Proceed
<1>4. CASE UNCHANGED tradeVars \/ UNCHANGED vars
  BY <1>4 DEF tradeVars, vars, BudgetStep
<1> QED BY <1>1, <1>2, <1>3, <1>4 DEF Next

LEMMA BudgetStepKeepsLimit ==
    ASSUME TradeIInv, PurseWithinLimit, BudgetStep
    PROVE  PurseWithinLimit'
<1> DEFINE p == purse[Workspace]
<1>1. p \in Budget!Purses /\ purse \in [{Workspace} -> Budget!Purses]
  BY Types
<1>2. CASE UNCHANGED purse
  BY <1>2 DEF PurseWithinLimit
<1>3. ASSUME NEW o \in Orders,
             \/ Budget!Reserve(Workspace, cents[o]) \/ Budget!Release(Workspace, cents[o])
             \/ Budget!Consume(Workspace, cents[o]) \/ Budget!Reverse(Workspace, cents[o])
      PROVE  PurseWithinLimit'
  <2>1. cents[o] \in Nat /\ MonthLimit \in Nat
    BY Types, TradeAssumption
  <2>2. PICK d \in Int, e \in Int :
          /\ Budget!Move(Workspace, d, e)
          /\ d + e <= 0 \/ (Budget!WithinLimits(p, d) /\ e = 0)
    <3>1. PICK a \in Nat : a = cents[o]
      BY <2>1
    <3>2. 0 \in Int /\ -a \in Int /\ a \in Int /\ -a + a <= 0 /\ -a + 0 <= 0 /\ 0 + -a <= 0
      OBVIOUS
    <3>3. CASE Budget!Reserve(Workspace, cents[o])
      BY <3>1, <3>2, <3>3 DEF Budget!Reserve
    <3>4. CASE Budget!Release(Workspace, cents[o])
      BY <3>1, <3>2, <3>4 DEF Budget!Release
    <3>5. CASE Budget!Consume(Workspace, cents[o])
      BY <3>1, <3>2, <3>5 DEF Budget!Consume
    <3>6. CASE Budget!Reverse(Workspace, cents[o])
      BY <3>1, <3>2, <3>6 DEF Budget!Reverse
    <3> QED BY <1>3, <3>3, <3>4, <3>5, <3>6
  <2>3. PICK new : new = Budget!Moved(p, d, e)
    OBVIOUS
  <2>4. purse'[Workspace] = new
    BY <1>1, <2>2, <2>3 DEF Budget!Move
  <2>5. /\ new.amount = p.amount
        /\ new.reserved = p.reserved + d /\ new.consumed = p.consumed + e
    BY <2>3 DEF Budget!Moved
  <2>6. /\ p.amount = MonthLimit /\ p.reserved \in Nat /\ p.consumed \in Nat
        /\ MonthLimit > 0 => p.reserved + p.consumed <= MonthLimit
    BY <1>1 DEF PurseWithinLimit, Budget!Purses
  <2>7. MonthLimit > 0 => new.reserved + new.consumed <= MonthLimit
    BY <2>1, <2>2, <2>5, <2>6 DEF Budget!WithinLimits
  <2> QED BY <2>4, <2>5, <2>6, <2>7 DEF PurseWithinLimit
<1> QED BY <1>2, <1>3 DEF BudgetStep

\* What the enterprise has spent, on orders that were charged and not refunded.
SpentWithinLimit ==
    MonthLimit > 0 =>
        SumFunctionOnSet(cents, {o \in Enterprise : Spent(o)}) <= MonthLimit

\* PurchaseBudgetService as OrderService uses it: however calls of the wallet
\* fail and are tried again, the enterprise never spends more than its monthly
\* limit.
THEOREM SpendingStaysInLimit == Spec => []SpentWithinLimit
<1>1. Init => PurseWithinLimit
  BY TradeAssumption DEF Init, PurseWithinLimit
<1>2. TradeIInv /\ PurseWithinLimit /\ [Next]_vars => PurseWithinLimit'
  BY NextIsBudgetStep, BudgetStepKeepsLimit
<1>3. TradeIInv /\ PurseWithinLimit /\ ConsumedBudgetIsSpent => SpentWithinLimit
  <2> SUFFICES ASSUME TradeIInv, PurseWithinLimit, ConsumedBudgetIsSpent, MonthLimit > 0
               PROVE  SumFunctionOnSet(cents, {o \in Enterprise : Spent(o)}) <= MonthLimit
    BY DEF SpentWithinLimit
  <2>1. purse[Workspace].reserved \in Nat /\ purse[Workspace].consumed \in Nat
    BY Types DEF Budget!Purses
  <2>2. purse[Workspace].consumed <= MonthLimit
    BY <2>1, TradeAssumption DEF PurseWithinLimit
  <2> QED BY <2>2 DEF ConsumedBudgetIsSpent
<1> QED BY <1>1, <1>2, <1>3, TradeInvariantHolds, SpendingAddsUp, PTL DEF Spec
-----------------------------------------------------------------------------
(* What the budget shows as reserved: a fifth layer.  Only orders that     *)
(* were made have purchase requests, transfers and open transactions, so a *)
(* payment that commits moves the price of an unpaid order out of the      *)
(* reserved budget, and every other step leaves the unpaid orders alone or *)
(* adds the one it reserves for.                                           *)

OnlyMade ==
    /\ \A o \in Orders : orders[o].status = "NONE" => ~orders[o].transfer /\ requests[o] = "NONE"
    /\ \A t \in Txs : txs[t] # Closed => orders[txs[t].order].status # "NONE"

ReservedIInv == DeliveryIInv /\ OnlyMade /\ ReservedBudgetHasOrders

\* A step does not touch an order that is not made after it.
UnmadeUntouched ==
    \A o \in Orders : orders'[o].status = "NONE" =>
        orders'[o].transfer = orders[o].transfer /\ requests'[o] = requests[o]

LEMMA NextLeavesUnmade ==
    ASSUME TradeIInv, [Next]_vars
    PROVE  UnmadeUntouched
<1>1. CASE UNCHANGED <<orders, requests>>
  BY <1>1 DEF UnmadeUntouched
<1>2. ASSUME NEW o \in Orders, NEW s, s # "NONE", Becomes(o, s, FALSE),
             \/ UNCHANGED requests
             \/ \E q : requests' = [requests EXCEPT ![o] = q]
      PROVE  UnmadeUntouched
  <2>1. orders'[o].status = s /\ \A p \in Orders : orders'[p].transfer = orders[p].transfer
    BY <1>2, StatusWritten
  <2>2. \A p \in Orders : p # o => requests'[p] = requests[p]
    BY <1>2, Types
  <2> QED BY <1>2, <2>1, <2>2 DEF UnmadeUntouched
<1>3. CASE \E o \in Orders : Create(o) \/ Submit(o)
  <2>1. PICK o \in Orders, s \in {"FULFILLED", "PENDING_PAYMENT", "PENDING_APPROVAL"} :
          /\ orders' = [orders EXCEPT ![o].status = s]
          /\ UNCHANGED requests \/ \E q : requests' = [requests EXCEPT ![o] = q]
    BY <1>3 DEF Create, Submit
  <2>2. orders[o] \in [status : OrderStatus \cup {"NONE"}, transfer : BOOLEAN]
    BY Types
  <2>3. orders'[o].status = s /\ \A p \in Orders : p # o => orders'[p] = orders[p]
    BY <2>1, <2>2, Types
  <2> QED BY <2>1, <2>3, Types DEF UnmadeUntouched
<1>4. CASE \E o \in Orders : Reject(o)
  BY <1>2, <1>4 DEF Reject
<1>5. CASE \E t \in Txs : PayCommit(t)
  <2> PICK t \in Txs : PayCommit(t)
    BY <1>5
  <2> PICK o \in Orders : o = txs[t].order
    BY OpenTx DEF PayCommit, Is
  <2>1. /\ orders' = [orders EXCEPT ![o] = [status |-> "FULFILLED", transfer |-> TRUE]]
        /\ UNCHANGED requests
    BY DEF PayCommit
  <2> QED BY <2>1, Types DEF UnmadeUntouched
<1>6. CASE \E t \in Txs : \/ CancelWrite(t) \/ ApproveWrite(t) \/ ExpireWrite(t)
                          \/ RefundCommit(t) \/ \E r \in Refunds : RequestWrite(t, r)
  <2> PICK t \in Txs : \/ CancelWrite(t) \/ ApproveWrite(t) \/ ExpireWrite(t)
                       \/ RefundCommit(t) \/ \E r \in Refunds : RequestWrite(t, r)
    BY <1>6
  <2> PICK o \in Orders : o = txs[t].order
    BY OpenTx DEF CancelWrite, ApproveWrite, ExpireWrite, RefundCommit, RequestWrite, Is
  <2> PICK s \in {"CANCELLED", "PENDING_PAYMENT", "EXPIRED", "REFUNDED", "REFUND_REQUESTED"} :
        Becomes(o, s, FALSE)
    BY DEF CancelWrite, ApproveWrite, ExpireWrite, RefundCommit, RequestWrite
  <2>1. UNCHANGED requests \/ \E q : requests' = [requests EXCEPT ![o] = q]
    BY DEF CancelWrite, ApproveWrite, ExpireWrite, RefundCommit, RequestWrite
  <2> QED BY <1>2, <2>1
<1>7. CASE \E t \in Txs : \/ \E o \in Orders : ReadStep(t, o)
                          \/ \E r \in Refunds : RefundLock(t, r)
                          \/ Abandon(t) \/ PayLock(t) \/ PayCall(t) \/ RefundCall(t)
                          \/ SettleCall(t)
  BY <1>1, <1>7 DEF ReadStep, PayRead, CancelRead, ApproveRead, RequestRead, ExpireRead,
     SettleRead, RefundLock, Abandon, PayLock, PayCall, RefundCall, SettleCall
<1>8. CASE (\E o \in Orders : Time(o)) \/ UNCHANGED tradeVars \/ UNCHANGED vars
  BY <1>1, <1>8 DEF Time, tradeVars, vars
<1> QED BY <1>3, <1>4, <1>5, <1>6, <1>7, <1>8 DEF Next, Proceed, OrderWrite

\* A transaction is open for the order it was opened for, which was made then.
MadeFor(tx) == tx # Closed => tx.order \in Orders /\ orders[tx.order].status # "NONE"

LEMMA NextOpensMade ==
    ASSUME TradeIInv, OnlyMade, [Next]_vars
    PROVE  \A t \in Txs : MadeFor(txs'[t])
<1>1. \A t \in Txs : MadeFor(txs[t])
  BY OpenTx DEF OnlyMade, MadeFor
<1>2. ASSUME NEW t \in Txs, NEW tx, txs' = [txs EXCEPT ![t] = tx], MadeFor(tx)
      PROVE  \A u \in Txs : MadeFor(txs'[u])
  <2> QED BY <1>1, <1>2, Types
<1>3. CASE UNCHANGED txs
  BY <1>1, <1>3
<1>4. CASE \E t \in Txs : Close(t)
  <2>1. MadeFor(Closed)
    BY DEF MadeFor
  <2> QED BY <1>2, <1>4, <2>1 DEF Close
<1>5. CASE \E t \in Txs, at \in {"locked", "done", "failed"} : txs[t] # Closed /\ Goes(t, at)
  <2>1. PICK t \in Txs, at \in {"locked", "done", "failed"} : txs[t] # Closed /\ Goes(t, at)
    BY <1>5
  <2>2. PICK tx : tx = [txs[t] EXCEPT !.at = at]
    OBVIOUS
  <2>3. txs[t] \in Opened
    BY <2>1, OpenTx
  <2>4. tx.order = txs[t].order
    BY <2>2, <2>3 DEF Opened
  <2>5. MadeFor(tx)
    BY <1>1, <2>1, <2>4 DEF MadeFor
  <2>6. txs' = [txs EXCEPT ![t] = tx]
    BY <2>1, <2>2, Types DEF Goes
  <2> QED BY <1>2, <2>5, <2>6
<1>6. CASE \E t \in Txs, o \in Orders : ReadStep(t, o)
  <2>1. PICK t \in Txs, o \in Orders, op \in {"pay", "cancel", "approve", "request", "expire", "settle"} :
          /\ txs' = [txs EXCEPT ![t] = [op |-> op, order |-> o, refund |-> 0, at |-> "read"]]
          /\ orders[o].status # "NONE"
    BY <1>6 DEF ReadStep, PayRead, CancelRead, ApproveRead, RequestRead, ExpireRead,
       SettleRead, Open, OnlyMade
  <2>2. PICK tx : tx = [op |-> op, order |-> o, refund |-> 0, at |-> "read"]
    OBVIOUS
  <2>3. MadeFor(tx)
    BY <2>1, <2>2 DEF MadeFor
  <2> QED BY <1>2, <2>1, <2>2, <2>3
<1>7. CASE \E t \in Txs, r \in Refunds : RefundLock(t, r)
  <2> PICK t \in Txs, r \in Refunds : RefundLock(t, r)
    BY <1>7
  <2> PICK o : o = refunds[r].order
    OBVIOUS
  <2>1. /\ o # NoOrder
          /\ txs' = [txs EXCEPT ![t] = [op |-> "refund", order |-> o, refund |-> r,
                                        at |-> "locked"]]
    BY DEF RefundLock, Open
  <2>2. o \in Orders /\ orders[o].status # "NONE"
    BY <2>1, Types DEF TradeIInv, RefundOK
  <2>3. PICK tx : tx = [op |-> "refund", order |-> o, refund |-> r, at |-> "locked"]
    OBVIOUS
  <2>4. MadeFor(tx)
    BY <2>2, <2>3 DEF MadeFor
  <2> QED BY <1>2, <2>1, <2>3, <2>4
<1>8. \/ UNCHANGED txs
      \/ \E t \in Txs : Close(t)
      \/ \E t \in Txs, at \in {"locked", "done", "failed"} : txs[t] # Closed /\ Goes(t, at)
      \/ \E t \in Txs, o \in Orders : ReadStep(t, o)
      \/ \E t \in Txs, r \in Refunds : RefundLock(t, r)
  <2>1. CASE \E o \in Orders : Create(o) \/ Submit(o) \/ Time(o) \/ Reject(o)
    BY <2>1 DEF Create, Submit, Time, Reject, tradeVars
  <2>2. CASE \E t \in Txs : Abandon(t) \/ PayCommit(t) \/ CancelWrite(t) \/ ApproveWrite(t)
                            \/ SettleCall(t) \/ RefundCommit(t) \/ ExpireWrite(t)
                            \/ \E r \in Refunds : RequestWrite(t, r)
    BY <2>2 DEF Abandon, PayCommit, CancelWrite, ApproveWrite, SettleCall, RefundCommit,
       ExpireWrite, RequestWrite
  <2>3. CASE \E t \in Txs : PayLock(t) \/ PayCall(t) \/ RefundCall(t)
    BY <2>3 DEF PayLock, PayCall, RefundCall, Is
  <2>4. CASE \E t \in Txs : \/ \E o \in Orders : ReadStep(t, o)
                            \/ \E r \in Refunds : RefundLock(t, r)
    BY <2>4
  <2>5. CASE UNCHANGED tradeVars \/ UNCHANGED vars
    BY <2>5 DEF tradeVars, vars
  <2> QED BY <2>1, <2>2, <2>3, <2>4, <2>5 DEF Next, Proceed, OrderWrite
<1> QED BY <1>3, <1>4, <1>5, <1>6, <1>7, <1>8

LEMMA NextKeepsOnlyMade ==
    ASSUME TradeIInv, OnlyMade, [Next]_vars
    PROVE  OnlyMade'
<1>1. ASSUME NEW o \in Orders, orders'[o].status = "NONE"
      PROVE  ~orders'[o].transfer /\ requests'[o] = "NONE"
  BY <1>1, NextLeavesUnmade, MadeStaysMade DEF OnlyMade, UnmadeUntouched
<1>2. ASSUME NEW t \in Txs, txs'[t] # Closed
      PROVE  orders'[txs'[t].order].status # "NONE"
  BY <1>2, NextOpensMade, MadeStaysMade DEF MadeFor
<1> QED BY <1>1, <1>2 DEF OnlyMade

LEMMA BudgetReserves ==
    ASSUME TradeIInv, NEW o \in Orders
    PROVE  /\ Budget!Reserve(Workspace, cents[o])
                => purse'[Workspace].reserved = purse[Workspace].reserved + cents[o]
           /\ Budget!Release(Workspace, cents[o]) \/ Budget!Consume(Workspace, cents[o])
                => purse'[Workspace].reserved = purse[Workspace].reserved - cents[o]
           /\ Budget!Reverse(Workspace, cents[o])
                => purse'[Workspace].reserved = purse[Workspace].reserved
<1>1. purse[Workspace].reserved \in Int /\ cents[o] \in Int
  BY Types DEF Budget!Purses
<1>2. ASSUME NEW d, NEW e, Budget!Move(Workspace, d, e)
      PROVE  purse'[Workspace].reserved = purse[Workspace].reserved + d
  <2> PICK new : new = Budget!Moved(purse[Workspace], d, e)
    OBVIOUS
  <2>1. purse' = [purse EXCEPT ![Workspace] = new]
    BY <1>2 DEF Budget!Move
  <2>2. purse'[Workspace] = new
    BY <2>1, Types
  <2> QED BY <2>2 DEF Budget!Moved
<1>3. ASSUME Budget!Reserve(Workspace, cents[o])
      PROVE  purse'[Workspace].reserved = purse[Workspace].reserved + cents[o]
  BY <1>2, <1>3 DEF Budget!Reserve
<1>4. ASSUME Budget!Release(Workspace, cents[o]) \/ Budget!Consume(Workspace, cents[o])
      PROVE  purse'[Workspace].reserved = purse[Workspace].reserved - cents[o]
  <2>1. purse'[Workspace].reserved = purse[Workspace].reserved + (-cents[o])
    BY <1>2, <1>4 DEF Budget!Release, Budget!Consume
  <2> QED BY <1>1, <2>1
<1>5. ASSUME Budget!Reverse(Workspace, cents[o])
      PROVE  purse'[Workspace].reserved = purse[Workspace].reserved
  <2>1. purse'[Workspace].reserved = purse[Workspace].reserved + 0
    BY <1>2, <1>5 DEF Budget!Reverse
  <2> QED BY <1>1, <2>1
<1> QED BY <1>3, <1>4, <1>5

\* A step after which the same orders are unpaid and no more is reserved.
LEMMA ReservedStays ==
    ASSUME TradeIInv, ReservedBudgetHasOrders,
           \A o \in Orders : Unpaid(o)' <=> Unpaid(o),
           purse' = purse \/ \E o \in Orders : \/ Budget!Release(Workspace, cents[o])
                                               \/ Budget!Reverse(Workspace, cents[o])
    PROVE  ReservedBudgetHasOrders'
<1> DEFINE U == {o \in Enterprise : Unpaid(o)}
<1>1. {o \in Enterprise : Unpaid(o)'} = U
  BY TradeAssumption
<1>2. purse'[Workspace].reserved <= purse[Workspace].reserved
      /\ purse'[Workspace].reserved \in Int
  <2>1. purse[Workspace].reserved \in Int
    BY Types DEF Budget!Purses
  <2>2. CASE purse' = purse
    BY <2>1, <2>2
  <2>3. ASSUME NEW o \in Orders, \/ Budget!Release(Workspace, cents[o])
                                 \/ Budget!Reverse(Workspace, cents[o])
        PROVE  purse'[Workspace].reserved <= purse[Workspace].reserved
               /\ purse'[Workspace].reserved \in Int
    <3>1. cents[o] \in Nat
      BY Types
    <3> QED BY <2>1, <2>3, <3>1, BudgetReserves
  <2> QED BY <2>2, <2>3
<1>3. SumFunctionOnSet(cents, U) \in Int /\ purse[Workspace].reserved \in Int
  <2>1. IsFiniteSet(U) /\ \A p \in U : cents[p] \in Int
    BY PricesAddUp
  <2> HIDE DEF U
  <2>2. SumFunctionOnSet(cents, U) \in Int
    BY <2>1, SumIsInteger
  <2> QED BY <2>2, Types DEF Budget!Purses
<1>4. purse[Workspace].reserved <= SumFunctionOnSet(cents, U)
  BY DEF ReservedBudgetHasOrders
<1> HIDE DEF U
<1>5. purse'[Workspace].reserved <= SumFunctionOnSet(cents, U)
  BY <1>2, <1>3, <1>4
<1> QED BY <1>1, <1>5 DEF ReservedBudgetHasOrders

\* A made order that gets another status is unpaid if it was.
LEMMA StatusKeepsUnpaid ==
    ASSUME TradeIInv, NEW o \in Orders, orders[o].status # "NONE",
           NEW s, s # "NONE", Becomes(o, s, FALSE)
    PROVE  \A p \in Orders : Unpaid(p)' <=> Unpaid(p)
BY StatusWritten DEF Unpaid

LEMMA SubmitKeepsReserved ==
    ASSUME ReservedIInv, NEW o \in Orders, Submit(o)
    PROVE  ReservedBudgetHasOrders'
<1> DEFINE U == {p \in Enterprise : Unpaid(p)}
           V == {p \in Enterprise : Unpaid(p)'}
<1>1. TradeIInv /\ ~Unpaid(o) /\ o \in Enterprise /\ ~orders[o].transfer
  BY DEF ReservedIInv, DeliveryIInv, OnlyMade, Submit, Unpaid
<1>2. /\ orders'[o].status = "PENDING_APPROVAL" /\ ~orders'[o].transfer
      /\ \A p \in Orders : p # o => orders'[p] = orders[p]
  <2>1. orders[o] \in [status : OrderStatus \cup {"NONE"}, transfer : BOOLEAN]
    BY <1>1, Types
  <2>2. orders' = [orders EXCEPT ![o].status = "PENDING_APPROVAL"]
    BY DEF Submit
  <2> QED BY <1>1, <2>1, <2>2, Types
<1>3. V = U \cup {o} /\ o \notin U
  BY <1>1, <1>2, TradeAssumption DEF Unpaid
<1>4. IsFiniteSet(U) /\ \A p \in U \cup {o} : cents[p] \in Int
  BY <1>1, PricesAddUp, TradeAssumption
<1>5. purse[Workspace].reserved <= SumFunctionOnSet(cents, U)
  BY DEF ReservedIInv, ReservedBudgetHasOrders
<1>6. purse'[Workspace].reserved = purse[Workspace].reserved + cents[o]
  BY <1>1, BudgetReserves DEF Submit
<1>7. purse[Workspace].reserved \in Int
  BY <1>1, Types DEF Budget!Purses
<1> HIDE DEF U, V
<1>8. SumFunctionOnSet(cents, V) = cents[o] + SumFunctionOnSet(cents, U)
  BY <1>3, <1>4, SumAdd
<1>9. SumFunctionOnSet(cents, U) \in Int /\ cents[o] \in Int
  BY <1>4, SumIsInteger
<1>10. purse'[Workspace].reserved <= SumFunctionOnSet(cents, V)
  BY <1>5, <1>6, <1>7, <1>8, <1>9
<1> QED BY <1>10 DEF ReservedBudgetHasOrders, V

LEMMA PayCommitKeepsReserved ==
    ASSUME ReservedIInv, NEW t \in Txs, PayCommit(t)
    PROVE  ReservedBudgetHasOrders'
<1>1. TradeIInv /\ PaymentDone(t) /\ txs[t] # Closed
  BY DEF ReservedIInv, DeliveryIInv, PaymentDone, PayCommit, Is
<1>2. PICK o \in Orders : o = txs[t].order
  BY <1>1, OpenTx
<1>3. Unpaid(o)
  BY <1>1, <1>2 DEF ReservedIInv, DeliveryIInv, OnlyMade, Unpaid
<1>4. orders'[o].transfer /\ \A p \in Orders : p # o => orders'[p] = orders[p]
  <2>1. orders' = [orders EXCEPT ![o] = [status |-> "FULFILLED", transfer |-> TRUE]]
    BY <1>2 DEF PayCommit
  <2> QED BY <1>1, <2>1, Types
<1> DEFINE U == {p \in Enterprise : Unpaid(p)}
           V == {p \in Enterprise : Unpaid(p)'}
<1>5. purse[Workspace].reserved <= SumFunctionOnSet(cents, U)
  BY DEF ReservedIInv, ReservedBudgetHasOrders
<1>6. CASE o \in Enterprise
  <2>1. V = U \ {o} /\ o \in U
    BY <1>3, <1>4, <1>6, TradeAssumption DEF Unpaid
  <2>2. IsFiniteSet(U) /\ \A p \in U : cents[p] \in Int
    BY PricesAddUp
  <2>3. purse'[Workspace].reserved = purse[Workspace].reserved - cents[o]
    BY <1>1, <1>2, <1>6, BudgetReserves DEF PayCommit
  <2>4. purse[Workspace].reserved \in Int
    BY <1>1, Types DEF Budget!Purses
  <2> HIDE DEF U, V
  <2>5. SumFunctionOnSet(cents, U) = cents[o] + SumFunctionOnSet(cents, V)
    BY <2>1, <2>2, SumRemove
  <2>6. IsFiniteSet(V) /\ \A p \in V : cents[p] \in Int
    BY <2>1, <2>2, FS_RemoveElement
  <2>7. SumFunctionOnSet(cents, V) \in Int /\ cents[o] \in Int
    BY <2>1, <2>2, <2>6, SumIsInteger
  <2>8. purse'[Workspace].reserved <= SumFunctionOnSet(cents, V)
    BY <1>5, <2>3, <2>4, <2>5, <2>7
  <2> QED BY <2>8 DEF ReservedBudgetHasOrders, V
<1>7. CASE o \notin Enterprise
  <2>1. V = U
    BY <1>4, <1>7, TradeAssumption DEF Unpaid
  <2>2. UNCHANGED purse
    BY <1>2, <1>7 DEF PayCommit
  <2> QED BY <1>5, <2>1, <2>2 DEF ReservedBudgetHasOrders
<1> QED BY <1>6, <1>7

LEMMA NextKeepsReserved == ReservedIInv /\ [Next]_vars => ReservedIInv'
<1> SUFFICES ASSUME ReservedIInv, [Next]_vars PROVE ReservedIInv'
  OBVIOUS
<1>1. TradeIInv /\ DeliveryIInv' /\ OnlyMade /\ OnlyMade'
  BY NextKeepsDelivery, NextKeepsOnlyMade DEF ReservedIInv, DeliveryIInv
<1>2. SUFFICES ReservedBudgetHasOrders'
  BY <1>1 DEF ReservedIInv
<1>3. CASE UNCHANGED <<orders, purse>>
  BY <1>1, <1>3, ReservedStays DEF Unpaid, ReservedIInv
<1>4. CASE \E o \in Orders : Create(o)
  <2>1. PICK o \in Orders : Create(o)
    BY <1>4
  <2>2. o \notin Enterprise /\ UNCHANGED purse
        /\ \E s : orders' = [orders EXCEPT ![o].status = s]
    BY <2>1 DEF Create, Personal
  <2>3. \A p \in Enterprise : orders'[p] = orders[p]
    BY <1>1, <2>2, Types
  <2>4. {p \in Enterprise : Unpaid(p)'} = {p \in Enterprise : Unpaid(p)}
    BY <2>3 DEF Unpaid
  <2> QED BY <2>2, <2>4 DEF ReservedIInv, ReservedBudgetHasOrders
<1>5. CASE \E o \in Orders : Submit(o)
  BY <1>5, SubmitKeepsReserved
<1>6. CASE \E t \in Txs : PayCommit(t)
  BY <1>6, PayCommitKeepsReserved
<1>7. CASE \E o \in Orders : Reject(o)
  <2>1. PICK o \in Orders : Reject(o)
    BY <1>7
  <2>2. orders[o].status # "NONE"
    BY <1>1, <2>1 DEF OnlyMade, Reject
  <2>3. \A p \in Orders : Unpaid(p)' <=> Unpaid(p)
    BY <1>1, <2>1, <2>2, StatusKeepsUnpaid DEF Reject
  <2>4. Budget!Release(Workspace, cents[o])
    BY <2>1 DEF Reject
  <2> QED BY <1>1, <2>3, <2>4, ReservedStays DEF ReservedIInv
<1>8. CASE \E t \in Txs : \/ CancelWrite(t) \/ ApproveWrite(t) \/ ExpireWrite(t)
                          \/ RefundCommit(t) \/ \E r \in Refunds : RequestWrite(t, r)
  <2>1. PICK t \in Txs : \/ CancelWrite(t) \/ ApproveWrite(t) \/ ExpireWrite(t)
                         \/ RefundCommit(t) \/ \E r \in Refunds : RequestWrite(t, r)
    BY <1>8
  <2>2. txs[t] # Closed
    BY <2>1 DEF CancelWrite, ApproveWrite, ExpireWrite, RefundCommit, RequestWrite, Is
  <2>3. PICK o \in Orders : o = txs[t].order /\ orders[o].status # "NONE"
    BY <1>1, <2>2, OpenTx DEF OnlyMade
  <2>4. PICK s \in {"CANCELLED", "PENDING_PAYMENT", "EXPIRED", "REFUNDED", "REFUND_REQUESTED"} :
          Becomes(o, s, FALSE)
    BY <2>1, <2>3 DEF CancelWrite, ApproveWrite, ExpireWrite, RefundCommit, RequestWrite
  <2>5. \A p \in Orders : Unpaid(p)' <=> Unpaid(p)
    BY <1>1, <2>3, <2>4, StatusKeepsUnpaid
  <2>6. purse' = purse \/ Budget!Reverse(Workspace, cents[o])
    BY <2>1, <2>3 DEF CancelWrite, ApproveWrite, ExpireWrite, RefundCommit, RequestWrite
  <2> QED BY <1>1, <2>5, <2>6, ReservedStays DEF ReservedIInv
<1>9. CASE \E t \in Txs : \/ \E o \in Orders : ReadStep(t, o)
                          \/ \E r \in Refunds : RefundLock(t, r)
                          \/ Abandon(t) \/ PayLock(t) \/ PayCall(t) \/ RefundCall(t)
                          \/ SettleCall(t)
  BY <1>3, <1>9 DEF ReadStep, PayRead, CancelRead, ApproveRead, RequestRead, ExpireRead,
     SettleRead, RefundLock, Abandon, PayLock, PayCall, RefundCall, SettleCall
<1>10. CASE (\E o \in Orders : Time(o)) \/ UNCHANGED tradeVars \/ UNCHANGED vars
  BY <1>3, <1>10 DEF Time, tradeVars, vars
<1> QED BY <1>4, <1>5, <1>6, <1>7, <1>8, <1>9, <1>10 DEF Next, Proceed, OrderWrite

\* PurchaseApprovalService and OrderService: although rejections repeat and
\* orders are written from stale reads, the reserved budget never exceeds what
\* the enterprise's made and unpaid orders cost.
THEOREM ReservedForUnpaid == Spec => []ReservedBudgetHasOrders
<1>1. Init => ReservedIInv
  <2> SUFFICES ASSUME Init PROVE ReservedIInv
    OBVIOUS
  <2>1. DeliveryIInv
    BY InitSpendingIInv DEF SpendingIInv
  <2>2. OnlyMade
    BY DEF Init, OnlyMade
  <2>3. {o \in Enterprise : Unpaid(o)} = {}
    BY TradeAssumption DEF Init, Unpaid
  <2>4. ReservedBudgetHasOrders
    <3>1. purse[Workspace].reserved = 0
      BY DEF Init
    <3>2. SumFunctionOnSet(cents, {o \in Enterprise : Unpaid(o)}) = 0
      BY <2>3, SumEmpty
    <3> QED BY <3>1, <3>2 DEF ReservedBudgetHasOrders
  <2> QED BY <2>1, <2>2, <2>4 DEF ReservedIInv
<1>2. ReservedIInv => ReservedBudgetHasOrders
  BY DEF ReservedIInv
<1> QED BY <1>1, <1>2, NextKeepsReserved, PTL DEF Spec
=============================================================================
