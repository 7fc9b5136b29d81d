# AI comic platform: a TLA+ verification of its market, money, sessions and storyboards

The platform (`src/aicp-backend`, Spring Boot with MyBatis-Plus; `src/new-api`,
the payment service in Go; `src/aicp-frontend`, a Vue application) lets studios
write scripts, turn them into storyboards and comics, and trade scripts in a
market. This directory holds TLA+ models of the parts where several actors work
on the same thing: money, inventory, budgets, a session shared by requests and
tabs, and storyboard versions that several people edit. TLC checks them on small
instances, and TLAPS proves the main safety properties for every value of the
constants.

Sections: 1 inventory, 2 models and their correspondence with the code, 3 runs,
4 proofs, 5 assumptions (atomicity, fairness, bounds), 6 divergences between
documents and code, 7 what is not modelled, 8 what a continuation would take.

## 1. Inventory

All components are listed, with their sources, in `PROJECT.json`.

| component | state | operations | hard behaviour | what makes it correct |
|---|---|---|---|---|
| Enterprise purchase budget (`PurchaseBudgetService`, `EnterpriseBudgetController`) | one row per workspace and month: limits, reserved, consumed, `row_version`; a ledger of entries with idempotency keys | reserve, release, consume, reverse, setBudget | read, check, versioned update with no row lock; repeats under one key; setBudget outside any transaction | limits hold at the moment of the update; counters are backed by the ledger |
| Wallet (`model/wallet.go`, `controller/aicp_wallet.go`) | accounts (available, frozen), transfers, ledger entries | top-up, purchase, release, reverse | transactions that save absolute balances and do not lock what they read; partial reversals and rounding | no money made or lost; nobody spends more than they have; at most the price is given back |
| Market listing (`ListingService`, `ScriptListingMapper`) | listing and review status, exclusive reservation | edits by seller and platform; reserve, release, restore by orders | whole-row writes of stale reads against conditional single-statement updates | only approved listings are on sale; a reservation belongs to an order |
| Orders, purchase requests, delivery, refunds (`OrderService`, `PurchaseApprovalService`, `DeliveryService`, `RefundService`) | order, request, licence and refund rows | create, submit, approve, reject, pay, cancel, request and approve a refund | a wallet call in the middle of a database transaction; lost answers; writes without versions; swallowed exceptions that still roll back | fulfilled means paid; refunded means reversed and no longer licensed; budget shows what was spent |
| Recovery jobs (`TradeRecoveryService`) | reads orders, outbox rows | expire orders, release settlements, reconcile, dispatch | overlap with payments and refunds; nothing switches them on | stale orders expire |
| Wallet client (`HttpWalletClient`) | none | HTTP calls | no timeout, lost answers | a call reaches the wallet at most once |
| Session (`api/request.js`, `stores/auth.js`, `router/index.js`; `AuthService`) | tokens in localStorage shared by tabs, a flag and a waiting list per tab, one refresh token per user in Redis | send, refresh, resend, log out, log in, reload | 401s that arrive together, a refresh in three Redis commands, lost answers, other devices | one refresh per tab; nobody waits behind nothing; an undisturbed session survives |
| Storyboard versions (`StoryboardEditingService`, `StoryboardVersionService`) | version rows with status and revision, shots, pointers of the storyboard, jobs with idempotency keys | patch, reorder, merge, structural and blind edits, submit, lock, fork, upgrade | read, then compare or not compare the revision, then write; merges that take shots by id alone; long copies; unique keys | edits are made to what was read; locked versions stay; a key takes effect once |
| Storyboard editor page (`useStoryboardEditor.js`, `storyboardData.js`, `ShotInspector.vue`) | two timers, a queue of patches per load, the revision the queue counts, dirty and conflict marks | type, flush, take an answer, give up, reload, change the structure, lock | requests given up that arrive late, loads that overlap, others at work | no conflict that a queue's own acknowledged saves explain; nothing overwritten unseen; queues drain |
| Approval inbox (`ApprovalProjector`, `ApprovalCommandRouter`) | a projected row per request | project, decide | nothing feeds it (section 7) | |
| Asset market (`AssetPublicationService`, `AssetClaimService`) | publish requests, listings, claims | request, approve, reject, cancel, unlist, claim | stale writes, unique keys | no unlisted asset is claimed; one decision per request |
| Generation tasks and settlement (`GenerationExecutor`, `GenerationSettlementService`) | tasks, outbox of settlements | run, cancel, settle, compensate | asynchronous executor; nothing schedules the compensator | each task settled once |
| Content generation jobs (`ContentGenerationJobService`) | jobs | create, cancel, execute | the executor starts before the row is committed | every job ends |
| SOP work orders (`SopWorkOrderService`) | work order, event history | transitions | versioned updates whose row count is ignored | history and state agree |
| Canvas, projects, agents, scripts, director scenes, roles, AI routing, the other pages, worker | documents | mostly create, read, update, delete | see `PROJECT.json` | |

How they interact: `OrderService.pay`, `RefundService.approve` and the settlement
job call the wallet over HTTP inside a database transaction; `PurchaseApprovalService`,
`OrderService.pay` and `RefundService` call the budget inside their own
transaction; orders reserve listings through conditional UPDATEs while
`ListingService` writes whole rows. The editor's page reaches the storyboard
services through the axios client, whose refresh of the session may hold its
requests back.

## 2. Models

```
BudgetGovernance  <-- refined by --  PurchaseBudget      PurchaseBudgetProofs, MCPurchaseBudget
   ^ used by
TradeOrders  -- extends -->  ScriptListing               TradeOrdersProofs, MCTradeOrders
   v its use of the wallet refines
OrderMoney
   ^ refined by
Wallet  <-- refined by --  WalletTransactions (SQLite)   WalletProofs, WalletTransactionsProofs, MCWalletTransactions
LoginSession                                             LoginSessionProofs, MCLoginSession
StoryboardStore  <-- refined by --  StoryboardVersions   StoryboardVersionsProofs, MCStoryboardVersions
   ^ used by
StoryboardEditor                                         StoryboardEditorProofs, MCStoryboardEditor
SumTheorems: lemmas about sums over finite sets, for the proofs of the budget, the wallet and the orders
```

**PurchaseBudget** models `reserve`, `release`, `consume`, `reverse` and
`setBudget`. Each is two steps. `ReserveRead` and its kin take the guards and
the row the service reads; `ReserveWrite` and its kin are the versioned UPDATE with
the ledger insert and commit. `VersionMatches` is MyBatis-Plus's `@Version`:
the update changes a row only if `row_version` is still the one read.
`InsertEntry` skips a key that exists, *after* the counters have moved, as in the
code. `Rollback` is any exception or crash between the two. The answers ("ok" or
"refused") are what the callers act on. `charged` and
`refunded` are what callers know of the source: `consume` follows a charge and
`reverse` a reversal.

**BudgetGovernance** is the abstract budget: each movement one step on the
four numbers, guarded by the limits in force.

**Wallet** is what the Go service promises: every call one step. `Changed` gives
what a call does to the buyer's, the seller's and the platform's account, `Settled`
to the transfer, `Posted` to the ledger, `Permitted` the checks on the transfer.
**WalletTransactions** splits the calls into the reads (`lockWallet`) and saves
of accounts, one party after another, and a commit; `Writable` is what the database
lets an overlapping transaction save, and `Sqlite` chooses between the default
database and the PostgreSQL of `docker-compose.yml`.

**OrderMoney** is what the market relies on, and all it relies on: the price of an
order is with the buyer, then taken, then returned in full, each step at most once. Both sides of the
HTTP client refine it (`Place` in each module is the mapping). `Wallet` does although reversals come
in parts (an order counts as returned when the parts come to its price), and `TradeOrders`
does although answers get lost and refunds are approved again.

**ScriptListing** models `ListingService` (an edit is `EditRead` then `EditWrite`
of the whole row, non-null columns only) and the three conditional UPDATEs of
`ScriptListingMapper`. `until` stands for `reservation_expires_at`: the order
whose half hour ends then; `lapsed` are the orders whose half hour is over.

**TradeOrders** composes `ScriptListing`, `BudgetGovernance` and a wallet that is
behind a network. An operation that reads before it writes is an open transaction in
`txs`. A payment goes read, locked (its UPDATE to `PAYING`), done or failed (the
wallet's answer), commit; `PAYING` and `PAYMENT_FAILED` are never visible,
because the transaction that writes them either goes on or rolls back.
`Becomes` is `updateById` without a version: it waits for a row lock, and does
not notice what changed since the read. When the budget refuses inside
`PayCommit`, `RefundCommit` or `Reject`, the inner transactional method has marked
the whole transaction for rollback even where the caller catches the exception,
so those actions are disabled and only `Abandon` remains. The orders of purchase requests (`Enterprise`) have
no order items, so a payment delivers nothing for them, and no deadline, so
they never expire. Deliveries swallow every failure of the insert (`Delivered` may leave no
licence). Refunds look licences up by workspace alone (`FoundLicences`): `buyerWorkspace` gives each order any
workspace, since `OrderService.create` takes that of the caller and a purchase request names one
itself, so that the look-up may find another order's licence, fail on two rows, or find none. A listing
begins as a draft or as approved and on sale (`Approved`), which are the states
sellers and buyers start from.

**LoginSession** models the axios client with the store and the route guard of each
tab, `localStorage` and `AuthService`. A request is sent with the access token that is
stored at that moment; a 401 starts the tab's refresh or queues behind it. The refresh
is three steps of the server (`CheckStoredToken`, `DeleteRefreshToken`,
`SetRefreshToken`: GET, DEL and SET in Redis) before its answer arrives
(`OnRefreshed`, `RefreshFailed`) or is lost. `clearAuthAndRedirect` clears the storage
and pushes to the login page, but the guard asks the store (`PageAfterPush`).
Tokens are numbered in the order of their issue.

**StoryboardVersions** models each operation as a transaction that reads a
snapshot (`Begin`) and later writes and commits (`Commit`). The edits differ in how they
treat the revision: a patch or a reordering compares it in the UPDATE
(`CommitChecked`); a merge (`CommitMerge`) compares that of the version in its path, and then
writes and deletes shots of whatever versions their ids belong to; structural edits write back the whole row they read and then bump
what they have just written (`CommitStructure`); blind edits and scenes neither compare
nor bump (`CommitBlind`). Fork and upgrade look up their key at the start and insert it at
the end of the copy, where the unique index may refuse it (`DuplicateKey`).
`Blank` is the absence of a shot: a storyboard starts with none, and only shots that are there
can be merged. `unguarded` is history: the versions whose revision an edit went past, be it a blind edit, a structural
one that overlapped a write, or a merge that was sent to another version.
**StoryboardStore** is the abstract storyboard, one step per edit, submit, lock and
derivation of one version; of the versions in `broken` it promises nothing, of all others everything,
so that what goes wrong with one does not excuse the others.

**StoryboardEditor** is one page on one version, over `StoryboardStore`. A change
goes from the inspector's timer (`DebouncePatch`) to the page's (`QueuePatch`) to the
queue (`FlushSave`), which sends one patch at a time with the revision it counts
(`NextInQueue`). What the server does are the store's steps (`EditShot`, `SubmitVersion`,
`LockVersion`). Each load makes a queue of its own; its phases are the awaits of
`load` and `switchVersion`. A request that is given up (`GiveUp`) joins `late` and may
still reach the server, after later ones. `Others` is anybody else at the same
version. `foreign` and `unseen` are history: what changed that the page was not
told of. Which shot a patch is for is a free choice, which covers
every selection; what a conflict displays is left out.

The "plausible slip" definitions in the modules are variants that a bug in the same lines
would give; they are used only to show that the properties can fail.

## 3. Runs

| run | instance | states | what it shows |
|---|---|---|---|
| `budget` | one scope, two sources, two open transactions, prices 1 and 2, limits 0 and 2, four versions of the row | 316 k | limits respected at every reservation (`ReserveRespectsLimits`), no reserved money the ledger does not know (`CountersBackedByLedger`), why the version check suffices (`ReadsAgree`), and the refinement of `BudgetGovernance` |
| `wallet_sqlite` | two overlapping transactions over SQLite, two orders of one buyer at 10, two top-ups, reversals of 4 or 10 | 340 k | `ImplementsWallet`: they amount to atomic calls; `MoneyConserved`, `BuyersSpendOwnMoney`, `ReversedWithinPrice`; `LedgerLacksReversals`: the ledger explains a buyer's balance up to the reversals, which post nothing; the refinement of `OrderMoney` (`ImplementsOrderMoney`) |
| `wallet_postgres` (violation) | the same over PostgreSQL | | two purchases of one buyer both pass the balance check |
| `trade` | two purchase requests under a limit that fits one of them, a paid and a free order, all of one workspace, a refund, two open transactions, deliveries that may fail, no jobs | 1.6 M | `FulfilledIsPaid`, `RefundedIsReversed`, `ConsumedBudgetIsSpent`, `ReservedBudgetHasOrders`; `ActiveLicenceIsPaid` and `RefundStopsUse` although refunds find licences by workspace |
| `trade_listing` | an exclusive order and its refund with the jobs, one transaction at a time, two overlapping edits of the listing, from a draft or an approved listing | 468 k | no stale write brings a listing that was never approved to the market (`OnSaleWasApproved`); `ReservationHasOrder`; the refinement of `OrderMoney` (`UsesOrderMoney`) |
| `trade_lost_answer` (violation) | one order, jobs and retries | | a charge whose answer is lost is never settled |
| `trade_wrong_licence` (violation) | the order of a purchase request and another one of the same workspace, a refund | | the refund of the first takes the licence of the second |
| `session` | one tab with two requests and a logout, five pairs of tokens, with fairness | 63 k | `QueuedHaveRefresher`, `SessionSurvives`, `QueuedAreResent` (liveness) |
| `storyboard` | two requests at a time, the first version and two derived from it, edited up to revisions 1, 1 and 0, merges of two shots of any versions | 373 k | `CheckedEditsLandOnRead`, `LockedIsKept`, `DerivedMatchesParent`, `DerivedOncePerKey`, and the refinement of `StoryboardStore` |
| `storyboard_locked` (violation) | the same | | a structural edit that read the version before a lock undoes the lock; with one request at a time (`Workers = {w1}`) TLC reaches the same by a merge sent to the next version |
| `editor` | two loads that overlap, two patches in the queues, two revisions, others at work, with fairness | 194 k | `ConflictsAreReal`, `NoSilentOverwrite`, `SavesEnd` (liveness) |
| `editor_dirty` (violation) | the same | | a save that succeeds clears the mark of edits that still wait |

**Bounds.** Every race in this code is between a read and a write of the same row,
so two open transactions show it; a third adds only repetitions. In `trade_listing` the row is the
listing's, which orders write in one statement each: the two that overlap are its edits, and one transaction of the orders is enough.
Payments and refunds that overlap the jobs, and `UsesOrderMoney` when calls overlap, are left to the
theorems, which allow any number of transactions; the other properties of the orders meet overlapping calls in `trade`. Two orders are the least that
can compete for a buyer's balance or a limit. Prices of one unit and a monthly limit of one
make the limit exactly one order, so that a leak of one unit is
visible. One refund request is approved again and again; two of one order are left to the theorems. For the licences a purchase request's order, a paid and a free one are the three ways in which an
order of a workspace comes to a licence or to none. In the wallet a price of ten makes the fee one cent and a part of 4
rounds. No counter needs a cap in the trade and wallet models: each order is
created once and each reversal shrinks what is left. The budget's
`row_version` is bounded by `MaxVersion` in the guards of the reads; four
updates let both requests go through reserve, consume or release, and a change of the
limits come between. `MaxTokens` bounds new requests and logins
(`RoomForToken`), never the answer to a refresh under way; five pairs are one for the
first login, one for each request that may be open, and one more. Three versions are a parent, its fork and the upgrade of the fork; `MaxRevision`
lets an edit overlap a submit or a lock of the first, and an edit follow the fork in
the second, which may be a merge that reaches back into the first (`MaxMerged` = 1: the fewest
shots that a merge can take into its first). In the editor one shot is enough for two patches to meet
(a second one leaves no step impossible that it allows, and takes TLC
past its time), two loads are what overlaps, and contents are one value because no
property looks at them; the proofs hold for any number of each.

**Symmetry** is used where the members of the set have the same constants (transactions
always; orders only when their price and kind are equal), and never in
a run with a liveness property.

**Deadlock** is not checked where every order, transfer, version or load ends, as the
cfgs say; it is checked in `session` and in the runs of the storyboard's versions.

## 4. Proofs

Each theorem holds for every value of the constants that the module's own
assumption allows (prices and limits are natural numbers, the platform is not a
user, `NoOrder` is not an order, and the like), so for any number of orders, users,
tabs, requests, versions, loads and open transactions.

| module | theorems | inductive invariant |
|---|---|---|
| `PurchaseBudgetProofs` | `TypeCorrect`, `VersionCheckSuffices` (`ReadsAgree`), `LimitsHold` (`ReserveRespectsLimits`), `BudgetRefinement` (`ImplementsGovernance`), `LedgerBacksCounters` (`CountersBackedByLedger`) | `IInv`: `TypeOK /\ ReadsAgree /\ ChecksStand`; `LedgerIInv` on top of it |
| `WalletProofs` | `TypeCorrect`, `ReversalsAreCapped` (`ReversedWithinPrice`), `WalletImplementsOrderMoney` (`ImplementsOrderMoney`), `NoMoneyIsMade` (`MoneyConserved`), `SpendingIsCovered` (`BuyersSpendOwnMoney`), `OnlyReversalsAreMissing` (`LedgerLacksReversals`) | `IInv`: `TypeOK /\ ReversedWithinPrice`; `MoneyIInv` on top of it |
| `WalletTransactionsProofs` | `SqliteImplementsWallet` (`ImplementsWallet`), `TransactionsTypeCorrect`, `TransactionsKeepMoney` and `TransactionsKeepOrderMoney` (what the atomic calls keep, the transactions of SQLite keep) | `TxInv` |
| `TradeOrdersProofs` | `ListingTypeCorrect`, `ApprovedBeforeSale` (`OnSaleWasApproved`), `TradeTypeCorrect`, `FulfilledWasPaid`, `ActiveLicenceWasPaid` (`ActiveLicenceIsPaid`), `RefundedWasReversed`, `SoldWasApproved`, `RefundStoppedUse` (`RefundStopsUse`), `ReservedForAnOrder` (`ReservationHasOrder`), `SpendingAddsUp` (`ConsumedBudgetIsSpent`), `OrdersUseOrderMoney` (`UsesOrderMoney`), `SpendingStaysInLimit`, `ReservedForUnpaid` (`ReservedBudgetHasOrders`) | `ListingIInv` (`ListingTypeOK /\ Unheld /\ NothingOnSale`); `TradeIInv`, with `DeliveryIInv`, `ReservationIInv`, `SpendingIInv`, `OrderMoneyIInv` and `ReservedIInv` on top of it |
| `SumTheorems` | lemmas only: `SumEmpty`, `SumSome`, `SumAdd`, `SumRemove`, `SumUpdate`, `SumEqual`, `SumIsInteger`, `SumZero` | |
| `LoginSessionProofs` | `SessionTypes`, `QueueHasRefresher` (`QueuedHaveRefresher`), `OneTabSurvives` (`SessionSurvives`) | `TypeOK /\ RefreshInv /\ SessionInv` |
| `StoryboardVersionsProofs` | `VersionTypes`, `DerivedFromLocked` (`DerivedMatchesParent`), `NoEditGoesUnder` (`CheckedEditsLandOnRead`), `LockHolds` (`LockedIsKept`), `OneVersionPerKey` (`DerivedOncePerKey`), `VersionsImplementStore` (`ImplementsStore`) | `TypeOK /\ OpenInv /\ SeenInv /\ CopyInv /\ DerivedMatchesParent`, and one more for the keys |
| `StoryboardEditorProofs` | `EditorTypes`, `NoOwnConflicts` (`ConflictsAreReal`), `NothingOverwrittenUnseen` (`NoSilentOverwrite`) | `EditorIInv` |

- *Budget.* `TypeOK` alone is not inductive, because a write subtracts what its *read*
  allowed. `ReadsAgree` says a transaction whose version still matches holds the
  stored row, and `ChecksStand` that what was checked still holds of the row that was
  read. Together they carry every check to the moment of the write, and each write is
  one movement of `BudgetGovernance`.
- *Sums.* What accounts, entries or orders come to together is `SumFunctionOnSet`, a fold that the
  community modules define by recursion. No induction theorem of the library can be instantiated
  here, so `SumTheorems` states induction over the subsets of a finite set with sets instead of an
  operator (`SubsetInduction`): if `Good` is a set of subsets of `S` that has `{}`, and has `T` whenever it has
  `T` without one of its elements, then `S` is in it. From it follow that a sum exists, is an integer, does not
  depend on the order, and changes by what is added, removed or updated. This takes the sets to be
  finite, which the assumptions of `Wallet` and `TradeOrders` say of users, orders and
  top-ups (they are rows of a database) and the proof shows of the ledger of
  `PurchaseBudget` (one entry is added at a time).
- *Ledger.* An operation that skips its entry because its key exists would break
  `CountersBackedByLedger`, if it raised a counter. `PostedOnce` says that a reservation, a
  consumption and a reversal are each done once for a source, so only a repeated release
  skips its entry, and that one lowers `reserved` (the reason for `<=` in the property).
- *Money.* A call adds to the accounts of its parties amounts that cancel out (`Paid`), in whatever
  order they are served and even where two of them are one owner. For a user who sells nothing, the
  balance is topped up less spent plus given back (`InFunds`) and is not negative,
  because a purchase asks for its price; that gives both what buyers spend and what
  the ledger lacks. An order that was not bought has nothing reversed (`UnpaidUntouched`).
- *Wallet.* `ReversedWithinPrice` needs the types (parts are positive, what was
  reversed is a natural number). `Spec` allows the calls in every order, so the cap
  also covers reversals after a release.
- *Wallet over SQLite.* A transaction that nobody has overtaken (`fresh`) sees the accounts
  as the parties it has served leave them (`Current`). Only a fresh transaction saves,
  and while it has saved something nobody else saves, commits or tops up (`Apart`,
  `Ordered`). So a transaction that commits is fresh, and its commit is the atomic
  call of `Wallet` on the accounts of that moment; every other step is a stutter. The
  theorem assumes `Sqlite`: over PostgreSQL the run `wallet_postgres` refutes it.
- *Listing.* As long as nothing was approved, neither the row nor any copy that an
  open edit will write back is on sale (`NothingOnSale`). The step that could break this is
  an order giving up its reservation, which sets `LISTED`; it never does,
  since no row ever names the order that holds it (`Unheld`; see section 6).
  `SoldWasApproved` carries this over to the composition with the orders.
- *Orders.* What an open transaction relies on when it writes (`Supported`) is only ever
  confirmed by the others: a transfer number, a charge, a reversal and
  a refund request are never taken back (`Grows`). That is why writing orders from
  stale reads, without versions, breaks the order's *status* (section 6) but
  not the agreement of status and money. Licences are not among these: any order's refund may
  write any licence of the workspace.
- *Delivery* (`DeliveryIInv`). At most one payment of an order is past its wallet call, since the wallet refuses
  the second transfer, and while there is one the order has no transfer number. A refund is
  asked for only of an order that is paid for, so when a payment delivers, no refund of its order has been asked for; and
  the request of a refund succeeds only if the look-up finds one licence, which is then the order's own unless
  the order has none, or finds none at all. Either way the order's own licence is not active
  after it, and nothing makes it active again (`RefundStopsUse`). Money goes back only on such a
  request, which gives `ActiveLicenceIsPaid`. That a fulfilled order *has* its licence does not follow and is not
  so (section 6, and the run `trade_wrong_licence`).
- *Spending.* The wallet reverses an order once, so of all refund requests for a paid order
  at most one is past its reversal, and none was carried out before (`RefundedOnce`). So a refund that
  commits takes its order out of the spent ones for the first time, and its price out of
  the consumed budget; a payment that commits adds an order that had no transfer. Every change of the
  budget is a movement of `BudgetGovernance` by the price of one order and only `reserve` raises the
  sum of reserved and consumed, within the limit (`PurseWithinLimit`), so what the enterprise has spent
  stays within its month's limit (`SpendingStaysInLimit`).
- *Reserved.* Purchase requests, transfers and open transactions exist only for orders that were made
  (`OnlyMade`), so a payment that commits takes its price out of the reserved budget together with its order
  out of the unpaid ones. `ReservedBudgetHasOrders` is an inequality because rejections repeat and an approval
  from a stale read goes on with a rejected order: both use up what was reserved for others.
- *Order money.* For `Wallet` the cap on reversals makes "returned" final. For `TradeOrders` a refund
  calls the wallet only for an order that knows its transfer, and such an order was charged
  (`TakenFirst`).
- *Reservation.* The row, and every copy of it in an open edit, that shows as reserved
  carries the deadline of an exclusive order that was made. Orders are never unmade, so
  a stale copy written back still names one.
- *Session.* A tab has its flag up exactly while a call is under way, and then some request
  of its own waits for the answer (`RefreshInv`). With one tab only that call touches the
  refresh token, so browser and server agree on it except while the three
  Redis commands replace it (`SessionInv`).
- *Versions.* An open transaction whose revision still fits has read the row and the
  shots that are stored (`SeenInv`), unless an edit has gone past that version's revision, because every other write
  moves it; so its commit is one step of `StoryboardStore` on its version. All but the keys is conditional, version by
  version, on no edit having gone past its revision: the cases that `storyboard_locked` shows (section 6). A merge frees nothing but the versions it reaches into.
- *Editor.* The revision a queue counts never runs ahead of the server's, equals it as
  long as nothing else has changed the version, and stays behind for good once
  others have changed a shot that the load has read. So an autosave is refused only for a
  reason, and one that would overwrite something unseen is always refused. A request
  that was given up carries a revision its queue had at the time or
  an older one, which gives the same for late arrivals.

TLC checked the strengthenings as invariants of the runs before they were proved: `LedgerIInv`
on `budget`, `UnpaidUntouched` and `InFunds` on `wallet_sqlite`, `RefundedOnce` and `PurseWithinLimit` on `trade`
with two refund requests.

Only model-checked: the liveness properties `QueuedAreResent` and `SavesEnd`, since ENABLED, and with it fairness, is out of TLAPS's reach. Every other property of a
passing run is stated by a theorem above.

## 5. Assumptions

- *Atomicity.* A step is a statement, or a run of statements between which nothing
  other transactions do matters. In `TradeOrders` the budget is
  atomic because `PurchaseBudget` implements `BudgetGovernance`; the wallet is
  atomic as on SQLite (`wallet_sqlite`). `TradeOrders` keeps of the wallet's transfer whether it was charged,
  released and reversed; `OrderMoney` is what this and `Wallet` have in common.
- *Finiteness.* Users, orders and top-ups are finitely many, as rows of a database are; the theorems
  about sums need it.
- *Network.* A call is delivered at most once and its answer may be lost. The
  HTTP client sets no timeout, so fairness assumes that the network ends each call.
- *Fairness* (`TradeOrders!Retries`). Only `trade_lost_answer` uses it, to refute a liveness property: no property of the
  orders that holds needs fairness. Every open transaction goes on or is rolled back, and the
  expiry job, the buyer and the platform keep trying, so that the counterexample does not come of somebody giving up.
- *Jobs.* `Scheduling = TRUE` lets Spring run `@Scheduled` methods. As the code
  stands it does not: no class has `@EnableScheduling`. `trade` runs without the jobs, as the backend is shipped;
  `trade_listing`, `trade_lost_answer` and the theorems allow them: their steps only add behaviours, so what holds
  with them holds without, and a charge is not settled even with them. That stale orders expire is no property here,
  since nothing runs the job (section 6). A job's batch is modelled one order at a time.
- *Callers are permitted.* Roles are outside the models; in `LoginSession` the user is not
  disabled and tokens are distinct.
- *Top-ups.* In this repository nothing calls `CompleteTopUpToWallet`; the model lets
  a top-up complete at any time, within the transaction its comment asks for.
- A wallet account that does not exist yet is one with no money: creating it is
  folded into the read.
- *Fairness of the page.* In `LoginSession` a request ends (axios gives it 30 seconds) and the server
  answers a refresh, though the answer may be lost; the refresh itself sets no timeout, so this assumes that the network ends it.
  In `StoryboardEditor` timers fire, a request is answered or runs out of time, and the
  page takes the answer. A save queued behind a token refresh that fails is not
  covered: its promise never settles (section 6).
- *Snapshots.* In `StoryboardVersions` a transaction reads what was committed when it began
  (InnoDB's REPEATABLE READ) and an UPDATE compares the revision of the stored row.
- *The editor's server.* `StoryboardEditor` runs over `StoryboardStore` with nothing broken,
  so it leaves out what goes past the version's revision: structural edits that overlap another transaction and
  merges that were sent to another version; what those
  do section 6 says. In particular `NoSilentOverwrite` supposes that whoever changes
  the version moves its revision. `ConflictsAreReal` takes for foreign whatever the queue has not seen acknowledged as its own:
  unanswered saves of the page, its older queues and its structural edits among it. At most one request that was given up is on its way.
  A load that fails stays where it is.

## 6. Divergences

Each violation run above is a finding in `PROJECT.json`. While modelling,
further disagreements were found that no run carries; the line is where each bites.

Market, budget and wallet:

- `PurchaseBudgetService.java:186`: a repeated operation moves the counters and
  posts no entry, so `reserved_cents` falls below the ledger's sum.
- `EnterpriseBudgetController.java:62`: setBudget answers success when its versioned
  update matched no row.
- `wallet.go:328`: a release after a reversal takes the whole share from the frozen
  balance, which goes below zero or eats another order's.
  `wallet.go:413`: a reversal posts no ledger entry. `wallet.go:382`: reversing in parts
  rounds every part in the seller's favour.
- `TradeRecoveryService.java:62`: nothing enables scheduled methods, so unpaid orders never expire, although
  the market's design (`docs/superpowers/specs/2026-07-02-script-trading-market-completion-design.md`, line 209)
  says that they do after half an hour.
- `DeliveryService.java:45`: every failure of the insert of a licence is taken for one that is there
  (comment at :13: exactly one entitlement per item), so an order can be fulfilled without one, free or paid.
- `ListingService.java:98`: an edit writes back the whole row that it read. It puts a listing that was
  unlisted in between on sale again (design :188), and undoes an exclusive reservation: since nothing sets `EXCLUSIVE_SOLD`,
  two exclusive orders of one listing can both be paid and fulfilled (design :604). Editing a listed
  listing leaves it on sale unreviewed.
  `ListingService.java:166`: approving a listing again, after its exclusive licence was reserved or sold, puts
  it on sale again, and a second exclusive order is taken.
- `OrderService.java:77`: the reservation is made with a null order number, so neither
  expiry nor refund ever frees it. `OrderService.java:57`: an order is
  taken in `EXCLUSIVE_RESERVED` as well, and nothing sets `EXCLUSIVE_SOLD`, so other licences are sold on after an
  exclusive one is paid.
- `OrderService.java:183`: a payment that read the order before it was cancelled or expired charges
  it all the same, although `TradeEnums.java:90` says that orders in these states must not be charged again.
- `OrderService.java:213`: a paid enterprise order delivers nothing, as it has no items.
  `OrderService.java:241`: cancelling it keeps the budget reserved.
  `OrderService.java:177`: a purchase request for a free licence makes an order of price zero, which `pay`
  answers without fulfilling it.
- `PurchaseApprovalService.java:144`: reject looks at no status; a fulfilled order can become
  `REJECTED`, and a request rejected twice releases its price twice, out of what others have reserved.
- `RefundService.java:46`: in a workspace with two licences the look-up throws, so none of its orders can be refunded.
- `RefundService.java:80`: a reversal whose answer is lost can never be completed, since the
  wallet refuses a second one.
- `TradeRecoveryService.java:105`: the settlement job releases money of orders whose refund
  was requested after it read them. `TradeRecoveryService.java:31`: the dispatcher handles two types of
  events, and nothing emits either.

Session:

- `request.js:91` with `router/index.js:263`: after a refresh that failed, the tokens are gone
  but the store still says logged in, so the push to the login page is turned back and the tab
  stays in the application (`request.js:147` says the user is sent to log in).
- `request.js:87`: requests queued behind a refresh that fails never settle, neither
  way.
- `AuthService.java:202`: the look-up, DEL and SET of the refresh token are three commands. Two tabs
  that refresh with the same token may both pass, or the loser clears the tokens the winner has
  stored in the shared `localStorage`; hence `SessionSurvives` is stated for one tab.
- A logout overtaken by a refresh under way leaves a valid refresh token in Redis and
  the tokens in `localStorage` (`docs/01-core/API接口文档_V1.5.md` says that it ends the session). A refused
  refresh that arrives after a new login clears it.

Storyboard versions:

- `StoryboardEditingService.java:389`: a merge takes its shots by their ids, whatever version they are of
  (`batchPatchShots`, line 264, and `reorderShots`, line 432, compare it), so a merge on a draft rewrites and deletes shots
  of a locked version, whose revision does not move. The design of the editor says at :544 that a
  child's id alone gives no access and at :567 that what is locked is immutable. With a
  single worker in `MCStoryboardLocked.cfg` TLC refutes `LockedIsImmutable` so: patch, lock, upgrade, merge on the upgrade.
- `StoryboardEditingService.java:397`: a merge that names one shot twice takes its text twice and then deletes it.
- `StoryboardVersionService.java:91`: a lock sent again with its key is refused as already locked, since the
  editable check comes before the look-up of the key (whose comment, line 96, describes the retry).
  A lock with a key that has locked another version answers success and locks nothing.
- Locking never clears the storyboard's draft pointer (`updateById` skips nulls), although the
  plan `docs/superpowers/plans/2026-06-30-storyboard-professional-editor-redesign.md` (line 651) does.
- `StoryboardVersionService.java:203`: "Lock storyboard row" is a plain select; forks that overlap fail on the
  unique number. Writes of the storyboard's row from stale reads lose pointers. Nothing brings a
  version from review back to draft.

Editor page (line numbers of the design are those of
`docs/superpowers/specs/2026-06-30-storyboard-professional-editor-redesign.md`):

- `useStoryboardEditor.js:109`: one timer serves every shot and field. An edit of another one within
  800 ms clears the timer of the first, which stays on the screen and is never sent (design :575).
- `ShotInspector.vue:124`: the inspector's timer emits for the shot selected when it fires
  (`StoryboardEditor.vue:80` does not key the component), so text typed in one shot can be saved to
  another; and typed text is not dirty for 800 ms.
- `useStoryboardEditor.js:144`: resolving a conflict never tells the queue the new revision, so every later
  patch conflicts until the page is reloaded (design :579, :199).
- Structural operations and the lock work past the queue: pending patches of the queue before
  conflict with the user's own change, and a lock after an autosave is refused until a reload, because
  `activeVersion.revision` is not what the queue counts.
- A pending timer survives a reload and its patch is sent with the new revision: it overwrites
  what others changed unseen. `NoSilentOverwrite` is therefore about patches typed on the load
  whose queue they join. When loads overlap, the shots shown may be older than the revision the
  queue begins with.
- `_rollback` has no caller, and `load` makes its queue twice.

Elsewhere, from reading only: `retryTask` of `GenerationService` inserts a copy that nothing
executes; `GenerationSettlementCompensator` is never scheduled, so nothing is settled;
`useGeneration.js` calls `fetch` without the authorization header; `cancelJob` of
`ContentGenerationJobService` overwrites the status whatever the executor has made of it, and jobs of a
server that stopped stay as they are; claims and decisions of the asset market write whole stale rows.

## 7. Not modelled

- *Approval inbox and project export.* The router sends decisions on purchases and exports to their
  services, and decisions on assets to the log. Only `ProjectExportApprovalService` would fill the inbox,
  and nothing calls its request; the events of purchases and assets go to outboxes that nobody reads. A model would have to
  invent the callers.
- *Asset market, content generation jobs, SOP work orders.* Their races are known from reading (`AssetClaimService.java:103`, `AssetPublicationService.java:50` and :85,
  `ContentGenerationJobService.java:89`, `SopWorkOrderService.java:109`), and each is a property that the code does not keep; they have no model.
- *Generation tasks.* Without a scheduled compensator and with retries that nothing executes, what
  remains is one sequential executor.
- *Outbox dispatcher.* Nothing emits the events it handles.
- *Storyboards.* Issues and the gate of reviews, export snapshots, the professional tables; of
  the page, fork and upgrade, selection, and the display of conflicts.
- *Session.* Roles, workspaces, rate limits, captcha and registration; a reload of the page
  while a refresh is under way.
- *The rest* keeps documents that no other actor's step depends on, or is input and output (AI calls, files, the user interface,
  the Blender worker), or is vendored (`src/new-api` but for the wallet that was added to it).

Within the modelled components these are left out: listings of rows, formatting, licence
options and prices in a listing, the idempotency table's wording, signatures of HTTP
calls, and the outbox rows that purchase requests insert and nobody handles.

**Share of the code.** The repository is large because of what it contains, not of what it
coordinates: of its JavaScript and TypeScript, most is the two web front ends of the vendored
gateway, a bundled three.js and the pages of the application. The protocols are in the Java services and
in a few composables. The models cover a small share of the lines and nearly all
of the places where two actors meet over money, permissions or a storyboard.

## 8. What a continuation would take

1. `AssetMarket`: publish requests, listings and claims with stale whole-row writes; one decision per
   request, no claim of an unlisted asset.
2. `ContentJobs`: asynchronous executors, start before commit, cancel against execute.
3. `SopWorkOrders`: versioned transitions and their event history.
4. Structural operations of the editor over `StoryboardVersions` itself, instead of `StoryboardStore`.
5. The session and the editor together: saves held back by a refresh.
