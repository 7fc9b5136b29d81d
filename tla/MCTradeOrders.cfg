\* Two orders of purchase requests under a monthly limit that fits one of them, a paid
\* and a free personal order, all of one workspace, a refund request, two open
\* transactions; the jobs do not run, as the backend is shipped.
CONSTANTS
    o1 = o1
    o2 = o2
    o3 = o3
    o4 = o4
    e1 = e1
    e2 = e2
    r1 = r1
    r2 = r2
    t1 = t1
    t2 = t2
    studio = studio
    NoOrder = NoOrder
    Orders = {o1, o2, o3, o4}
    Enterprise = {o1, o2}
    Exclusive = {}
    Workspace = studio
    MonthLimit = 1
    Refunds = {r1}
    Txs = {t1, t2}
    Scheduling = FALSE
    Edits = {}
    cents <- LastFree
    buyerWorkspace <- OneWorkspace
SPECIFICATION Spec
SYMMETRY SymmetryEnterprise
INVARIANTS
    TypeOK
    FulfilledIsPaid
    ActiveLicenceIsPaid
    RefundStopsUse
    RefundedIsReversed
    ConsumedBudgetIsSpent
    ReservedBudgetHasOrders
\* Every order ends.
CHECK_DEADLOCK FALSE
