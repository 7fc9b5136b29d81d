\* An exclusive order and its refund with the jobs running, one transaction at a time,
\* while two edits of the seller and the platform are open, from the draft on.
CONSTANTS
    o1 = o1
    o2 = o2
    o3 = o3
    o4 = o4
    e1 = e1
    e2 = e2
    r1 = r1
    r2 = r2
    t1 = t1
    t2 = t2
    studio = studio
    NoOrder = NoOrder
    Orders = {o1}
    Enterprise = {}
    Exclusive = {o1}
    Workspace = studio
    MonthLimit = 0
    Refunds = {r1}
    Txs = {t1}
    Scheduling = TRUE
    Edits = {e1, e2}
    cents <- One
    buyerWorkspace <- OneWorkspace
SPECIFICATION Spec
SYMMETRY SymmetryEdits
INVARIANTS
    ListingTypeOK
    OnSaleWasApproved
    ReservationHasOrder
PROPERTIES
    UsesOrderMoney
\* Every order ends.
CHECK_DEADLOCK FALSE
