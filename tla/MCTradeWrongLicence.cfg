\* A purchase request and a personal order of one workspace.
CONSTANTS
    o1 = o1
    o2 = o2
    o3 = o3
    o4 = o4
    e1 = e1
    e2 = e2
    r1 = r1
    r2 = r2
    t1 = t1
    t2 = t2
    studio = studio
    NoOrder = NoOrder
    Orders = {o1, o2}
    Enterprise = {o1}
    Exclusive = {}
    Workspace = studio
    MonthLimit = 0
    Refunds = {r1}
    Txs = {t1, t2}
    Scheduling = TRUE
    Edits = {}
    cents <- One
    buyerWorkspace <- OneWorkspace
SPECIFICATION Spec
INVARIANTS
    LicenceGoesWithItsOrder
\* Every order ends.
CHECK_DEADLOCK FALSE
