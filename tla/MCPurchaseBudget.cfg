\* One scope, two requests, two open transactions: every pair of operations can
\* overlap.  Prices 1 and 2 against limits 0 (none) and 2 let two reservations
\* fit, collide with the limit, or be refused.
CONSTANTS
    b1 = b1
    s1 = s1
    s2 = s2
    t1 = t1
    t2 = t2
    Budgets <- MCBudgets
    Sources <- MCSources
    Txs <- MCTxs
    Cents = {1, 2}
    Limits = {0, 2}
    MaxVersion = 4
SPECIFICATION Spec
SYMMETRY Symmetry
INVARIANTS
    TypeOK
    CountersBackedByLedger
    ReadsAgree
PROPERTIES
    ReserveRespectsLimits
    ImplementsGovernance
\* The version bound stops the system.
CHECK_DEADLOCK FALSE
