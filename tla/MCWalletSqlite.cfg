\* Two transactions open at once over SQLite: two orders of one buyer, reversals in full
\* and in parts that do not add up to the price.
CONSTANTS
    o1 = o1
    o2 = o2
    u1 = u1
    u2 = u2
    ann = ann
    bob = bob
    aicp = aicp
    Orders <- MCOrders
    TopUps <- MCTopUps
    Users <- MCUsers
    Platform = aicp
    buyer <- MCbuyer
    seller <- MCseller
    price <- MCprice
    payee <- MCpayee
    credit <- MCcredit
    Parts = {4, 10}
    t1 = t1
    t2 = t2
    Txs <- MCTxs
    Sqlite = TRUE
SPECIFICATION TxSpec
SYMMETRY Symmetry
INVARIANTS
    TxTypeOK
    MoneyConserved
    BuyersSpendOwnMoney
    ReversedWithinPrice
    LedgerLacksReversals
PROPERTIES
    ImplementsWallet
    ImplementsOrderMoney
\* Every transfer ends reversed in full and released.
CHECK_DEADLOCK FALSE
