\* Two transactions open at once over PostgreSQL.
CONSTANTS
    o1 = o1
    o2 = o2
    u1 = u1
    u2 = u2
    ann = ann
    bob = bob
    aicp = aicp
    Orders <- MCOrders
    TopUps <- MCTopUps
    Users <- MCUsers
    Platform = aicp
    buyer <- MCbuyer
    seller <- MCseller
    price <- MCprice
    payee <- MCpayee
    credit <- MCcredit
    Parts = {5, 10}
    t1 = t1
    t2 = t2
    Txs <- MCTxs
    Sqlite = FALSE
SPECIFICATION TxSpec
SYMMETRY Symmetry
INVARIANT BuyersSpendOwnMoney
CHECK_DEADLOCK FALSE
