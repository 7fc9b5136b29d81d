---------------------------- MODULE MCTradeOrders ----------------------------
(* Small instances of the orders for TLC.  A cfg says which of the one to     *)
(* four orders are enterprise purchases and which are exclusive.              *)
EXTENDS TradeOrders, TLC

CONSTANTS o1, o2, o3, o4, e1, e2, r1, r2, t1, t2, studio

One == [o \in Orders |-> 1]
LastFree == [o \in Orders |-> IF o = o4 THEN 0 ELSE 1]
OneWorkspace == [o \in Orders |-> studio]
SymmetryEdits == Permutations(Edits) \cup Permutations(Txs)
SymmetryEnterprise == Permutations(Enterprise) \cup Permutations(Txs)
=============================================================================
