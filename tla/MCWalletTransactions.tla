------------------------ MODULE MCWalletTransactions ------------------------
(* Small instances of the wallet for TLC: two orders of one buyer with one  *)
(* seller, at a price of which a tenth is a cent.                           *)
EXTENDS WalletTransactions, TLC

CONSTANTS o1, o2, u1, u2, ann, bob, aicp, t1, t2

MCOrders == {o1, o2}
MCTopUps == {u1, u2}
MCUsers == {ann, bob}
MCTxs == {t1, t2}
MCbuyer == [o \in Orders |-> ann]
MCseller == [o \in Orders |-> bob]
MCprice == [o \in Orders |-> 10]
MCpayee == [u \in TopUps |-> ann]
MCcredit == [u \in TopUps |-> 10]

Symmetry == Permutations(MCTxs) \cup Permutations(MCOrders) \cup Permutations(MCTopUps)
=============================================================================
