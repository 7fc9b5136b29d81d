----------------------------- MODULE OrderMoney -----------------------------
(***************************************************************************)
(* What the wallet promises the market about the price of each order: it   *)
(* is taken from the buyer once, and given back in full at most once, and  *)
(* only after it was taken.  Wallet keeps the promise although reversals   *)
(* come in parts, and TradeOrders never asks for more than it, although    *)
(* answers get lost and refunds are approved again.                        *)
(***************************************************************************)
CONSTANT Orders    \* business order numbers

VARIABLE money     \* [Orders -> where the price of the order is]

Init == money = [o \in Orders |-> "buyer"]

Take(o) == money[o] = "buyer" /\ money' = [money EXCEPT ![o] = "taken"]

GiveBack(o) == money[o] = "taken" /\ money' = [money EXCEPT ![o] = "returned"]

Next == \E o \in Orders : Take(o) \/ GiveBack(o)

Spec == Init /\ [][Next]_money
=============================================================================
