-------------------------- MODULE BudgetGovernance --------------------------
(***************************************************************************)
(* What the procurement budget promises, without transactions: a purchase  *)
(* budget per scope (workspace, subject, month) moves money between        *)
(* "available", "reserved" and "consumed" in single steps.  A reservation  *)
(* is granted only when it is inside both limits at the moment it takes    *)
(* effect; nothing is released that was not reserved, and nothing is       *)
(* reversed that was not consumed.  A limit of zero means "no limit".      *)
(* PurchaseBudget, with its reads, compare-and-set updates and conflicts,  *)
(* is shown to implement this module.                                      *)
(***************************************************************************)
EXTENDS Integers

CONSTANTS
    Budgets,   \* the budget scopes
    Cents,     \* the amounts a purchase may have
    Limits     \* the limits a manager may set

VARIABLE purse \* [Budgets -> the four amounts of a budget]

Purses == [amount : Nat, single : Nat, reserved : Nat, consumed : Nat]

WithinLimits(p, a) ==
    /\ p.single > 0 => a <= p.single
    /\ p.amount > 0 => p.reserved + p.consumed + a <= p.amount

Init == purse = [b \in Budgets |->
                   [amount |-> 0, single |-> 0, reserved |-> 0, consumed |-> 0]]

\* The budget after its reserved and consumed money changed by d and e.
Moved(p, d, e) == [amount |-> p.amount, single |-> p.single,
                   reserved |-> p.reserved + d, consumed |-> p.consumed + e]

Move(b, d, e) == purse' = [purse EXCEPT ![b] = Moved(purse[b], d, e)]

Reserve(b, a) == WithinLimits(purse[b], a) /\ Move(b, a, 0)

Release(b, a) == a <= purse[b].reserved /\ Move(b, -a, 0)

Consume(b, a) == a <= purse[b].reserved /\ Move(b, -a, a)

Reverse(b, a) == a <= purse[b].consumed /\ Move(b, 0, -a)

SetLimits(b, amount, single) ==
    purse' = [purse EXCEPT ![b] = [amount |-> amount, single |-> single,
                                   reserved |-> purse[b].reserved,
                                   consumed |-> purse[b].consumed]]

Next ==
    \E b \in Budgets :
        \/ \E a \in Cents : Reserve(b, a) \/ Release(b, a) \/ Consume(b, a) \/ Reverse(b, a)
        \/ \E amount, single \in Limits : SetLimits(b, amount, single)

Spec == Init /\ [][Next]_purse
=============================================================================
