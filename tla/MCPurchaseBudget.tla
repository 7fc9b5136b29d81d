-------------------------- MODULE MCPurchaseBudget --------------------------
(* Small instances of PurchaseBudget for TLC. *)
EXTENDS PurchaseBudget, TLC

CONSTANTS b1, s1, s2, t1, t2

MCBudgets == {b1}
MCSources == {s1, s2}
MCTxs == {t1, t2}

\* Only safety is checked, and nothing distinguishes two requests or two
\* transactions.
Symmetry == Permutations(MCSources) \cup Permutations(MCTxs)
=============================================================================
