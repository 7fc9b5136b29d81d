--------------------------- MODULE MCLoginSession ---------------------------
(* Small instances of the session for TLC. *)
EXTENDS LoginSession, TLC

CONSTANTS t1, r1, r2

MCTabs == {t1}
MCReqs == {r1, r2}

Symmetry == Permutations(MCReqs)
=============================================================================
