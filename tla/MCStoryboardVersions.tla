------------------------ MODULE MCStoryboardVersions ------------------------
(* Small instances of the storyboard's versions for TLC. *)
EXTENDS StoryboardVersions, TLC

CONSTANTS w1, w2, v1, v2, v3, k1

MCWorkers == {w1, w2}
MCVersions == {v1, v2, v3}
MCShots == {"s1"}
MCValues == {"blank", "drawn"}
MCKeys == {k1}
MCMaxRevision == [v \in MCVersions |-> IF v = v1 THEN 1 ELSE IF v = v2 THEN 1 ELSE 0]

Symmetry == Permutations(MCWorkers)
=============================================================================
