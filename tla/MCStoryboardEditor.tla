------------------------- MODULE MCStoryboardEditor -------------------------
(* A small instance of the storyboard's editor for TLC. *)
EXTENDS StoryboardEditor, TLC

CONSTANTS version, l1, l2

MCShots == {"s1"}
MCValues == {"blank"}
MCLoads == {l1, l2}
=============================================================================
