--------------------------- MODULE StoryboardStore ---------------------------
(***************************************************************************)
(* What the storyboard's versions promise to those who use them: each      *)
(* operation takes effect on its version in one step, every write moves    *)
(* the version's revision, a version is edited only as a draft, and a      *)
(* locked one is the model of those derived from it.  For a version whose  *)
(* revision an edit has gone past nothing is promised any more.            *)
(***************************************************************************)
EXTENDS Naturals

CONSTANTS VersionIds, Root, Shots, Values, Blank

VARIABLES
    status,    \* of each version
    revision,  \* of each version
    shots,     \* the shots of each version
    broken     \* the versions whose revision an edit has gone past

vars == <<status, revision, shots, broken>>

Init ==
    /\ status = [v \in VersionIds |-> IF v = Root THEN "draft" ELSE "none"]
    /\ revision = [v \in VersionIds |-> 0]
    /\ shots = [v \in VersionIds |-> [s \in Shots |-> Blank]]
    /\ broken = {}

Bump(v) == revision'[v] = revision[v] + 1

Keep(v) == status'[v] = status[v] /\ revision'[v] = revision[v] /\ shots'[v] = shots[v]

\* The shots of a draft change in any way.
Edit(v) == status[v] = "draft" /\ status'[v] = "draft" /\ Bump(v)

Submit(v) ==
    /\ status[v] = "draft"
    /\ status'[v] = "reviewing"
    /\ Bump(v)
    /\ shots'[v] = shots[v]

Lock(v) ==
    /\ status[v] \in {"draft", "reviewing"}
    /\ status'[v] = "locked"
    /\ Bump(v)
    /\ shots'[v] = shots[v]

\* The version v is made of the locked version p.
Derive(v, p) ==
    /\ status[v] = "none"
    /\ status'[v] = "draft"
    /\ revision'[v] = 0
    /\ p \notin broken => status[p] = "locked" /\ shots'[v] = shots[p]

\* One version changes; of the broken ones any may.
Next ==
    /\ status' \in [VersionIds -> {"none", "draft", "reviewing", "locked"}]
    /\ revision' \in [VersionIds -> Nat]
    /\ shots' \in [VersionIds -> [Shots -> Values]]
    /\ broken' \in SUBSET VersionIds /\ broken \subseteq broken'
    /\ \E v \in VersionIds :
          /\ \/ v \in broken'
             \/ Edit(v)
             \/ Submit(v)
             \/ Lock(v)
             \/ \E p \in VersionIds : Derive(v, p)
          /\ \A u \in VersionIds \ (broken' \cup {v}) : Keep(u)

Spec == Init /\ [][Next]_vars
=============================================================================
