------------------------- MODULE StoryboardVersions -------------------------
(***************************************************************************)
(* The versions of one storyboard: edits, review, lock, fork and upgrade   *)
(* as StoryboardEditingService and StoryboardVersionService run them.      *)
(*                                                                         *)
(* Each operation is a database transaction of two steps: it reads (the    *)
(* snapshot of REPEATABLE READ), then it writes and commits.  The writes   *)
(* of others may come in between.  The edits differ in what they make of   *)
(* the version's revision:                                                 *)
(*   patch, reorder  compare it first (bumpRevision), then write;          *)
(*   merge           the same, but takes its shots by their ids alone, of  *)
(*                   whatever version they are;                            *)
(*   structure       writes the whole row it read (updateVersionCounts),   *)
(*                   then bumps what it has just written: that always fits;*)
(*   blind, scene    carries no revision and does not bump it.             *)
(***************************************************************************)
EXTENDS Naturals, FiniteSets

CONSTANTS
    Workers,     \* concurrent requests
    VersionIds,  \* ids of versions
    Root,        \* the version createStoryboard makes
    Shots,       \* shots of a version
    Values,      \* contents of a shot, its absence among them
    Blank,       \* the absence of a shot: a storyboard starts without any
    Keys,        \* idempotency keys
    None,        \* no version, no key
    MaxRevision, \* bound: the revision up to which each version is edited and submitted
    MaxMerged    \* bound: the shots that a merge takes into its first

ASSUME VersionsAssumption ==
    /\ IsFiniteSet(VersionIds)
    /\ Root \in VersionIds
    /\ Shots # {}
    /\ Blank \in Values
    /\ None \notin VersionIds
    /\ MaxRevision \in [VersionIds -> Nat]
    /\ MaxMerged \in Nat

VARIABLES
    row,       \* storyboard_version
    shots,     \* the shots of each version
    board,     \* the storyboard's current versions
    jobs,      \* the storyboard_job of each type and key: the version it names
    tx,        \* the transaction of each worker
    copied,    \* history: what a version held when it was created
    unguarded  \* history: the versions whose revision an edit has gone past

db == <<row, shots, board, jobs, copied>>
vars == <<row, shots, board, jobs, tx, copied, unguarded>>

Content == [Shots -> Values]

Row == [status : {"none", "draft", "reviewing", "locked"}, revision : Nat,
        tier : {"A", "B", "C"}, no : Nat, parent : VersionIds \cup {None}]

Board == [draft : VersionIds \cup {None}, locked : VersionIds \cup {None}]

JobTypes == {"lock", "fork", "upgrade"}

EditOps == {"patch", "reorder", "merge", "structure", "blind", "scene"}

Tx == [op : EditOps \cup {"none", "submit"} \cup JobTypes,
       v : VersionIds, at : VersionIds, shot : Shots, val : Values,
       others : SUBSET (VersionIds \X Shots), rev : Nat,
       key : Keys \cup {None}, no : Nat,
       row : Row, shots : Content, board : Board]

Absent == [status |-> "none", revision |-> 0, tier |-> "A", no |-> 0, parent |-> None]

Untouched == [s \in Shots |-> Blank]

TypeOK ==
    /\ row \in [VersionIds -> Row]
    /\ shots \in [VersionIds -> Content]
    /\ board \in Board
    /\ jobs \in [JobTypes -> [Keys -> VersionIds \cup {None}]]
    /\ tx \in [Workers -> Tx]
    /\ copied \in [VersionIds -> Content]
    /\ unguarded \in SUBSET VersionIds

\* A worker without a transaction.
NoTx ==
    [op |-> "none", v |-> Root, at |-> Root, shot |-> CHOOSE s \in Shots : TRUE,
     val |-> Blank, others |-> {}, rev |-> 0, key |-> None, no |-> 0, row |-> Absent,
     shots |-> Untouched, board |-> [draft |-> None, locked |-> None]]

\* createStoryboard makes the storyboard and its first draft.
Init ==
    /\ row = [v \in VersionIds |->
                 IF v = Root THEN [Absent EXCEPT !.status = "draft", !.no = 1] ELSE Absent]
    /\ shots = [v \in VersionIds |-> Untouched]
    /\ board = [draft |-> Root, locked |-> None]
    /\ jobs = [t \in JobTypes |-> [k \in Keys |-> None]]
    /\ tx = [w \in Workers |-> NoTx]
    /\ copied = [v \in VersionIds |-> Untouched]
    /\ unguarded = {}
-----------------------------------------------------------------------------
Exists(v) == row[v].status # "none"

\* The transaction of a worker has read what it needs; q is what it holds.
Open(w, q) ==
    /\ tx[w].op = "none"
    /\ tx' = [tx EXCEPT ![w] = q]
    /\ UNCHANGED <<db, unguarded>>

Close(w) == tx' = [tx EXCEPT ![w] = NoTx]

-----------------------------------------------------------------------------
(* Edits.                                                                  *)

\* A plausible slip: the row that was read is compared, not the row as it is now.
RevisionFittedWhenRead(w) == tx[w].row.revision = tx[w].rev

\* bumpRevision: UPDATE ... WHERE revision = expected.
RevisionFits(w) == row[tx[w].v].revision = tx[w].rev

\* requireEditable of StoryboardEditingService.
Editable(v) == row[v].status = "draft"

\* The revision of a request is one that its client has been told.
BeginEdit(w, op, v, s, x, r) ==
    /\ Editable(v)
    /\ x # shots[v][s]
    /\ r <= row[v].revision
    /\ row[v].revision < MaxRevision[v]
    /\ Open(w, [NoTx EXCEPT !.op = op, !.v = v, !.shot = s, !.val = x, !.rev = r,
                           !.row = row[v], !.shots = shots[v]])

WriteShot(q) == shots' = [shots EXCEPT ![q.v] = [@ EXCEPT ![q.shot] = q.val]]

\* patchShot and batchPatchShots write the version's row for its counts, reorderScenes,
\* reorderShots and the replace... operations do not.
CommitChecked(w) ==
    LET q == tx[w] IN
    /\ q.op \in {"patch", "reorder"}
    /\ RevisionFits(w)
    /\ row' = [row EXCEPT ![q.v] =
                  IF q.op = "patch" THEN [q.row EXCEPT !.revision = q.rev + 1]
                                    ELSE [@ EXCEPT !.revision = q.rev + 1]]
    /\ WriteShot(q)
    /\ Close(w)
    /\ UNCHANGED <<board, jobs, copied, unguarded>>

\* mergeShots checks the status and the revision of the version in its path; the shots
\* it is to merge it takes by their ids, whatever version they are of.
BeginMerge(w, v, at, s, others, x, r) ==
    /\ Editable(v)
    /\ Cardinality(others) \in 1..MaxMerged
    /\ \A p \in others \cup {<<at, s>>} : shots[p[1]][p[2]] # Blank
    /\ x # Blank
    /\ r <= row[v].revision
    /\ row[v].revision < MaxRevision[v]
    /\ Open(w, [NoTx EXCEPT !.op = "merge", !.v = v, !.at = at, !.shot = s, !.val = x,
                           !.others = others, !.rev = r, !.row = row[v], !.shots = shots[v]])

\* The versions a merge writes shots of.
Merged(q) == {q.at} \cup {p[1] : p \in q.others}

\* The first shot takes what they all held, then the others are deleted (the first too
\* when the request names it twice).  Only the row in the path is written.
CommitMerge(w) ==
    LET q == tx[w] IN
    /\ q.op = "merge"
    /\ RevisionFits(w)
    /\ row' = [row EXCEPT ![q.v] = [q.row EXCEPT !.revision = q.rev + 1]]
    /\ shots' = [v \in VersionIds |-> [s \in Shots |->
                    IF <<v, s>> \in q.others THEN Blank
                    ELSE IF v = q.at /\ s = q.shot THEN q.val
                    ELSE shots[v][s]]]
    /\ Close(w)
    /\ unguarded' = unguarded \cup (Merged(q) \ {q.v})
    /\ UNCHANGED <<board, jobs, copied>>

\* createScene, deleteScene, createShot, deleteShot, copyShot and splitShot.
CommitStructure(w) ==
    LET q == tx[w] IN
    /\ q.op = "structure"
    /\ row' = [row EXCEPT ![q.v] = [q.row EXCEPT !.revision = @ + 1]]
    /\ WriteShot(q)
    /\ Close(w)
    /\ unguarded' = IF row[q.v] = q.row THEN unguarded ELSE unguarded \cup {q.v}
    /\ UNCHANGED <<board, jobs, copied>>

\* patchShot and patchScene of a request without a revision; patchScene does not
\* write the version's row.
CommitBlind(w) ==
    LET q == tx[w] IN
    /\ q.op \in {"blind", "scene"}
    /\ row' = IF q.op = "blind" THEN [row EXCEPT ![q.v] = q.row] ELSE row
    /\ WriteShot(q)
    /\ Close(w)
    /\ unguarded' = unguarded \cup {q.v}
    /\ UNCHANGED <<board, jobs, copied>>
-----------------------------------------------------------------------------
(* Review and lock.                                                        *)

\* As of a draft; a version under review is not submitted again.
BeginSubmit(w, v) ==
    /\ row[v].status = "draft"
    /\ row[v].revision < MaxRevision[v]
    /\ Open(w, [NoTx EXCEPT !.op = "submit", !.v = v, !.rev = row[v].revision, !.row = row[v]])

CommitSubmit(w) ==
    LET q == tx[w] IN
    /\ q.op = "submit"
    /\ RevisionFits(w)
    /\ row' = [row EXCEPT ![q.v] = [q.row EXCEPT !.status = "reviewing", !.revision = q.rev + 1]]
    /\ Close(w)
    /\ UNCHANGED <<shots, board, jobs, copied, unguarded>>

\* A request whose key is known is answered from its job and writes nothing; lockVersion
\* answers it with the version it was asked for, whatever version the job is of.
KnownKey(w, op, k) ==
    /\ tx[w].op = "none"
    /\ jobs[op][k] # None
    /\ UNCHANGED vars

\* requireEditable of StoryboardVersionService and requireTransition.
BeginLock(w, v, k) ==
    /\ row[v].status \in {"draft", "reviewing"}
    /\ jobs["lock"][k] = None
    /\ Open(w, [NoTx EXCEPT !.op = "lock", !.v = v, !.rev = row[v].revision, !.key = k,
                            !.row = row[v], !.board = board])

\* The board is written as it was read; updateById leaves out fields that are null,
\* so the draft pointer is never cleared.
CommitLock(w) ==
    LET q == tx[w] IN
    /\ q.op = "lock"
    /\ RevisionFits(w)
    /\ jobs["lock"][q.key] = None
    /\ row' = [row EXCEPT ![q.v] = [q.row EXCEPT !.status = "locked", !.revision = q.rev + 1]]
    /\ board' = [draft |-> IF q.board.draft \in {None, q.v} THEN board.draft ELSE q.board.draft,
                 locked |-> q.v]
    /\ jobs' = [jobs EXCEPT !["lock"] = [@ EXCEPT ![q.key] = q.v]]
    /\ Close(w)
    /\ UNCHANGED <<shots, copied, unguarded>>

\* bumpRevision matches no row: the transaction is rolled back.
Conflict(w) ==
    /\ tx[w].op \in {"patch", "reorder", "merge", "submit", "lock"}
    /\ ~RevisionFits(w)
    /\ Close(w)
    /\ UNCHANGED <<db, unguarded>>
-----------------------------------------------------------------------------
(* Versions derived from a locked one.                                     *)

\* A plausible slip: the tier of an upgrade is not known.
TierOfNone(op, tier) == IF op = "fork" THEN tier ELSE None

ChildTier(op, tier) == IF op = "fork" THEN tier ELSE IF tier = "A" THEN "B" ELSE "C"

\* max() + 1 of the tier's version numbers.
IsNextNo(n, tier) ==
    LET taken == {row[u].no : u \in {u \in VersionIds : Exists(u) /\ row[u].tier = tier}}
    IN  /\ n = 1 \/ n - 1 \in taken
        /\ \A m \in taken : m < n

\* A plausible slip: any version may be derived from.
MayDeriveFromAny(v, op, k) == Exists(v) /\ jobs[op][k] = None

MayDerive(v, op, k) == row[v].status = "locked" /\ jobs[op][k] = None

BeginDerive(w, op, v, k, n) ==
    /\ MayDerive(v, op, k)
    /\ op = "upgrade" => row[v].tier # "C"
    /\ IsNextNo(n, ChildTier(op, row[v].tier))
    /\ Open(w, [NoTx EXCEPT !.op = op, !.v = v, !.key = k, !.no = n, !.row = row[v],
                            !.shots = shots[v], !.board = board])

\* A plausible slip: the lookup of the key is all there is, the tables have no unique keys.
LookupOnly(q) == q.key \in Keys

\* uk_sbjob_idem and uk_sb_version.
KeysAreFree(q) ==
    /\ jobs[q.op][q.key] = None
    /\ \A u \in VersionIds :
          Exists(u) => row[u].tier # ChildTier(q.op, q.row.tier) \/ row[u].no # q.no

\* createDerivedDraft: the child (while VersionIds last), its copy of the shots, the
\* pointer; then the job.
CommitDerive(w) ==
    LET q == tx[w] IN
    /\ q.op \in {"fork", "upgrade"}
    /\ KeysAreFree(q)
    /\ \E c \in VersionIds :
          /\ ~Exists(c)
          /\ row' = [row EXCEPT ![c] =
                        [status |-> "draft", revision |-> 0, tier |-> ChildTier(q.op, q.row.tier),
                         no |-> q.no, parent |-> q.v]]
          /\ shots' = [shots EXCEPT ![c] = q.shots]
          /\ copied' = [copied EXCEPT ![c] = q.shots]
          /\ board' = [draft |-> c,
                       locked |-> IF q.board.locked = None THEN board.locked ELSE q.board.locked]
          /\ jobs' = [jobs EXCEPT ![q.op] = [@ EXCEPT ![q.key] = c]]
    /\ Close(w)
    /\ UNCHANGED unguarded

\* The insert of a key that is taken: the transaction is rolled back.
DuplicateKey(w) ==
    LET q == tx[w] IN
    /\ \/ q.op \in {"fork", "upgrade"} /\ ~KeysAreFree(q)
       \/ q.op = "lock" /\ RevisionFits(w) /\ jobs["lock"][q.key] # None
    /\ Close(w)
    /\ UNCHANGED <<db, unguarded>>
-----------------------------------------------------------------------------
\* The request fails before it commits.
RolledBack(w) ==
    /\ tx[w].op # "none"
    /\ Close(w)
    /\ UNCHANGED <<db, unguarded>>

Commit(w) ==
    \/ CommitChecked(w)
    \/ CommitMerge(w)
    \/ CommitStructure(w)
    \/ CommitBlind(w)
    \/ CommitSubmit(w)
    \/ CommitLock(w)
    \/ CommitDerive(w)
    \/ Conflict(w)
    \/ DuplicateKey(w)
    \/ RolledBack(w)

Begin(w) ==
    \E v \in VersionIds :
        \/ \E s \in Shots, x \in Values, r \in 0..MaxRevision[v] :
              \/ \E op \in EditOps \ {"merge"} : BeginEdit(w, op, v, s, x, r)
              \/ \E at \in VersionIds, others \in SUBSET (VersionIds \X Shots) :
                    BeginMerge(w, v, at, s, others, x, r)
        \/ BeginSubmit(w, v)
        \/ \E k \in Keys : BeginLock(w, v, k)
        \/ \E op \in {"fork", "upgrade"}, k \in Keys, n \in 1..Cardinality(VersionIds) + 1 :
              BeginDerive(w, op, v, k, n)

Next ==
    \E w \in Workers :
        \/ Begin(w)
        \/ Commit(w)
        \/ \E op \in JobTypes, k \in Keys : KnownKey(w, op, k)

Spec == Init /\ [][Next]_vars
-----------------------------------------------------------------------------
(* Properties.                                                             *)

\* An edit that compares the revision of its version finds there the shots that its
\* request had before it, or it is refused: nobody's edit of that version goes under
\* between the read and the write.  (Until an edit goes past that version's revision,
\* as a merge does to the other versions it takes shots of.)
CheckedEditsLandOnRead ==
    [][\A w \in Workers :
          (CommitChecked(w) \/ CommitMerge(w)) /\ tx[w].v \notin unguarded
              => shots[tx[w].v] = tx[w].shots]_vars

\* A locked version keeps its shots and stays locked, with edits under way when the
\* lock commits and whatever overlaps after it, edits past the revision of other
\* versions included.  (Until an edit goes past its own.)
LockedIsKept ==
    [][\A v \in VersionIds :
          row[v].status = "locked" /\ v \notin unguarded'
              => row'[v].status = "locked" /\ shots'[v] = shots[v]]_vars

\* What a derived version was made from is still there: its parent is locked and
\* holds what the version was given, whatever becomes of the version itself.  (Until
\* an edit goes past the parent's revision.)
DerivedMatchesParent ==
    \A v \in VersionIds :
        Exists(v) /\ row[v].parent # None /\ row[v].parent \notin unguarded =>
            /\ row[row[v].parent].status = "locked"
            /\ shots[row[v].parent] = copied[v]

\* A fork or an upgrade takes effect once for its key, however often the request is
\* sent: each derived version is the one that the job of some key names.
DerivedOncePerKey ==
    \A v \in VersionIds :
        Exists(v) /\ row[v].parent # None =>
            \E op \in {"fork", "upgrade"}, k \in Keys : jobs[op][k] = v

\* The versions are what StoryboardStore promises: an edit, a submit, a lock, a fork or
\* an upgrade that overlaps others has the effect of one step at its commit, or none,
\* on every version whose revision no edit has gone past.
Store ==
    INSTANCE StoryboardStore
    WITH status <- [v \in VersionIds |-> row[v].status],
         revision <- [v \in VersionIds |-> row[v].revision],
         broken <- unguarded

ImplementsStore == Store!Spec

\* The design of the editor (2026-06-30-storyboard-professional-editor-redesign.md:567)
\* says that a locked version is immutable.
LockedIsImmutable ==
    [][\A v \in VersionIds :
          row[v].status = "locked" => row'[v].status = "locked" /\ shots'[v] = shots[v]]_vars
=============================================================================
