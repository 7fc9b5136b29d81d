-------------------------- MODULE StoryboardEditor --------------------------
(***************************************************************************)
(* The storyboard's editor page (useStoryboardEditor.js) on one version of *)
(* a storyboard that others edit as well.                                  *)
(*                                                                         *)
(* A keystroke goes through three places on its way to the server: the     *)
(* inspector waits 800 ms and hands a patch to the page (ShotInspector),   *)
(* the page waits another 800 ms on its one timer (queuePatch), then the   *)
(* patch joins a queue that sends one patch at a time with a revision it   *)
(* counts by itself (createRevisionSaveQueue).  Loading the version makes  *)
(* a new queue, first the revision and then the shots arriving; patches in *)
(* an older queue go on.  Loads may overlap, and answers may be late, lost *)
(* or overtaken.                                                           *)
(*                                                                         *)
(* The server is StoryboardStore with one version, which no edit goes past *)
(* the revision of: StoryboardVersions implements it.                      *)
(***************************************************************************)
EXTENDS Naturals, Sequences, FiniteSets

CONSTANTS
    Version,     \* the version that is edited
    Shots, Values, Blank,
    Loads,       \* the loads of the version by the page
    FirstLoad,   \* the load that opens the page
    None,
    MaxRevision, \* bound: revisions
    MaxQueued    \* bound: patches in the queues

ASSUME EditorAssumption ==
    /\ FirstLoad \in Loads
    /\ None \notin Loads
    /\ Shots # {}
    /\ Blank \in Values
    /\ MaxRevision \in Nat
    /\ MaxQueued \in Nat \ {0}

VARIABLES
    status, revision, shots, broken,  \* the server's
    typed,      \* the inspector's timer
    saveTimer,  \* the page's timer
    saveState, isDirty,
    load,       \* each load: how far it is, and the revision and lock it was told
    queue,      \* the queue that each load has made
    current,    \* the load whose queue is saveQueue and whose version is activeVersion
    shown,      \* the load whose shots are shown
    late,       \* requests that the page has given up and the server may still get
    foreign,    \* history: loads since which the version was changed otherwise than by
                \* the acknowledged saves of their queue
    unseen      \* history: shots that others have changed since a load read them

server == <<status, revision, shots, broken>>
page == <<typed, saveTimer, saveState, isDirty>>
vars == <<server, page, load, queue, current, shown, late, foreign, unseen>>

Store == INSTANCE StoryboardStore WITH VersionIds <- {Version}, Root <- Version

\* A patch remembers (as history) the load it was made on: the one that was current
\* and shown when it was typed, and whose queue it joins; None if these differ.
Patch == [shot : Shots, val : Values, on : Loads \cup {None}]

Request == [by : Loads, rev : Nat, patch : Patch]

SaveStates == {"idle", "waiting", "saving", "saved", "failed", "conflict"}

Answers == {"none", "ok", "conflict"}

Phases == {"none", "asked", "told", "queued", "read", "done"}

TypeOK ==
    /\ status \in [{Version} -> {"none", "draft", "reviewing", "locked"}]
    /\ revision \in [{Version} -> Nat]
    /\ shots \in [{Version} -> [Shots -> Values]]
    /\ broken = {}
    /\ typed \in [val : Values, on : Loads \cup {None}] \cup {None}
    /\ saveTimer \in Patch \cup {None}
    /\ saveState \in SaveStates
    /\ isDirty \in BOOLEAN
    /\ load \in [Loads -> [phase : Phases, rev : Nat, locked : BOOLEAN]]
    /\ queue \in [Loads -> [rev : Nat, items : Seq(Patch), answer : Answers]]
    /\ current \in Loads
    /\ shown \in Loads
    /\ late \subseteq Request
    /\ foreign \subseteq Loads
    /\ unseen \in [Loads -> SUBSET Shots]

\* The page has been opened on a draft.
Init ==
    /\ Store!Init
    /\ typed = None
    /\ saveTimer = None
    /\ saveState = "idle"
    /\ isDirty = FALSE
    /\ load = [l \in Loads |-> [phase |-> IF l = FirstLoad THEN "done" ELSE "none",
                                rev |-> 0, locked |-> FALSE]]
    /\ queue = [l \in Loads |-> [rev |-> 0, items |-> <<>>, answer |-> "none"]]
    /\ current = FirstLoad
    /\ shown = FirstLoad
    /\ late = {}
    /\ foreign = {}
    /\ unseen = [l \in Loads |-> {}]
-----------------------------------------------------------------------------
(* What the server does.                                                   *)

Revision == revision[Version]

\* The version was read for this load.
Told(l) == load[l].phase \notin {"none", "asked"}

\* The version's row and shots after a write that moves the revision.
Write(st, held) ==
    /\ status' = [status EXCEPT ![Version] = st]
    /\ revision' = [revision EXCEPT ![Version] = @ + 1]
    /\ shots' = [shots EXCEPT ![Version] = held]
    /\ UNCHANGED broken

\* Steps that the store has.
EditShot(s, x) == Write("draft", [shots[Version] EXCEPT ![s] = x]) /\ Store!Edit(Version)

SubmitVersion == Write("reviewing", shots[Version]) /\ Store!Submit(Version)

LockVersion == Write("locked", shots[Version]) /\ Store!Lock(Version)

\* requireEditable and bumpRevision of patchShot.
Fits(rev) == rev = Revision

\* The shots `touched` change, past the shots that every load but l has read.
Unseen(l, touched) ==
    [m \in Loads |-> IF load[m].phase \in {"read", "done"} /\ m # l
                     THEN unseen[m] \cup touched ELSE unseen[m]]

\* The version changes, past every queue but that of l.
Changed(l, touched) ==
    /\ foreign' = foreign \cup {m \in Loads : Told(m) /\ m # l}
    /\ unseen' = Unseen(l, touched)

\* An edit of someone else, or their submit or lock.
Others ==
    /\ Revision < MaxRevision
    /\ \/ \E s \in Shots, x \in Values : EditShot(s, x) /\ Changed(None, {s})
       \/ (SubmitVersion \/ LockVersion) /\ Changed(None, {})
    /\ UNCHANGED <<page, load, queue, current, shown, late>>

\* The server gets the patch that a queue has sent.
ServePatch(l) ==
    /\ queue[l].items # <<>> /\ queue[l].answer = "none"
    /\ LET p == Head(queue[l].items) IN
       \/ /\ Fits(queue[l].rev)
          /\ Revision < MaxRevision
          /\ EditShot(p.shot, p.val)
          /\ queue' = [queue EXCEPT ![l] = [@ EXCEPT !.answer = "ok"]]
          /\ Changed(l, {p.shot})
       \/ /\ ~Fits(queue[l].rev) \/ status[Version] # "draft"
          /\ queue' = [queue EXCEPT ![l] = [@ EXCEPT !.answer = "conflict"]]
          /\ UNCHANGED <<server, foreign, unseen>>
    /\ UNCHANGED <<page, load, current, shown, late>>

\* The server gets a patch that the page has given up.
ServeLate(r) ==
    /\ r \in late
    /\ late' = late \ {r}
    /\ \/ /\ Fits(r.rev)
          /\ Revision < MaxRevision
          /\ EditShot(r.patch.shot, r.patch.val)
          /\ foreign' = foreign \cup {m \in Loads : Told(m)}
          /\ unseen' = Unseen(r.by, {r.patch.shot})
       \/ /\ ~Fits(r.rev) \/ status[Version] # "draft"
          /\ UNCHANGED <<server, foreign, unseen>>
    /\ UNCHANGED <<page, load, queue, current, shown>>
-----------------------------------------------------------------------------
(* Typing and the two timers.                                              *)

\* debouncePatch; the fields are disabled when the version is known to be locked.
DebouncePatch(x) ==
    /\ ~load[current].locked
    /\ typed' = [val |-> x, on |-> IF shown = current THEN current ELSE None]
    /\ UNCHANGED <<server, saveTimer, saveState, isDirty, load, queue, current, shown,
                   late, foreign, unseen>>

\* The inspector's timer: the patch is for the shot s that is selected by then.
QueuePatch(s) ==
    /\ typed # None
    /\ saveTimer' = [shot |-> s, val |-> typed.val, on |-> typed.on]
    /\ typed' = None
    /\ saveState' = "waiting"
    /\ isDirty' = TRUE
    /\ UNCHANGED <<server, load, queue, current, shown, late, foreign, unseen>>

\* The page's timer.
FlushSave ==
    /\ saveTimer # None
    /\ Cardinality(UNION {{l} \X DOMAIN queue[l].items : l \in Loads}) < MaxQueued
    /\ queue' = [queue EXCEPT ![current].items =
                    Append(@, IF saveTimer.on = current THEN saveTimer
                              ELSE [saveTimer EXCEPT !.on = None])]
    /\ saveTimer' = None
    /\ saveState' = "saving"
    /\ UNCHANGED <<server, typed, isDirty, load, current, shown, late, foreign, unseen>>
-----------------------------------------------------------------------------
(* The answers to the patches.                                             *)

\* A plausible slip: the queue takes the revision from an answer that has none.
UntoldQueue(q) ==
    [rev |-> IF q.answer = "ok" THEN None ELSE q.rev,
     items |-> Tail(q.items), answer |-> "none"]

\* A plausible slip: the queue keeps the revision that it began with.
UncountedQueue(q) == [rev |-> q.rev, items |-> Tail(q.items), answer |-> "none"]

\* A plausible slip: the revision moves with every save, whatever its end.
CountedRegardless(q) == [rev |-> q.rev + 1, items |-> Tail(q.items), answer |-> "none"]

\* A plausible slip: a save that fails is sent again.
StuckQueue(q) ==
    IF q.answer = "ok" THEN [rev |-> q.rev + 1, items |-> Tail(q.items), answer |-> "none"]
                       ELSE [q EXCEPT !.answer = "none"]

\* The queue goes on: its tail is a promise that settles in any case, and its revision
\* moves with each save that succeeds.
NextInQueue(q) ==
    [rev |-> IF q.answer = "ok" THEN q.rev + 1 ELSE q.rev,
     items |-> Tail(q.items), answer |-> "none"]

\* flushSave goes on after the answer.
OnAnswer(l) ==
    /\ queue[l].answer # "none"
    /\ queue' = [queue EXCEPT ![l] = NextInQueue(@)]
    /\ \/ /\ queue[l].answer = "ok"
          /\ saveState' = "saved"
          /\ isDirty' = FALSE
       \/ /\ queue[l].answer = "conflict"
          /\ saveState' = "conflict"
          /\ UNCHANGED isDirty
    /\ UNCHANGED <<server, typed, saveTimer, load, current, shown, late, foreign, unseen>>

\* The request runs out of time or its connection breaks: it may have been served, may
\* be under way still (bound: one request at a time), or is lost.
GiveUp(l) ==
    /\ queue[l].items # <<>>
    /\ queue' = [queue EXCEPT ![l] = NextInQueue([@ EXCEPT !.answer = "failed"])]
    /\ saveState' = "failed"
    /\ \/ /\ queue[l].answer = "none" /\ late = {}
          /\ late' = {[by |-> l, rev |-> queue[l].rev, patch |-> Head(queue[l].items)]}
       \/ UNCHANGED late
    /\ foreign' = IF queue[l].answer = "ok" THEN foreign \cup {l} ELSE foreign
    /\ UNCHANGED <<server, typed, saveTimer, isDirty, load, current, shown, unseen>>

\* resolveConflict; reloading the shot changes neither the queue nor its revision.
ResolveConflict ==
    /\ saveState = "conflict"
    /\ saveState' = "idle"
    /\ UNCHANGED <<server, typed, saveTimer, isDirty, load, queue, current, shown, late,
                   foreign, unseen>>
-----------------------------------------------------------------------------
(* Loading the version.  A load whose request fails stays where it is.      *)

Ask(l) ==
    /\ load[l].phase = "none"
    /\ load' = [load EXCEPT ![l] = [@ EXCEPT !.phase = "asked"]]

\* The user asks for the version.
SwitchVersion(l) ==
    /\ Ask(l)
    /\ UNCHANGED <<server, page, queue, current, shown, late, foreign, unseen>>

\* addShot, duplicateShot, removeShot and splitShot: no revision is sent, and the
\* version is loaded after the answer.
ChangeStructure(l, s, x) ==
    /\ ~load[current].locked
    /\ Revision < MaxRevision
    /\ Ask(l)
    /\ EditShot(s, x)
    /\ Changed(None, {s})
    /\ UNCHANGED <<page, queue, current, shown, late>>

\* lockCurrentVersion: with the revision that the version was loaded with, which the
\* saves do not move; if it does not fit, nothing changes.
LockCurrentVersion(l) ==
    /\ Fits(load[current].rev)
    /\ Revision < MaxRevision
    /\ Ask(l)
    /\ LockVersion
    /\ Changed(None, {})
    /\ UNCHANGED <<page, queue, current, shown, late>>

\* getVersion is answered ...
TellVersion(l) ==
    /\ load[l].phase = "asked"
    /\ load' = [load EXCEPT ![l] = [phase |-> "told", rev |-> Revision,
                                    locked |-> status[Version] = "locked"]]
    /\ UNCHANGED <<server, page, queue, current, shown, late, foreign, unseen>>

\* ... and makes the queue ...
SetQueue(l) ==
    /\ load[l].phase = "told"
    /\ load' = [load EXCEPT ![l] = [@ EXCEPT !.phase = "queued"]]
    /\ queue' = [queue EXCEPT ![l] = [rev |-> load[l].rev, items |-> <<>>, answer |-> "none"]]
    /\ current' = l
    /\ UNCHANGED <<server, page, shown, late, foreign, unseen>>

\* ... listShots is asked for after that, is answered ...
ReadShots(l) ==
    /\ load[l].phase = "queued"
    /\ load' = [load EXCEPT ![l] = [@ EXCEPT !.phase = "read"]]
    /\ UNCHANGED <<server, page, queue, current, shown, late, foreign, unseen>>

\* ... and the shots are shown.
SetShots(l) ==
    /\ load[l].phase = "read"
    /\ load' = [load EXCEPT ![l] = [@ EXCEPT !.phase = "done"]]
    /\ shown' = l
    /\ UNCHANGED <<server, page, queue, current, late, foreign, unseen>>
-----------------------------------------------------------------------------
Next ==
    \/ Others
    \/ \E x \in Values : DebouncePatch(x)
    \/ \E s \in Shots : QueuePatch(s)
    \/ FlushSave
    \/ ResolveConflict
    \/ \E r \in late : ServeLate(r)
    \/ \E l \in Loads :
          \/ ServePatch(l)
          \/ OnAnswer(l)
          \/ GiveUp(l)
          \/ SwitchVersion(l)
          \/ \E s \in Shots, x \in Values : ChangeStructure(l, s, x)
          \/ LockCurrentVersion(l)
          \/ TellVersion(l)
          \/ SetQueue(l)
          \/ ReadShots(l)
          \/ SetShots(l)

Spec == Init /\ [][Next]_vars

\* Timers fire; a request is answered or runs out of time (request.js sets a timeout),
\* and the page takes the answer.
FairSpec ==
    /\ Spec
    /\ WF_vars(\E s \in Shots : QueuePatch(s))
    /\ WF_vars(FlushSave)
    /\ \A l \in Loads : WF_vars(ServePatch(l) \/ GiveUp(l)) /\ WF_vars(OnAnswer(l))
-----------------------------------------------------------------------------
(* Properties.                                                             *)

\* An autosave is refused because the version was changed by someone or something other
\* than the saves that its queue has seen acknowledged, or is not a draft any more.  The
\* others include saves of the page itself: unanswered ones, those of a queue before, and
\* changes of the structure.
ConflictsAreReal ==
    \A l \in Loads : queue[l].answer = "conflict" => l \in foreign \/ status[Version] # "draft"

\* No autosave of what was typed on the version shown overwrites a shot that others have
\* changed since it was loaded, with loads that overlap, answers that are lost and
\* requests that arrive late.
NoSilentOverwrite ==
    [][/\ \A l \in Loads :
             ServePatch(l) /\ queue'[l].answer = "ok" /\ Head(queue[l].items).on = l
                 => Head(queue[l].items).shot \notin unseen[l]
       /\ \A r \in late :
             ServeLate(r) /\ revision' # revision /\ r.patch.on = r.by
                 => r.patch.shot \notin unseen[r.by]]_vars

\* Unless the user goes on typing for ever, every queue sends what it holds: no save
\* waits behind one that failed or was given up.
SavesEnd == []<><<FlushSave>>_vars \/ \A l \in Loads : []<>(queue[l].items = <<>>)

\* The design (2026-06-30-storyboard-professional-editor-redesign.md:198) says that
\* leaving is prevented while a save has failed or something is not submitted; the page
\* asks when isDirty is set or saveState is failed.
UnsavedIsDirty ==
    saveTimer # None \/ (\E l \in Loads : queue[l].items # <<>>)
        => isDirty \/ saveState = "failed"
=============================================================================
