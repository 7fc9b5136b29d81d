----------------------- MODULE StoryboardEditorProofs -----------------------
(***************************************************************************)
(* Proofs about StoryboardEditor: the page's autosaves run into no         *)
(* conflict of their own making and overwrite nothing unseen, for any      *)
(* number of loads that overlap, patches in their queues and revisions.    *)
(*                                                                         *)
(* The argument: the revision that a queue counts (Known) never runs ahead *)
(* of the server's, is the server's as long as nothing else has changed    *)
(* the version, and has fallen behind it for good once others have changed *)
(* a shot that was read.  A request that was given up carries a revision   *)
(* its queue has known.                                                    *)
(***************************************************************************)
EXTENDS StoryboardEditor, SequenceTheorems, TLAPS

\* The load has not made its queue.
Early(l) == load[l].phase \in {"none", "asked", "told"}

\* The revision that the page will know once the answer under way is taken.
Known(l) ==
    IF load[l].phase = "told" THEN load[l].rev
    ELSE IF queue[l].answer = "ok" THEN queue[l].rev + 1 ELSE queue[l].rev

LoadOK(l) ==
    /\ Early(l) => queue[l].items = <<>> /\ l # current
    /\ queue[l].items = <<>> => queue[l].answer = "none"
    /\ load[l].phase \notin {"read", "done"} => unseen[l] = {}
    /\ Told(l) => /\ Known(l) <= Revision
                  /\ l \notin foreign => Known(l) = Revision
                  /\ unseen[l] # {} => Known(l) < Revision
    /\ queue[l].answer = "conflict" => l \in foreign \/ status[Version] # "draft"

LateOK(r) == ~Early(r.by) /\ r.rev <= queue[r.by].rev

EditorIInv ==
    /\ TypeOK
    /\ \A l \in Loads : LoadOK(l)
    /\ \A r \in late : LateOK(r)
-----------------------------------------------------------------------------
(* What every step leaves or does.                                         *)

\* Every write of the version moves its revision, and no draft comes back.
LEMMA ServerMoves ==
  ASSUME TypeOK,
         \/ \E s \in Shots, x \in Values : EditShot(s, x)
         \/ SubmitVersion
         \/ LockVersion
  PROVE  /\ status' \in [{Version} -> {"none", "draft", "reviewing", "locked"}]
         /\ revision' \in [{Version} -> Nat]
         /\ shots' \in [{Version} -> [Shots -> Values]]
         /\ broken' = {}
         /\ Revision' = Revision + 1
         /\ status[Version] # "draft" => status'[Version] # "draft"
<1>1. CASE \E s \in Shots, x \in Values : EditShot(s, x)
  <2> PICK s \in Shots, x \in Values : EditShot(s, x)
    BY <1>1
  <2> QED
    BY DEF EditShot, Write, Store!Edit, TypeOK, Revision
<1>2. CASE SubmitVersion
  BY <1>2 DEF SubmitVersion, Write, Store!Submit, TypeOK, Revision
<1>3. CASE LockVersion
  BY <1>3 DEF LockVersion, Write, Store!Lock, TypeOK, Revision
<1> QED
  BY <1>1, <1>2, <1>3

LEMMA RevisionIsNat == TypeOK => Revision \in Nat
  BY DEF TypeOK, Revision

LEMMA LoadTypes ==
  ASSUME TypeOK, NEW l \in Loads
  PROVE  /\ load[l] \in [phase : Phases, rev : Nat, locked : BOOLEAN]
         /\ queue[l] \in [rev : Nat, items : Seq(Patch), answer : Answers]
         /\ Known(l) \in Nat
         /\ unseen[l] \subseteq Shots
  BY DEF TypeOK, Known

\* A step that leaves a load, its queue and the server alone.
LEMMA LeftAlone ==
  ASSUME NEW m \in Loads, LoadOK(m), UNCHANGED server,
         load'[m] = load[m], queue'[m] = queue[m], unseen'[m] = unseen[m],
         m \in foreign => m \in foreign',
         current' = m => current = m \/ ~Early(m)
  PROVE  LoadOK(m)'
<1>1. /\ Early(m)' <=> Early(m)
      /\ Told(m)' <=> Told(m)
      /\ Known(m)' = Known(m)
      /\ Revision' = Revision
      /\ status' = status
  BY DEF Early, Told, Known, Revision, server
<1> QED
  BY <1>1 DEF LoadOK

\* A step in which the version changes, past a load.
LEMMA PassedOver ==
  ASSUME TypeOK, NEW m \in Loads, LoadOK(m), Revision' = Revision + 1,
         status[Version] # "draft" => status'[Version] # "draft",
         load'[m] = load[m] \/ (~Told(m) /\ load'[m].phase = "asked"),
         queue'[m] = queue[m], UNCHANGED current,
         m \in foreign \/ Told(m) => m \in foreign',
         load[m].phase \notin {"read", "done"} => unseen'[m] = unseen[m]
  PROVE  LoadOK(m)'
<1>1. CASE load'[m] = load[m]
  <2>1. /\ Early(m)' <=> Early(m)
        /\ Told(m)' <=> Told(m)
        /\ Known(m)' = Known(m)
    BY <1>1 DEF Early, Told, Known
  <2>2. Known(m) \in Nat /\ Revision \in Nat
    BY LoadTypes, RevisionIsNat
  <2>3. Told(m)' => Known(m)' < Revision' /\ m \in foreign'
    BY <2>1, <2>2 DEF LoadOK
  <2>4. Told(m)' => Known(m)' <= Revision'
    BY <2>1, <2>2, <2>3
  <2> QED
    BY <1>1, <2>1, <2>3, <2>4 DEF LoadOK
<1>2. CASE ~Told(m) /\ load'[m].phase = "asked"
  <2>1. Early(m) /\ Early(m)' /\ ~Told(m)'
    BY <1>2, LoadTypes DEF Early, Told
  <2>2. load[m].phase \notin {"read", "done"}
    BY <1>2 DEF Told
  <2> QED
    BY <1>2, <2>1, <2>2 DEF LoadOK
<1> QED
  BY <1>1, <1>2

\* A late request stays behind the queue it came from.
LEMMA LateLeftAlone ==
  ASSUME EditorIInv, late' \subseteq late,
         \A m \in Loads : ~Early(m) => ~Early(m)' /\ queue[m].rev <= queue'[m].rev,
         \A m \in Loads : queue'[m].rev \in Nat
  PROVE  \A r \in late' : LateOK(r)'
<1> SUFFICES ASSUME NEW r \in late' PROVE LateOK(r)'
  OBVIOUS
<1>1. r \in late /\ LateOK(r) /\ r \in Request
  BY DEF EditorIInv, TypeOK
<1>2. /\ r.by \in Loads /\ r.rev \in Nat
      /\ queue[r.by].rev \in Nat /\ queue'[r.by].rev \in Nat
  BY <1>1, LoadTypes DEF Request, EditorIInv
<1>3. ~Early(r.by)' /\ r.rev <= queue'[r.by].rev
  BY <1>1, <1>2 DEF LateOK
<1> QED
  BY <1>3 DEF LateOK

\* One queue goes on with the revision it has or with the next.
LEMMA RevsGrow ==
  ASSUME EditorIInv, NEW l \in Loads, \A m \in Loads \ {l} : queue'[m] = queue[m],
         queue'[l].rev \in {queue[l].rev, queue[l].rev + 1}
  PROVE  \A m \in Loads : queue'[m].rev \in Nat /\ queue[m].rev <= queue'[m].rev
<1> SUFFICES ASSUME NEW m \in Loads
             PROVE  queue'[m].rev \in Nat /\ queue[m].rev <= queue'[m].rev
  OBVIOUS
<1>1. queue[m].rev \in Nat
  BY LoadTypes DEF EditorIInv
<1>2. CASE m = l
  BY <1>1, <1>2
<1>3. CASE m # l
  BY <1>1, <1>3
<1> QED
  BY <1>2, <1>3

\* The page's own state is all that changes.
LEMMA PageKeepsIInv ==
  ASSUME EditorIInv, TypeOK',
         UNCHANGED <<server, load, queue, current, late, foreign, unseen>>
  PROVE  EditorIInv'
<1>1. \A m \in Loads : LoadOK(m)'
  BY LeftAlone DEF EditorIInv
<1>2. \A r \in late' : LateOK(r)'
  BY DEF EditorIInv, LateOK, Early
<1> QED
  BY <1>1, <1>2 DEF EditorIInv
-----------------------------------------------------------------------------
(* The server.                                                             *)

LEMMA UnseenTypes ==
  ASSUME TypeOK, NEW l \in Loads \cup {None}, NEW touched \in SUBSET Shots
  PROVE  Unseen(l, touched) \in [Loads -> SUBSET Shots]
  BY DEF TypeOK, Unseen

\* The version changes otherwise than by a save of a queue.
LEMMA ChangedPassesOver ==
  ASSUME EditorIInv, NEW touched \in SUBSET Shots, Changed(None, touched),
         Revision' = Revision + 1,
         status[Version] # "draft" => status'[Version] # "draft",
         \A m \in Loads : load'[m] = load[m] \/ (~Told(m) /\ load'[m].phase = "asked"),
         UNCHANGED <<queue, current, late>>
  PROVE  /\ foreign' \subseteq Loads
         /\ unseen' \in [Loads -> SUBSET Shots]
         /\ \A m \in Loads : LoadOK(m)'
         /\ \A r \in late' : LateOK(r)'
<1>1. foreign' \subseteq Loads /\ unseen' \in [Loads -> SUBSET Shots]
  BY UnseenTypes DEF Changed, EditorIInv, TypeOK
<1>2. ASSUME NEW m \in Loads PROVE LoadOK(m)'
  <2>1. m \in foreign \/ Told(m) => m \in foreign'
    BY EditorAssumption DEF Changed
  <2>2. load[m].phase \notin {"read", "done"} => unseen'[m] = unseen[m]
    BY DEF Changed, Unseen
  <2> QED
    BY <2>1, <2>2, PassedOver DEF EditorIInv
<1>3. \A r \in late' : LateOK(r)'
  <2>1. ASSUME NEW m \in Loads, ~Early(m) PROVE ~Early(m)'
    BY <2>1, LoadTypes DEF Early, Told, EditorIInv
  <2>2. \A m \in Loads : queue'[m] = queue[m] /\ queue[m].rev \in Nat
    BY LoadTypes DEF EditorIInv
  <2> QED
    BY <2>1, <2>2, LateLeftAlone
<1> QED
  BY <1>1, <1>2, <1>3

LEMMA OthersKeepIInv ==
  ASSUME EditorIInv, Others
  PROVE  EditorIInv'
<1>1. PICK touched \in SUBSET Shots :
         /\ \/ \E s \in Shots, x \in Values : EditShot(s, x)
            \/ SubmitVersion
            \/ LockVersion
         /\ Changed(None, touched)
  BY DEF Others
<1>2. UNCHANGED <<page, load, queue, current, shown, late>>
  BY DEF Others
<1>3. TypeOK
  BY DEF EditorIInv
<1>4. /\ Revision' = Revision + 1
      /\ status[Version] # "draft" => status'[Version] # "draft"
      /\ status' \in [{Version} -> {"none", "draft", "reviewing", "locked"}]
      /\ revision' \in [{Version} -> Nat]
      /\ shots' \in [{Version} -> [Shots -> Values]]
      /\ broken' = {}
  BY <1>1, <1>3, ServerMoves
<1>5. /\ foreign' \subseteq Loads
      /\ unseen' \in [Loads -> SUBSET Shots]
      /\ \A m \in Loads : LoadOK(m)'
      /\ \A r \in late' : LateOK(r)'
  BY <1>1, <1>2, <1>4, ChangedPassesOver
<1>6. TypeOK'
  BY <1>2, <1>3, <1>4, <1>5 DEF TypeOK, page
<1> QED
  BY <1>5, <1>6 DEF EditorIInv

\* A queue whose revision fits has seen every change of a shot.
LEMMA FitsIsCurrent ==
  ASSUME EditorIInv, NEW l \in Loads, ~Early(l), queue[l].answer # "ok",
         Fits(queue[l].rev)
  PROVE  unseen[l] = {}
<1>1. Told(l) /\ Known(l) = Revision
  BY LoadTypes DEF Early, Told, Known, Fits, EditorIInv
<1>2. Revision \in Nat
  BY RevisionIsNat DEF EditorIInv
<1> QED
  BY <1>1, <1>2 DEF EditorIInv, LoadOK

LEMMA ServePatchKeepsIInv ==
  ASSUME EditorIInv, NEW l \in Loads, ServePatch(l)
  PROVE  EditorIInv'
<1> DEFINE p == Head(queue[l].items)
<1>1. /\ TypeOK /\ LoadOK(l) /\ ~Early(l) /\ queue[l].items # <<>>
      /\ queue[l].answer = "none"
      /\ UNCHANGED <<page, load, current, shown, late>>
  BY DEF EditorIInv, ServePatch, LoadOK
<1>2. /\ load[l] \in [phase : Phases, rev : Nat, locked : BOOLEAN]
      /\ queue[l] \in [rev : Nat, items : Seq(Patch), answer : Answers]
      /\ Told(l) /\ Known(l) = queue[l].rev /\ Revision \in Nat /\ p \in Patch
  BY <1>1, LoadTypes, RevisionIsNat DEF Early, Told, Known
<1>3. CASE /\ Fits(queue[l].rev)
           /\ EditShot(p.shot, p.val)
           /\ queue' = [queue EXCEPT ![l] = [@ EXCEPT !.answer = "ok"]]
           /\ Changed(l, {p.shot})
  <2>1. p.shot \in Shots /\ p.val \in Values
    BY <1>2 DEF Patch
  <2>2. /\ Revision' = Revision + 1
        /\ status[Version] # "draft" => status'[Version] # "draft"
        /\ status' \in [{Version} -> {"none", "draft", "reviewing", "locked"}]
        /\ revision' \in [{Version} -> Nat]
        /\ shots' \in [{Version} -> [Shots -> Values]]
        /\ broken' = {}
    <3>1. PICK s \in Shots, x \in Values : s = p.shot /\ x = p.val
      BY <2>1
    <3>2. EditShot(s, x)
      BY <1>3, <3>1
    <3> QED
      BY <1>1, <3>2, ServerMoves
  <2>3. /\ queue' \in [Loads -> [rev : Nat, items : Seq(Patch), answer : Answers]]
        /\ queue'[l] = [queue[l] EXCEPT !.answer = "ok"]
        /\ \A m \in Loads \ {l} : queue'[m] = queue[m]
    BY <1>1, <1>2, <1>3 DEF TypeOK, Answers
  <2>4. /\ foreign' = foreign \cup {m \in Loads : Told(m) /\ m # l}
        /\ unseen' = Unseen(l, {p.shot})
    BY <1>3 DEF Changed
  <2>5. unseen' \in [Loads -> SUBSET Shots] /\ foreign' \subseteq Loads
    BY <1>1, <2>1, <2>4, UnseenTypes DEF TypeOK
  <2>6. TypeOK'
    BY <1>1, <2>2, <2>3, <2>5 DEF TypeOK, page
  <2>7. ASSUME NEW m \in Loads \ {l} PROVE LoadOK(m)'
    <3>1. m \in foreign \/ Told(m) => m \in foreign'
      BY <2>4
    <3>2. load[m].phase \notin {"read", "done"} => unseen'[m] = unseen[m]
      BY <2>4 DEF Unseen
    <3> QED
      BY <1>1, <2>2, <2>3, <3>1, <3>2, PassedOver DEF EditorIInv
  <2>8. LoadOK(l)'
    <3>1. unseen[l] = {} /\ unseen'[l] = {}
      <4>1. unseen[l] = {}
        BY <1>1, <1>3, FitsIsCurrent
      <4> QED
        BY <4>1, <2>4 DEF Unseen
    <3>2. Known(l)' = Revision' /\ Known(l)' <= Revision'
      BY <1>1, <1>2, <1>3, <2>2, <2>3 DEF Known, Fits, Early
    <3>3. ~Early(l)' /\ queue'[l].items = queue[l].items /\ queue'[l].answer = "ok"
      BY <1>1, <1>2, <2>3 DEF Early
    <3> QED
      BY <1>1, <3>1, <3>2, <3>3 DEF LoadOK
  <2>9. \A r \in late' : LateOK(r)'
    <3>1. \A m \in Loads : queue'[m].rev \in Nat /\ queue[m].rev <= queue'[m].rev
      BY <1>2, <2>3, RevsGrow
    <3>2. \A m \in Loads : Early(m)' <=> Early(m)
      BY <1>1 DEF Early
    <3> QED
      BY <1>1, <3>1, <3>2, LateLeftAlone
  <2> QED
    BY <2>6, <2>7, <2>8, <2>9 DEF EditorIInv
<1>4. CASE /\ ~Fits(queue[l].rev) \/ status[Version] # "draft"
           /\ queue' = [queue EXCEPT ![l] = [@ EXCEPT !.answer = "conflict"]]
           /\ UNCHANGED <<server, foreign, unseen>>
  <2>1. /\ queue' \in [Loads -> [rev : Nat, items : Seq(Patch), answer : Answers]]
        /\ queue'[l] = [queue[l] EXCEPT !.answer = "conflict"]
        /\ \A m \in Loads \ {l} : queue'[m] = queue[m]
    BY <1>1, <1>2, <1>4 DEF TypeOK, Answers
  <2>2. TypeOK'
    BY <1>1, <1>4, <2>1 DEF TypeOK, page, server
  <2>3. ASSUME NEW m \in Loads \ {l} PROVE LoadOK(m)'
    BY <1>1, <1>4, <2>1, LeftAlone DEF EditorIInv
  <2>4. LoadOK(l)'
    <3>1. /\ Known(l)' = Known(l) /\ Revision' = Revision /\ status' = status
          /\ queue'[l].items = queue[l].items
          /\ Early(l)' <=> Early(l)
          /\ Told(l)' <=> Told(l)
      BY <1>1, <1>2, <1>4, <2>1 DEF Known, Revision, server, Early, Told
    <3>2. l \in foreign \/ status[Version] # "draft"
      BY <1>1, <1>2, <1>4 DEF LoadOK, Fits
    <3> QED
      BY <1>1, <1>2, <1>4, <3>1, <3>2 DEF LoadOK
  <2>5. \A r \in late' : LateOK(r)'
    <3>1. \A m \in Loads : queue'[m].rev \in Nat /\ queue[m].rev <= queue'[m].rev
      BY <1>2, <2>1, RevsGrow
    <3>2. \A m \in Loads : Early(m)' <=> Early(m)
      BY <1>1 DEF Early
    <3> QED
      BY <1>1, <3>1, <3>2, LateLeftAlone
  <2> QED
    BY <2>2, <2>3, <2>4, <2>5 DEF EditorIInv
<1> QED
  BY <1>3, <1>4 DEF ServePatch

LEMMA ServeLateKeepsIInv ==
  ASSUME EditorIInv, NEW r \in late, ServeLate(r)
  PROVE  EditorIInv'
<1>1. /\ TypeOK /\ r \in Request /\ LateOK(r) /\ late' = late \ {r}
      /\ UNCHANGED <<page, load, queue, current, shown>>
  BY DEF EditorIInv, TypeOK, ServeLate
<1>2. r.by \in Loads /\ r.patch.shot \in Shots /\ r.patch.val \in Values
  BY <1>1 DEF Request, Patch
<1>3. late' \subseteq Request
  BY <1>1 DEF TypeOK
<1>4. \A q \in late' : LateOK(q)'
  BY <1>1 DEF EditorIInv, LateOK, Early
<1>5. CASE /\ Fits(r.rev)
           /\ EditShot(r.patch.shot, r.patch.val)
           /\ foreign' = foreign \cup {m \in Loads : Told(m)}
           /\ unseen' = Unseen(r.by, {r.patch.shot})
  <2>1. PICK s \in Shots, x \in Values : s = r.patch.shot /\ x = r.patch.val
    BY <1>2
  <2>2. EditShot(s, x)
    BY <1>5, <2>1
  <2>3. /\ Revision' = Revision + 1
        /\ status[Version] # "draft" => status'[Version] # "draft"
        /\ status' \in [{Version} -> {"none", "draft", "reviewing", "locked"}]
        /\ revision' \in [{Version} -> Nat]
        /\ shots' \in [{Version} -> [Shots -> Values]]
        /\ broken' = {}
    BY <1>1, <2>2, ServerMoves
  <2>4. unseen' \in [Loads -> SUBSET Shots] /\ foreign' \subseteq Loads
    BY <1>1, <1>2, <1>5, UnseenTypes DEF TypeOK
  <2>5. TypeOK'
    BY <1>1, <1>3, <2>3, <2>4 DEF TypeOK, page
  <2>6. ASSUME NEW m \in Loads PROVE LoadOK(m)'
    <3>1. m \in foreign \/ Told(m) => m \in foreign'
      BY <1>5
    <3>2. load[m].phase \notin {"read", "done"} => unseen'[m] = unseen[m]
      BY <1>5 DEF Unseen
    <3> QED
      BY <1>1, <2>3, <3>1, <3>2, PassedOver DEF EditorIInv
  <2> QED
    BY <1>4, <2>5, <2>6 DEF EditorIInv
<1>6. CASE UNCHANGED <<server, foreign, unseen>>
  <2>1. TypeOK'
    BY <1>1, <1>3, <1>6 DEF TypeOK, page, server
  <2>2. \A m \in Loads : LoadOK(m)'
    BY <1>1, <1>6, LeftAlone DEF EditorIInv
  <2> QED
    BY <1>4, <2>1, <2>2 DEF EditorIInv
<1> QED
  BY <1>5, <1>6 DEF ServeLate
-----------------------------------------------------------------------------
(* The page.                                                               *)

LEMMA TypingKeepsIInv ==
  ASSUME EditorIInv, (\E x \in Values : DebouncePatch(x)) \/ ResolveConflict
  PROVE  EditorIInv'
<1>1. /\ UNCHANGED <<server, load, queue, current, shown, late, foreign, unseen>>
      /\ UNCHANGED <<saveTimer, isDirty>>
      /\ typed' \in [val : Values, on : Loads \cup {None}] \cup {None}
      /\ saveState' \in SaveStates
  BY DEF EditorIInv, TypeOK, DebouncePatch, ResolveConflict, SaveStates
<1>2. TypeOK'
  BY <1>1 DEF EditorIInv, TypeOK, server
<1> QED
  BY <1>1, <1>2, PageKeepsIInv

LEMMA QueuePatchKeepsIInv ==
  ASSUME EditorIInv, NEW s \in Shots, QueuePatch(s)
  PROVE  EditorIInv'
<1>1. typed \in [val : Values, on : Loads \cup {None}]
  BY DEF EditorIInv, TypeOK, QueuePatch
<1>2. saveTimer' \in Patch
  BY <1>1 DEF QueuePatch, Patch
<1>3. TypeOK'
  BY <1>2 DEF EditorIInv, TypeOK, server, QueuePatch, SaveStates
<1> QED
  BY <1>3, PageKeepsIInv DEF QueuePatch

LEMMA FlushSaveKeepsIInv ==
  ASSUME EditorIInv, FlushSave
  PROVE  EditorIInv'
<1> PICK l \in Loads : l = current
  BY DEF EditorIInv, TypeOK
<1> DEFINE p == IF saveTimer.on = l THEN saveTimer ELSE [saveTimer EXCEPT !.on = None]
<1>1. /\ TypeOK /\ LoadOK(l)
      /\ saveTimer' = None /\ saveState' = "saving"
      /\ UNCHANGED <<server, typed, isDirty, load, current, shown, late, foreign, unseen>>
  BY DEF EditorIInv, TypeOK, FlushSave
<1>0. queue' = [queue EXCEPT ![l].items = Append(@, p)]
  BY DEF FlushSave
<1>2. queue[l] \in [rev : Nat, items : Seq(Patch), answer : Answers]
  BY <1>1, LoadTypes
<1>3. p \in Patch
  <2>1. saveTimer \in Patch
    BY DEF EditorIInv, TypeOK, FlushSave
  <2>2. [saveTimer EXCEPT !.on = None] \in Patch
    BY <2>1 DEF Patch
  <2> QED
    BY <2>1, <2>2
<1> HIDE DEF p
<1> PICK q : q = [queue[l] EXCEPT !.items = Append(@, p)]
  OBVIOUS
<1>4. /\ queue' \in [Loads -> [rev : Nat, items : Seq(Patch), answer : Answers]]
      /\ queue'[l].rev = queue[l].rev
      /\ queue'[l].answer = queue[l].answer
      /\ queue'[l].items # <<>>
      /\ \A m \in Loads \ {l} : queue'[m] = queue[m]
  <2>1. Append(queue[l].items, p) \in Seq(Patch) /\ Append(queue[l].items, p) # <<>>
    BY <1>2, <1>3, AppendProperties
  <2>2. /\ q \in [rev : Nat, items : Seq(Patch), answer : Answers]
        /\ q.rev = queue[l].rev /\ q.answer = queue[l].answer /\ q.items # <<>>
    BY <1>2, <2>1
  <2>3. queue' = [queue EXCEPT ![l] = q]
    BY <1>0
  <2> QED
    BY <1>1, <2>2, <2>3 DEF TypeOK
<1>5. TypeOK'
  BY <1>1, <1>4 DEF TypeOK, server, SaveStates
<1>6. ASSUME NEW m \in Loads \ {l} PROVE LoadOK(m)'
  BY <1>1, <1>4, LeftAlone DEF EditorIInv
<1>7. LoadOK(l)'
  <2>1. ~Early(l)
    BY <1>1 DEF LoadOK
  <2>2. /\ ~Early(l)' /\ (Told(l)' <=> Told(l)) /\ Known(l)' = Known(l)
        /\ Revision' = Revision /\ status' = status
    BY <1>1, <1>4, <2>1 DEF Early, Told, Known, Revision, server
  <2> QED
    BY <1>1, <1>4, <2>2 DEF LoadOK
<1>8. \A r \in late' : LateOK(r)'
  <2>1. \A m \in Loads : queue'[m].rev \in Nat /\ queue[m].rev <= queue'[m].rev
    BY <1>4, <1>1, RevsGrow
  <2>2. \A m \in Loads : Early(m)' <=> Early(m)
    BY <1>1 DEF Early
  <2> QED
    BY <1>1, <2>1, <2>2, LateLeftAlone
<1> QED
  BY <1>5, <1>6, <1>7, <1>8 DEF EditorIInv

\* A queue takes an answer: it goes on with the revision it had, or with the next if its
\* save has succeeded.
LEMMA NextInQueueTypes ==
  ASSUME TypeOK, NEW l \in Loads, queue[l].items # <<>>,
         NEW a \in Answers \cup {"failed"},
         NEW q, q = NextInQueue([queue[l] EXCEPT !.answer = a])
  PROVE  /\ q \in [rev : Nat, items : Seq(Patch), answer : Answers]
         /\ q.answer = "none"
         /\ q.rev = IF a = "ok" THEN queue[l].rev + 1 ELSE queue[l].rev
<1>1. queue[l] \in [rev : Nat, items : Seq(Patch), answer : Answers]
  BY LoadTypes
<1>2. Tail(queue[l].items) \in Seq(Patch)
  BY <1>1
<1> QED
  BY <1>1, <1>2 DEF NextInQueue, Answers

LEMMA AnswerTaken ==
  ASSUME EditorIInv, NEW l \in Loads, ~Early(l), queue[l].items # <<>>,
         NEW a \in {queue[l].answer, "failed"},
         queue' = [queue EXCEPT ![l] = NextInQueue([@ EXCEPT !.answer = a])],
         UNCHANGED <<server, load, current, unseen>>,
         foreign \subseteq foreign',
         queue[l].answer = "ok" /\ a # "ok" => l \in foreign'
  PROVE  /\ queue' \in [Loads -> [rev : Nat, items : Seq(Patch), answer : Answers]]
         /\ \A m \in Loads : queue'[m].rev \in Nat /\ queue[m].rev <= queue'[m].rev
         /\ \A m \in Loads : LoadOK(m)'
<1>1. TypeOK /\ queue[l].answer \in Answers /\ LoadOK(l)
  BY LoadTypes DEF EditorIInv
<1> PICK q : q = NextInQueue([queue[l] EXCEPT !.answer = a])
  OBVIOUS
<1>2. /\ q \in [rev : Nat, items : Seq(Patch), answer : Answers]
      /\ q.answer = "none"
      /\ q.rev = IF a = "ok" THEN queue[l].rev + 1 ELSE queue[l].rev
  BY <1>1, NextInQueueTypes
<1>0. queue' = [queue EXCEPT ![l] = q]
  OBVIOUS
<1>3. /\ queue' \in [Loads -> [rev : Nat, items : Seq(Patch), answer : Answers]]
      /\ queue'[l] = q
      /\ \A m \in Loads \ {l} : queue'[m] = queue[m]
  BY <1>0, <1>1, <1>2 DEF TypeOK
<1>4. \A m \in Loads : queue'[m].rev \in Nat /\ queue[m].rev <= queue'[m].rev
  BY <1>2, <1>3, RevsGrow
<1>5. ASSUME NEW m \in Loads \ {l} PROVE LoadOK(m)'
  BY <1>3, LeftAlone DEF EditorIInv
<1>6. LoadOK(l)'
  <2>1. /\ ~Early(l)' /\ (Told(l)' <=> Told(l)) /\ Revision' = Revision /\ status' = status
    BY DEF Early, Told, Revision, server
  <2>2. Told(l) /\ load[l].phase # "told"
    BY <1>1, LoadTypes DEF Early, Told
  <2>3. queue[l].rev \in Nat /\ Revision \in Nat
    BY <1>1, LoadTypes, RevisionIsNat
  <2>4. CASE a = queue[l].answer
    <3>1. Known(l)' = Known(l)
      BY <1>2, <1>3, <2>2, <2>4 DEF Known
    <3> QED
      BY <1>1, <1>2, <1>3, <2>1, <2>2, <3>1 DEF LoadOK
  <2>5. CASE a # queue[l].answer /\ queue[l].answer # "ok"
    <3>1. Known(l)' = Known(l)
      BY <1>2, <1>3, <2>2, <2>5 DEF Known
    <3> QED
      BY <1>1, <1>2, <1>3, <2>1, <2>2, <3>1 DEF LoadOK
  <2>6. CASE a # queue[l].answer /\ queue[l].answer = "ok"
    <3>1. Known(l)' < Revision /\ Known(l)' <= Revision /\ l \in foreign'
      BY <1>1, <1>2, <1>3, <2>2, <2>3, <2>6 DEF Known, LoadOK
    <3> QED
      BY <1>1, <1>2, <1>3, <2>1, <3>1 DEF LoadOK
  <2> QED
    BY <2>4, <2>5, <2>6
<1>7. \A m \in Loads : LoadOK(m)'
  BY <1>5, <1>6
<1> QED
  BY <1>3, <1>4, <1>7

LEMMA OnAnswerKeepsIInv ==
  ASSUME EditorIInv, NEW l \in Loads, OnAnswer(l)
  PROVE  EditorIInv'
<1>1. /\ TypeOK /\ LoadOK(l) /\ queue[l].answer # "none"
      /\ saveState' \in SaveStates /\ isDirty' \in BOOLEAN
      /\ queue' = [queue EXCEPT ![l] = NextInQueue(@)]
      /\ UNCHANGED <<server, typed, saveTimer, load, current, shown, late, foreign, unseen>>
  BY DEF EditorIInv, TypeOK, OnAnswer, SaveStates
<1>2. queue[l].items # <<>> /\ ~Early(l)
  BY <1>1 DEF LoadOK
<1>3. queue[l] = [queue[l] EXCEPT !.answer = queue[l].answer]
  BY <1>1, LoadTypes
<1>4. queue' = [queue EXCEPT ![l] = NextInQueue([@ EXCEPT !.answer = queue[l].answer])]
  BY <1>1, <1>3
<1>5. /\ queue' \in [Loads -> [rev : Nat, items : Seq(Patch), answer : Answers]]
      /\ \A m \in Loads : queue'[m].rev \in Nat /\ queue[m].rev <= queue'[m].rev
      /\ \A m \in Loads : LoadOK(m)'
  BY <1>1, <1>2, <1>4, AnswerTaken
<1>6. TypeOK'
  BY <1>1, <1>5 DEF TypeOK, server
<1>7. \A r \in late' : LateOK(r)'
  <2>1. \A m \in Loads : Early(m)' <=> Early(m)
    BY <1>1 DEF Early
  <2> QED
    BY <1>1, <1>5, <2>1, LateLeftAlone
<1> QED
  BY <1>5, <1>6, <1>7 DEF EditorIInv

LEMMA GiveUpKeepsIInv ==
  ASSUME EditorIInv, NEW l \in Loads, GiveUp(l)
  PROVE  EditorIInv'
<1> DEFINE r == [by |-> l, rev |-> queue[l].rev, patch |-> Head(queue[l].items)]
<1>1. /\ TypeOK /\ LoadOK(l) /\ queue[l].items # <<>>
      /\ saveState' \in SaveStates
      /\ queue' = [queue EXCEPT ![l] = NextInQueue([@ EXCEPT !.answer = "failed"])]
      /\ late' = {r} \/ late' = late
      /\ foreign' = IF queue[l].answer = "ok" THEN foreign \cup {l} ELSE foreign
      /\ UNCHANGED <<server, typed, saveTimer, isDirty, load, current, shown, unseen>>
  BY DEF EditorIInv, TypeOK, GiveUp, SaveStates
<1>2. ~Early(l) /\ queue[l] \in [rev : Nat, items : Seq(Patch), answer : Answers]
  BY <1>1, LoadTypes DEF LoadOK
<1>3. /\ queue' \in [Loads -> [rev : Nat, items : Seq(Patch), answer : Answers]]
      /\ \A m \in Loads : queue'[m].rev \in Nat /\ queue[m].rev <= queue'[m].rev
      /\ \A m \in Loads : LoadOK(m)'
  BY <1>1, <1>2, AnswerTaken
<1>4. r \in Request
  BY <1>1, <1>2 DEF Request
<1>5. TypeOK'
  <2>1. late' \subseteq Request /\ foreign' \subseteq Loads
    BY <1>1, <1>4 DEF TypeOK
  <2> QED
    BY <1>1, <1>3, <2>1 DEF TypeOK, server
<1>6. \A m \in Loads : Early(m)' <=> Early(m)
  BY <1>1 DEF Early
<1>7. \A q \in late' : LateOK(q)'
  <2>1. CASE late' = late
    BY <1>3, <1>6, <2>1, LateLeftAlone
  <2>2. CASE late' = {r}
    <3>1. ~Early(l)' /\ queue[l].rev <= queue'[l].rev
      BY <1>2, <1>3, <1>6
    <3> QED
      BY <2>2, <3>1 DEF LateOK
  <2> QED
    BY <1>1, <2>1, <2>2
<1> QED
  BY <1>3, <1>5, <1>7 DEF EditorIInv
-----------------------------------------------------------------------------
(* Loading the version.                                                    *)

\* A load moves to another phase.
LEMMA PhaseMoves ==
  ASSUME TypeOK, NEW l \in Loads, NEW ph \in Phases,
         load' = [load EXCEPT ![l] = [@ EXCEPT !.phase = ph]]
  PROVE  /\ load' \in [Loads -> [phase : Phases, rev : Nat, locked : BOOLEAN]]
         /\ load'[l].phase = ph
         /\ \A m \in Loads \ {l} : load'[m] = load[m]
<1>1. load[l] \in [phase : Phases, rev : Nat, locked : BOOLEAN]
  BY LoadTypes
<1> PICK r : r = [load[l] EXCEPT !.phase = ph]
  OBVIOUS
<1>2. r \in [phase : Phases, rev : Nat, locked : BOOLEAN] /\ r.phase = ph
  BY <1>1
<1>3. load' = [load EXCEPT ![l] = r]
  OBVIOUS
<1>4. load \in [Loads -> [phase : Phases, rev : Nat, locked : BOOLEAN]]
  BY DEF TypeOK
<1> QED
  BY <1>2, <1>3, <1>4

\* A load that is asked for is early before and after, and has seen nothing.
LEMMA AskTypes ==
  ASSUME EditorIInv, NEW l \in Loads, Ask(l)
  PROVE  /\ load' \in [Loads -> [phase : Phases, rev : Nat, locked : BOOLEAN]]
         /\ \A m \in Loads : load'[m] = load[m] \/ (~Told(m) /\ load'[m].phase = "asked")
         /\ \A m \in Loads : Early(m)' <=> Early(m)
         /\ \A m \in Loads : Told(m)' <=> Told(m)
         /\ \A m \in Loads \ {l} : load'[m] = load[m]
         /\ ~Told(l) /\ Early(l) /\ load'[l].phase = "asked"
<1>1. /\ load' \in [Loads -> [phase : Phases, rev : Nat, locked : BOOLEAN]]
      /\ load'[l].phase = "asked"
      /\ \A m \in Loads \ {l} : load'[m] = load[m]
  BY PhaseMoves DEF EditorIInv, Ask, Phases
<1>2. load[l].phase = "none"
  BY DEF Ask
<1> QED
  BY <1>1, <1>2 DEF Told, Early

LEMMA SwitchVersionKeepsIInv ==
  ASSUME EditorIInv, NEW l \in Loads, SwitchVersion(l)
  PROVE  EditorIInv'
<1>1. /\ Ask(l) /\ TypeOK
      /\ UNCHANGED <<server, page, queue, current, shown, late, foreign, unseen>>
  BY DEF EditorIInv, SwitchVersion
<1>2. TypeOK'
  BY <1>1, AskTypes DEF TypeOK, server, page
<1>3. ASSUME NEW m \in Loads \ {l} PROVE LoadOK(m)'
  BY <1>1, AskTypes, LeftAlone DEF EditorIInv
<1>4. LoadOK(l)'
  <2>1. /\ LoadOK(l) /\ ~Told(l) /\ Early(l)
        /\ ~Told(l)' /\ Early(l)' /\ load'[l].phase = "asked"
        /\ status' = status
    BY <1>1, AskTypes DEF EditorIInv, server
  <2>2. load[l].phase \notin {"read", "done"}
    BY <2>1 DEF Told
  <2> QED
    BY <1>1, <2>1, <2>2 DEF LoadOK
<1>5. \A r \in late' : LateOK(r)'
  <2>1. \A m \in Loads : queue'[m] = queue[m] /\ queue[m].rev \in Nat
    BY <1>1, LoadTypes
  <2> QED
    BY <1>1, <2>1, AskTypes, LateLeftAlone
<1> QED
  BY <1>2, <1>3, <1>4, <1>5 DEF EditorIInv

\* A load is asked for together with a change of the version.
LEMMA ChangeAndAskKeepsIInv ==
  ASSUME EditorIInv, NEW l \in Loads, Ask(l),
         \/ \E s \in Shots, x \in Values : EditShot(s, x)
         \/ LockVersion,
         NEW touched \in SUBSET Shots, Changed(None, touched),
         UNCHANGED <<page, queue, current, shown, late>>
  PROVE  EditorIInv'
<1>1. TypeOK
  BY DEF EditorIInv
<1>2. /\ Revision' = Revision + 1
      /\ status[Version] # "draft" => status'[Version] # "draft"
      /\ status' \in [{Version} -> {"none", "draft", "reviewing", "locked"}]
      /\ revision' \in [{Version} -> Nat]
      /\ shots' \in [{Version} -> [Shots -> Values]]
      /\ broken' = {}
  BY <1>1, ServerMoves
<1>3. /\ foreign' \subseteq Loads
      /\ unseen' \in [Loads -> SUBSET Shots]
      /\ \A m \in Loads : LoadOK(m)'
      /\ \A r \in late' : LateOK(r)'
  BY <1>2, AskTypes, ChangedPassesOver
<1>4. TypeOK'
  BY <1>1, <1>2, <1>3, AskTypes DEF TypeOK, page
<1> QED
  BY <1>3, <1>4 DEF EditorIInv

LEMMA TellVersionKeepsIInv ==
  ASSUME EditorIInv, NEW l \in Loads, TellVersion(l)
  PROVE  EditorIInv'
<1>1. /\ TypeOK /\ LoadOK(l) /\ load[l].phase = "asked" /\ Revision \in Nat
      /\ UNCHANGED <<server, page, queue, current, shown, late, foreign, unseen>>
  BY RevisionIsNat DEF EditorIInv, TellVersion
<1>2. load' = [load EXCEPT ![l] = [phase |-> "told", rev |-> Revision,
                                   locked |-> status[Version] = "locked"]]
  BY DEF TellVersion
<1>3. /\ load' \in [Loads -> [phase : Phases, rev : Nat, locked : BOOLEAN]]
      /\ load'[l].phase = "told" /\ load'[l].rev = Revision
      /\ \A m \in Loads \ {l} : load'[m] = load[m]
  BY <1>1, <1>2 DEF TypeOK, Phases
<1>4. TypeOK'
  BY <1>1, <1>3 DEF TypeOK, server, page
<1>5. ASSUME NEW m \in Loads \ {l} PROVE LoadOK(m)'
  BY <1>1, <1>3, LeftAlone DEF EditorIInv
<1>6. LoadOK(l)'
  <2>1. Early(l) /\ Early(l)' /\ queue[l].items = <<>> /\ l # current /\ unseen[l] = {}
    BY <1>1, <1>3 DEF Early, LoadOK
  <2>2. /\ queue'[l] = queue[l] /\ unseen'[l] = {} /\ l # current' /\ status' = status
        /\ queue[l].answer = "none"
    BY <1>1, <2>1 DEF server, LoadOK
  <2>3. Known(l)' = Revision' /\ Revision' \in Nat
    BY <1>1, <1>3 DEF Known, Revision, server
  <2> QED
    BY <2>1, <2>2, <2>3 DEF LoadOK
<1>7. \A r \in late' : LateOK(r)'
  <2>1. \A m \in Loads : ~Early(m) => ~Early(m)'
    BY <1>1, <1>3 DEF Early
  <2>2. \A m \in Loads : queue'[m] = queue[m] /\ queue[m].rev \in Nat
    BY <1>1, LoadTypes
  <2> QED
    BY <1>1, <2>1, <2>2, LateLeftAlone
<1> QED
  BY <1>4, <1>5, <1>6, <1>7 DEF EditorIInv

LEMMA SetQueueKeepsIInv ==
  ASSUME EditorIInv, NEW l \in Loads, SetQueue(l)
  PROVE  EditorIInv'
<1>1. /\ TypeOK /\ LoadOK(l) /\ load[l].phase = "told" /\ current' = l
      /\ load[l].rev \in Nat
      /\ UNCHANGED <<server, page, shown, late, foreign, unseen>>
  BY LoadTypes DEF EditorIInv, SetQueue
<1>2. /\ load' = [load EXCEPT ![l] = [@ EXCEPT !.phase = "queued"]]
      /\ queue' = [queue EXCEPT ![l] = [rev |-> load[l].rev, items |-> <<>>,
                                        answer |-> "none"]]
  BY DEF SetQueue
<1>3. /\ load' \in [Loads -> [phase : Phases, rev : Nat, locked : BOOLEAN]]
      /\ load'[l].phase = "queued"
      /\ \A m \in Loads \ {l} : load'[m] = load[m]
  BY <1>1, <1>2, PhaseMoves DEF Phases
<1>4. /\ queue' \in [Loads -> [rev : Nat, items : Seq(Patch), answer : Answers]]
      /\ queue'[l].rev = load[l].rev /\ queue'[l].items = <<>>
      /\ queue'[l].answer = "none"
      /\ \A m \in Loads \ {l} : queue'[m] = queue[m]
  <2>1. [rev |-> load[l].rev, items |-> <<>>, answer |-> "none"]
           \in [rev : Nat, items : Seq(Patch), answer : Answers]
    BY <1>1 DEF Answers
  <2> QED
    BY <1>1, <1>2, <2>1 DEF TypeOK
<1>5. TypeOK'
  BY <1>1, <1>3, <1>4 DEF TypeOK, server, page
<1>6. ASSUME NEW m \in Loads \ {l} PROVE LoadOK(m)'
  BY <1>1, <1>3, <1>4, LeftAlone DEF EditorIInv
<1>7. LoadOK(l)'
  <2>1. Told(l) /\ ~Early(l)'
    BY <1>1, <1>3 DEF Early, Told
  <2>2. Known(l)' = Known(l) /\ Revision' = Revision /\ unseen[l] = {}
    BY <1>1, <1>3, <1>4 DEF Known, Revision, server, LoadOK
  <2> QED
    BY <1>1, <1>4, <2>1, <2>2 DEF LoadOK
<1>8. \A r \in late' : LateOK(r)'
  <2> SUFFICES ASSUME NEW r \in late PROVE LateOK(r)'
    BY <1>1
  <2>1. LateOK(r) /\ r \in Request
    BY <1>1 DEF EditorIInv, TypeOK
  <2>2. r.by \in Loads \ {l}
    BY <1>1, <2>1 DEF LateOK, Request, Early
  <2> QED
    BY <1>3, <1>4, <2>1, <2>2 DEF LateOK, Early
<1> QED
  BY <1>5, <1>6, <1>7, <1>8 DEF EditorIInv

LEMMA ShotsKeepIInv ==
  ASSUME EditorIInv, NEW l \in Loads, ReadShots(l) \/ SetShots(l)
  PROVE  EditorIInv'
<1>1. /\ TypeOK /\ LoadOK(l) /\ load[l].phase \in {"queued", "read"}
      /\ UNCHANGED <<server, page, queue, current, late, foreign, unseen>>
      /\ shown' \in Loads
  BY DEF EditorIInv, TypeOK, ReadShots, SetShots
<1>2. /\ load' \in [Loads -> [phase : Phases, rev : Nat, locked : BOOLEAN]]
      /\ load'[l].phase \in {"read", "done"}
      /\ \A m \in Loads \ {l} : load'[m] = load[m]
  <2> PICK ph \in {"read", "done"} : load' = [load EXCEPT ![l] = [@ EXCEPT !.phase = ph]]
    BY DEF ReadShots, SetShots
  <2> QED
    BY <1>1, PhaseMoves DEF Phases
<1>3. TypeOK'
  BY <1>1, <1>2 DEF TypeOK, server, page
<1>4. ASSUME NEW m \in Loads \ {l} PROVE LoadOK(m)'
  BY <1>1, <1>2, LeftAlone DEF EditorIInv
<1>5. LoadOK(l)'
  <2>1. Told(l) /\ ~Early(l) /\ ~Early(l)'
    BY <1>1, <1>2 DEF Early, Told
  <2>2. Known(l)' = Known(l) /\ Revision' = Revision /\ status' = status
    BY <1>1, <1>2 DEF Known, Revision, server
  <2> QED
    BY <1>1, <1>2, <2>1, <2>2 DEF LoadOK
<1>6. \A r \in late' : LateOK(r)'
  <2>1. \A m \in Loads : ~Early(m) => ~Early(m)'
    BY <1>1, <1>2 DEF Early
  <2>2. \A m \in Loads : queue'[m] = queue[m] /\ queue[m].rev \in Nat
    BY <1>1, LoadTypes
  <2> QED
    BY <1>1, <2>1, <2>2, LateLeftAlone
<1> QED
  BY <1>3, <1>4, <1>5, <1>6 DEF EditorIInv
-----------------------------------------------------------------------------
(* The theorems.                                                           *)

LEMMA EditorInit == Init => EditorIInv
<1> SUFFICES ASSUME Init PROVE EditorIInv
  OBVIOUS
<1>1. /\ status = [v \in {Version} |-> "draft"]
      /\ revision = [v \in {Version} |-> 0]
      /\ shots = [v \in {Version} |-> [s \in Shots |-> Blank]]
      /\ broken = {}
  BY DEF Init, Store!Init
<1>2. TypeOK
  <2>1. <<>> \in Seq(Patch)
    OBVIOUS
  <2> QED
    BY <1>1, <2>1, EditorAssumption DEF Init, TypeOK, SaveStates, Answers, Phases
<1>3. ASSUME NEW l \in Loads PROVE LoadOK(l)
  BY <1>1, EditorAssumption DEF Init, LoadOK, Early, Told, Known, Revision
<1> QED
  BY <1>2, <1>3 DEF Init, EditorIInv

LEMMA EditorStep ==
  ASSUME EditorIInv, [Next]_vars
  PROVE  EditorIInv'
<1>1. CASE Others
  BY <1>1, OthersKeepIInv
<1>2. CASE (\E x \in Values : DebouncePatch(x)) \/ ResolveConflict
  BY <1>2, TypingKeepsIInv
<1>3. CASE \E s \in Shots : QueuePatch(s)
  BY <1>3, QueuePatchKeepsIInv
<1>4. CASE FlushSave
  BY <1>4, FlushSaveKeepsIInv
<1>5. CASE \E r \in late : ServeLate(r)
  BY <1>5, ServeLateKeepsIInv
<1>6. CASE \E l \in Loads : ServePatch(l)
  BY <1>6, ServePatchKeepsIInv
<1>7. CASE \E l \in Loads : OnAnswer(l)
  BY <1>7, OnAnswerKeepsIInv
<1>8. CASE \E l \in Loads : GiveUp(l)
  BY <1>8, GiveUpKeepsIInv
<1>9. CASE \E l \in Loads : SwitchVersion(l)
  BY <1>9, SwitchVersionKeepsIInv
<1>10. CASE \E l \in Loads, s \in Shots, x \in Values : ChangeStructure(l, s, x)
  <2> PICK l \in Loads, s \in Shots, x \in Values : ChangeStructure(l, s, x)
    BY <1>10
  <2>1. /\ Ask(l) /\ Changed(None, {s}) /\ {s} \in SUBSET Shots
        /\ \E t \in Shots, y \in Values : EditShot(t, y)
        /\ UNCHANGED <<page, queue, current, shown, late>>
    BY DEF ChangeStructure
  <2> QED
    BY <2>1, ChangeAndAskKeepsIInv
<1>11. CASE \E l \in Loads : LockCurrentVersion(l)
  <2> PICK l \in Loads : LockCurrentVersion(l)
    BY <1>11
  <2>1. /\ Ask(l) /\ Changed(None, {}) /\ {} \in SUBSET Shots
        /\ LockVersion
        /\ UNCHANGED <<page, queue, current, shown, late>>
    BY DEF LockCurrentVersion
  <2> QED
    BY <2>1, ChangeAndAskKeepsIInv
<1>12. CASE \E l \in Loads : TellVersion(l)
  BY <1>12, TellVersionKeepsIInv
<1>13. CASE \E l \in Loads : SetQueue(l)
  BY <1>13, SetQueueKeepsIInv
<1>14. CASE \E l \in Loads : ReadShots(l) \/ SetShots(l)
  BY <1>14, ShotsKeepIInv
<1>15. CASE UNCHANGED vars
  <2>1. /\ UNCHANGED <<server, typed, saveTimer, saveState, isDirty, load, queue>>
        /\ UNCHANGED <<current, shown, late, foreign, unseen>>
    BY <1>15 DEF vars, page
  <2>2. TypeOK'
    BY <2>1 DEF EditorIInv, TypeOK, server
  <2> QED
    BY <2>1, <2>2, PageKeepsIInv
<1> QED
  BY <1>1, <1>2, <1>3, <1>4, <1>5, <1>6, <1>7, <1>8, <1>9, <1>10, <1>11, <1>12, <1>13,
     <1>14, <1>15 DEF Next

\* The revision that each queue counts stays at or behind the server's.
THEOREM EditorInvariant == Spec => []EditorIInv
  BY EditorInit, EditorStep, PTL DEF Spec

\* The page's, the queues' and the server's state keep their types.
THEOREM EditorTypes == Spec => []TypeOK
<1>1. EditorIInv => TypeOK
  BY DEF EditorIInv
<1> QED
  BY <1>1, EditorInvariant, PTL

\* createRevisionSaveQueue counts right: with any number of loads that overlap and of
\* patches, an autosave conflicts only with what others did, or what the page did outside
\* that queue.
THEOREM NoOwnConflicts == Spec => []ConflictsAreReal
<1>1. EditorIInv => ConflictsAreReal
  BY DEF EditorIInv, LoadOK, ConflictsAreReal
<1> QED
  BY <1>1, EditorInvariant, PTL

\* What is typed on the version shown overwrites no shot that others have changed since it
\* was read, whatever loads overlap, answers get lost and requests arrive late.
THEOREM NothingOverwrittenUnseen == Spec => NoSilentOverwrite
<1> DEFINE Seen ==
      /\ \A l \in Loads :
            ServePatch(l) /\ queue'[l].answer = "ok" /\ Head(queue[l].items).on = l
                => Head(queue[l].items).shot \notin unseen[l]
      /\ \A r \in late :
            ServeLate(r) /\ revision' # revision /\ r.patch.on = r.by
                => r.patch.shot \notin unseen[r.by]
<1>1. ASSUME EditorIInv, NEW l \in Loads, ServePatch(l), queue'[l].answer = "ok"
      PROVE  unseen[l] = {}
  <2>1. /\ ~Early(l) /\ queue[l].answer = "none"
        /\ queue[l] \in [rev : Nat, items : Seq(Patch), answer : Answers]
    BY <1>1, LoadTypes DEF EditorIInv, LoadOK, ServePatch
  <2>2. Fits(queue[l].rev)
    <3>1. SUFFICES ASSUME queue' = [queue EXCEPT ![l] = [@ EXCEPT !.answer = "conflict"]]
                   PROVE  FALSE
      BY <1>1 DEF ServePatch
    <3>2. queue'[l] = [queue[l] EXCEPT !.answer = "conflict"]
      <4> PICK q : q = [queue[l] EXCEPT !.answer = "conflict"]
        OBVIOUS
      <4>1. queue' = [queue EXCEPT ![l] = q]
        BY <3>1
      <4> QED
        BY <1>1, <4>1 DEF EditorIInv, TypeOK
    <3> QED
      BY <1>1, <2>1, <3>2
  <2> QED
    BY <1>1, <2>1, <2>2, FitsIsCurrent
<1>2. ASSUME EditorIInv, NEW r \in late, ServeLate(r), revision' # revision
      PROVE  unseen[r.by] = {}
  <2>1. LateOK(r) /\ r.by \in Loads /\ r.rev \in Nat
    BY <1>2 DEF EditorIInv, TypeOK, Request
  <2>2. r.rev = Revision
    BY <1>2 DEF ServeLate, Fits, server
  <2>3. /\ Told(r.by) /\ queue[r.by].rev \in Nat /\ Known(r.by) \in Nat
        /\ LoadOK(r.by)
    BY <1>2, <2>1, LoadTypes DEF EditorIInv, LateOK, Early, Told
  <2>4. queue[r.by].rev <= Known(r.by)
    BY <2>1, <2>3 DEF Known, LateOK, Early
  <2>5. Known(r.by) = Revision
    BY <2>1, <2>2, <2>3, <2>4 DEF LateOK, LoadOK
  <2> QED
    BY <2>1, <2>2, <2>3, <2>5 DEF LoadOK, EditorIInv, TypeOK
<1>3. EditorIInv /\ [Next]_vars => [Seen]_vars
  BY <1>1, <1>2
<1>4. Spec => [][Seen]_vars
  BY <1>3, EditorInvariant, PTL DEF Spec
<1> QED
  BY <1>4 DEF NoSilentOverwrite
=============================================================================
