------------------------- MODULE EditorModel_proofs -------------------------
(***************************************************************************)
(* What holds of an editor and its file for any text, any number of edits, *)
(* saves, reverts and writes of other programs, however they interleave.   *)
(***************************************************************************)
EXTENDS EditorModel, SequenceTheorems, TLAPS

F == INSTANCE Folding WITH op <- Apply
-----------------------------------------------------------------------------
(* The invariant. *)

Edit == UNION {[ls -> Texts] : ls \in SUBSET Lines}
Undone == [doc : Docs, id : Nat, typed : BOOLEAN]
Asked == [kind : {"sync", "save"}, cancelled : BOOLEAN, revert : BOOLEAN, manual : BOOLEAN,
          was : BOOLEAN]

SyncSteps == {"reading", "stat", "text", "read"}
SaveSteps == {"update", "patch", "validate", "ask", "write", "written", "saved"}

FileTypes ==
    /\ written \in Seq(Docs) /\ written # <<>>
    /\ changed \in BOOLEAN /\ foreign \in 0 .. MaxForeign /\ asked \in 0 .. MaxRequests
    /\ version \in 1 .. Mtime /\ stats \subseteq 1 .. Mtime /\ resourceVersion \in 1 .. version

TextTypes ==
    /\ buffer \in Docs /\ edits \in Nat /\ alternative \in 0 .. edits
    /\ saved \in 0 .. edits /\ dirty \in BOOLEAN
    /\ undo \in Seq(Undone) /\ changes \in Seq(Edit)
    /\ astray \in BOOLEAN /\ misled \in BOOLEAN /\ interrupted \in BOOLEAN

\* Of the operations of a kind only the youngest is not cancelled.
QueueTypes ==
    /\ queue \in Seq(Asked)
    /\ \A i \in DOMAIN queue : queue[i].revert => queue[i].kind = "sync"
    /\ \A i, j \in DOMAIN queue :
          i < j /\ queue[i].kind = queue[j].kind => queue[i].cancelled
    /\ step \in {"idle"} \cup SyncSteps \cup SaveSteps
    /\ step \in SyncSteps => queue # <<>> /\ queue[1].kind = "sync"
    /\ step \in SaveSteps => queue # <<>> /\ queue[1].kind = "save"

\* The ids on the undo stack grow up to that of the text.
Stacked ==
    /\ \A k \in DOMAIN undo : undo[k].id < alternative
    /\ \A j, k \in DOMAIN undo : j < k => undo[j].id < undo[k].id

\* A sync that has read holds a text.
Reading ==
    /\ DOMAIN job = DOMAIN NoJob
    /\ step \in {"stat", "read"} => job.content \in Docs

\* A save holds the text it began with and the changes that led to it; what it knows of
\* the file depends on how far it is.
SaveFile ==
    /\ job.version = resourceVersion /\ job.content \in Docs
    /\ job.changes \in Seq(Edit) /\ Len(job.changes) <= Len(changes)
    /\ \A k \in 1 .. Len(job.changes) : job.changes[k] = changes[k]
    /\ ~astray => ApplyAll(written[resourceVersion], job.changes) = job.content
    /\ step = "patch" => job.seen \in 1 .. Mtime /\ (~astray => job.seen = resourceVersion)
    /\ step = "written" => job.seen \in 1 .. Mtime /\ written[job.seen] = job.content
    /\ step = "saved" => astray

\* The id it began with still means that text.
SaveText ==
    /\ job.alternative \in 0 .. edits
    /\ alternative = job.alternative => buffer = job.content
    /\ \A k \in DOMAIN undo : undo[k].id = job.alternative => undo[k].doc = job.content

Saving == step \in SaveSteps => SaveFile /\ (~astray => SaveText)

Reverts == \E i \in DOMAIN queue : queue[i].revert
RevertsDirty == \E i \in DOMAIN queue : queue[i].revert /\ queue[i].was

\* A text that counts as saved, whether it is shown or typing can be undone back to it,
\* is the one of the file as it was last known.
SavedKnown ==
    (~astray /\ ~misled /\ ~RevertsDirty) =>
        /\ alternative = saved => buffer = written[resourceVersion]
        /\ \A k \in DOMAIN undo :
              (undo[k].id = saved /\ undo[k].typed) =>
                  dirty /\ undo[k].doc = written[resourceVersion]

CleanKnown ==
    (~astray /\ ~misled /\ ~Reverts /\ ~dirty) => buffer = written[resourceVersion]

EditorInv ==
    /\ FileTypes /\ TextTypes /\ QueueTypes /\ Stacked /\ Reading /\ Saving
    /\ ChangesLead /\ SavedKnown /\ CleanKnown

\* The save at place i has still to write.
Unwritten(i) == queue[i].kind = "save" /\ ~(i = 1 /\ step \in {"written", "saved"})
Writes == Len(written) - 1 - foreign

\* Each save in the queue has a number among those that were asked for, above the
\* number of the writes so far.
Numbered(t) ==
    /\ \A i \in DOMAIN queue : Unwritten(i) => Writes < t[i] /\ t[i] <= asked
    /\ \A i, j \in DOMAIN queue : i < j /\ Unwritten(i) /\ Unwritten(j) => t[i] < t[j]

WritesBounded ==
    /\ Writes \in 0 .. asked
    /\ \E t \in [DOMAIN queue -> 0 .. asked] : Numbered(t)
-----------------------------------------------------------------------------
(* Applying changes. *)

LEMMA AppliedIsFolded == \A doc, cs : ApplyAll(doc, cs) = F!Folded(doc, cs)
BY Zenon DEF ApplyAll, F!Folded, FoldLeft, F!FoldLeft, MapThenFoldSet, F!MapThenFoldSet,
             Max, F!Max

LEMMA ApplyTyped ==
    ASSUME NEW doc \in Docs, NEW e \in Edit
    PROVE  Apply(doc, e) \in Docs
<1>1. PICK ls \in SUBSET Lines : e \in [ls -> Texts] BY DEF Edit
<1> QED BY <1>1 DEF Apply, Docs

\* Changes are applied one by one, and piece by piece.
LEMMA ApplyAllSteps ==
    ASSUME NEW doc \in Docs, NEW cs \in Seq(Edit)
    PROVE  /\ ApplyAll(doc, <<>>) = doc
           /\ ApplyAll(doc, cs) \in Docs
           /\ \A e \in Edit : ApplyAll(doc, Append(cs, e)) = Apply(ApplyAll(doc, cs), e)
           /\ \A ds \in Seq(Edit) : ApplyAll(doc, cs \o ds) = ApplyAll(ApplyAll(doc, cs), ds)
<1>1. ApplyAll(doc, <<>>) = doc BY AppliedIsFolded, F!FoldedEmpty
<1>2. ApplyAll(doc, cs) \in Docs
  <2>1. F!Folded(doc, cs) \in Docs BY ApplyTyped, F!FoldedKeeps
  <2> QED BY <2>1, AppliedIsFolded
<1>3. ASSUME NEW e \in Edit
      PROVE  ApplyAll(doc, Append(cs, e)) = Apply(ApplyAll(doc, cs), e)
  BY AppliedIsFolded, F!FoldedAppend
<1>4. ASSUME NEW ds \in Seq(Edit)
      PROVE  ApplyAll(doc, cs \o ds) = ApplyAll(ApplyAll(doc, cs), ds)
  BY AppliedIsFolded, F!FoldedConcat
<1> QED BY <1>1, <1>2, <1>3, <1>4

\* What turned one text into another leads from it to the other.
LEMMA ApplyDiff ==
    ASSUME NEW from \in Docs, NEW to \in Docs
    PROVE  Diff(from, to) \in Edit /\ Apply(from, Diff(from, to)) = to
<1> DEFINE ls == {k \in Lines : from[k] # to[k]}
<1>1. Diff(from, to) \in [ls -> Texts] BY DEF Diff, Docs
<1>2. Diff(from, to) \in Edit BY <1>1 DEF Edit
<1>3. ASSUME NEW l \in Lines PROVE Apply(from, Diff(from, to))[l] = to[l]
  BY DEF Apply, Diff
<1>4. Apply(from, Diff(from, to)) \in Docs BY <1>2, ApplyTyped
<1> QED BY <1>2, <1>3, <1>4 DEF Docs
-----------------------------------------------------------------------------
(* The file. *)

LEMMA Bounds == MaxEdits \in Nat /\ MaxRequests \in Nat /\ MaxForeign \in Nat
BY EditorAssumption DEF EditorAssumption

LEMMA WrittenGrows ==
    ASSUME FileTypes, NEW doc \in Docs, written' = Append(written, doc)
    PROVE  /\ written' \in Seq(Docs) /\ written' # <<>>
           /\ Mtime \in Nat /\ Mtime' = Mtime + 1
           /\ \A k \in 1 .. Mtime : written'[k] = written[k]
           /\ written'[Mtime'] = doc
BY AppendProperties, LenProperties DEF FileTypes, Mtime

LEMMA WrittenTyped ==
    ASSUME FileTypes
    PROVE  /\ Mtime \in Nat \ {0} /\ Current \in Docs /\ Current = written[Mtime]
           /\ \A k \in 1 .. Mtime : written[k] \in Docs
           /\ resourceVersion \in 1 .. Mtime /\ version \in 1 .. Mtime
<1>1. Mtime \in Nat /\ Mtime # 0 BY LenProperties, EmptySeq DEF FileTypes, Mtime
<1>2. \A k \in 1 .. Mtime : written[k] \in Docs BY <1>1 DEF FileTypes, Mtime
<1> QED BY <1>1, <1>2 DEF FileTypes, Mtime, Current, Last
-----------------------------------------------------------------------------
(* The queue. *)

LEMMA CancelKeeps ==
    ASSUME queue \in Seq(Asked), NEW kind
    PROVE  /\ Cancel(kind) \in Seq(Asked) /\ Len(Cancel(kind)) = Len(queue)
           /\ DOMAIN Cancel(kind) = DOMAIN queue /\ DOMAIN queue = 1 .. Len(queue)
           /\ Len(queue) \in Nat
           /\ \A i \in DOMAIN queue :
                 /\ Cancel(kind)[i].kind = queue[i].kind
                 /\ (Cancel(kind)[i].revert <=> queue[i].revert)
                 /\ (Cancel(kind)[i].was <=> queue[i].was)
                 /\ (Cancel(kind)[i].cancelled <=> (queue[i].cancelled \/ queue[i].kind = kind))
<1>1. Len(queue) \in Nat /\ DOMAIN queue = 1 .. Len(queue) BY LenProperties
<1>2. ASSUME NEW i \in DOMAIN queue
      PROVE  /\ Cancel(kind)[i] \in Asked
             /\ Cancel(kind)[i].kind = queue[i].kind
             /\ (Cancel(kind)[i].revert <=> queue[i].revert)
             /\ (Cancel(kind)[i].was <=> queue[i].was)
             /\ (Cancel(kind)[i].cancelled <=> (queue[i].cancelled \/ queue[i].kind = kind))
  <2>1. queue[i] \in Asked BY <1>1
  <2>2. CASE queue[i].kind = kind
    <3>1. Cancel(kind)[i] = [queue[i] EXCEPT !.cancelled = TRUE] BY <2>2 DEF Cancel
    <3> QED BY <2>1, <2>2, <3>1 DEF Asked
  <2>3. CASE queue[i].kind # kind
    <3>1. Cancel(kind)[i] = queue[i] BY <2>3 DEF Cancel
    <3> QED BY <2>1, <2>3, <3>1 DEF Asked
  <2> QED BY <2>2, <2>3
<1>3. DOMAIN Cancel(kind) = 1 .. Len(queue) BY <1>1 DEF Cancel
<1>4. Cancel(kind) \in [1 .. Len(queue) -> Asked] BY <1>1, <1>2, <1>3 DEF Cancel
<1>5. Cancel(kind) \in Seq(Asked) /\ Len(Cancel(kind)) = Len(queue) BY <1>1, <1>4
<1> QED BY <1>1, <1>2, <1>3, <1>5

\* Cancelling changes neither the order nor what reverts.
LEMMA QueueCancelled ==
    ASSUME QueueTypes, NEW kind \in {"sync", "save"}, queue' = Cancel(kind), step' = step
    PROVE  /\ QueueTypes' /\ (Reverts' <=> Reverts) /\ (RevertsDirty' <=> RevertsDirty)
           /\ \A i \in DOMAIN queue : queue[i].kind = kind => queue'[i].cancelled
<1>1. queue \in Seq(Asked) BY DEF QueueTypes
<1>2. /\ queue' \in Seq(Asked) /\ Len(queue') = Len(queue)
      /\ DOMAIN queue' = DOMAIN queue /\ DOMAIN queue = 1 .. Len(queue) /\ Len(queue) \in Nat
      /\ \A i \in DOMAIN queue :
            /\ queue'[i].kind = queue[i].kind /\ (queue'[i].revert <=> queue[i].revert)
            /\ (queue'[i].was <=> queue[i].was)
            /\ (queue'[i].cancelled <=> (queue[i].cancelled \/ queue[i].kind = kind))
  BY <1>1, CancelKeeps
<1>3. queue # <<>> => queue' # <<>> /\ 1 \in DOMAIN queue BY <1>1, <1>2, EmptySeq
<1>4. (Reverts' <=> Reverts) /\ (RevertsDirty' <=> RevertsDirty)
  BY <1>2 DEF Reverts, RevertsDirty
<1>5. \A i, j \in DOMAIN queue' : i < j /\ queue'[i].kind = queue'[j].kind => queue'[i].cancelled
  BY <1>2 DEF QueueTypes
<1>6. QueueTypes' BY <1>2, <1>3, <1>5 DEF QueueTypes
<1> QED BY <1>2, <1>4, <1>6

\* A new operation cancels those of its kind and goes behind them.
LEMMA QueueJoined ==
    ASSUME QueueTypes, NEW op \in Asked, ~op.revert, queue' = Append(Cancel(op.kind), op),
           step' = step
    PROVE  QueueTypes' /\ (Reverts' <=> Reverts) /\ (RevertsDirty' <=> RevertsDirty)
<1> DEFINE q == Cancel(op.kind)
           n == Len(queue)
<1>1. queue \in Seq(Asked) /\ op.kind \in {"sync", "save"} BY DEF QueueTypes, Asked
<1>2. /\ q \in Seq(Asked) /\ Len(q) = n
      /\ DOMAIN q = 1 .. n /\ DOMAIN queue = 1 .. n /\ n \in Nat
      /\ \A i \in 1 .. n :
            /\ q[i].kind = queue[i].kind /\ (q[i].revert <=> queue[i].revert)
            /\ (q[i].was <=> queue[i].was)
            /\ (q[i].cancelled <=> (queue[i].cancelled \/ queue[i].kind = op.kind))
  BY <1>1, CancelKeeps
<1> HIDE DEF q, n
<1>3. /\ queue' \in Seq(Asked) /\ Len(queue') = n + 1 /\ DOMAIN queue' = 1 .. n + 1
      /\ \A i \in 1 .. n : queue'[i] = q[i]
      /\ queue'[n + 1] = op /\ queue' # <<>>
  BY <1>2, AppendProperties, LenProperties, EmptySeq DEF q
<1>4. \A i \in 1 .. n : /\ queue'[i].kind = queue[i].kind /\ (queue'[i].revert <=> queue[i].revert)
                        /\ (queue'[i].was <=> queue[i].was)
                        /\ (queue'[i].cancelled <=> (queue[i].cancelled \/ queue[i].kind = op.kind))
  BY <1>2, <1>3
<1>5. queue # <<>> => 1 \in 1 .. n BY <1>1, <1>2, EmptySeq DEF n
<1>6. ASSUME NEW i \in DOMAIN queue', NEW j \in DOMAIN queue', i < j,
             queue'[i].kind = queue'[j].kind
      PROVE  queue'[i].cancelled
  <2>1. i \in 1 .. n BY <1>2, <1>3, <1>6
  <2>2. CASE j = n + 1 BY <1>3, <1>4, <1>6, <2>1, <2>2
  <2>3. CASE j # n + 1
    <3>1. j \in 1 .. n BY <1>2, <1>3, <2>3
    <3> QED BY <1>2, <1>4, <1>6, <2>1, <3>1 DEF QueueTypes
  <2> QED BY <2>2, <2>3
<1>7. ASSUME NEW i \in DOMAIN queue', queue'[i].revert
      PROVE  i \in 1 .. n /\ queue[i].revert /\ queue'[i].kind = "sync"
  BY <1>2, <1>3, <1>4, <1>7 DEF QueueTypes
<1>8. (Reverts' <=> Reverts) /\ (RevertsDirty' <=> RevertsDirty)
  BY <1>2, <1>3, <1>4, <1>7 DEF Reverts, RevertsDirty
<1> QED BY <1>2, <1>3, <1>4, <1>5, <1>6, <1>7, <1>8 DEF QueueTypes

\* The first operation leaves the queue.
LEMMA QueueDone ==
    ASSUME QueueTypes, queue # <<>>, Done
    PROVE  /\ QueueTypes' /\ step' = "idle"
           /\ Reverts <=> (Operation.revert \/ Reverts')
           /\ RevertsDirty <=> ((Operation.revert /\ Operation.was) \/ RevertsDirty')
<1> DEFINE n == Len(queue)
<1>1. /\ queue \in Seq(Asked) /\ DOMAIN queue = 1 .. n /\ n \in Nat \ {0}
      /\ Operation = queue[1]
  BY EmptySeq, LenProperties, HeadTailProperties DEF QueueTypes, Operation
<1>2. /\ queue' \in Seq(Asked) /\ DOMAIN queue' = 1 .. n - 1
      /\ \A i \in 1 .. n - 1 : queue'[i] = queue[i + 1]
  BY <1>1, HeadTailProperties, LenProperties DEF Done
<1>3. step' = "idle" BY DEF Done
<1> HIDE DEF n
<1>4. \A i \in 1 .. n - 1 : i + 1 \in 1 .. n BY <1>1
<1>5. \A i \in 1 .. n : i = 1 \/ (i - 1 \in 1 .. n - 1 /\ i = (i - 1) + 1) BY <1>1
<1>6. QueueTypes'
  <2>1. ASSUME NEW i \in DOMAIN queue', NEW j \in DOMAIN queue', i < j,
               queue'[i].kind = queue'[j].kind
        PROVE  queue'[i].cancelled
    <3>1. i + 1 \in 1 .. n /\ j + 1 \in 1 .. n /\ i + 1 < j + 1 BY <1>1, <1>2, <2>1
    <3> QED BY <1>1, <1>2, <2>1, <3>1 DEF QueueTypes
  <2>2. ASSUME NEW i \in DOMAIN queue', queue'[i].revert PROVE queue'[i].kind = "sync"
    BY <1>1, <1>2, <1>4, <2>2 DEF QueueTypes
  <2> QED BY <1>2, <1>3, <2>1, <2>2 DEF QueueTypes, SyncSteps, SaveSteps
<1>7. Reverts <=> (Operation.revert \/ Reverts')
  <2>1. ASSUME Reverts PROVE Operation.revert \/ Reverts'
    <3>1. PICK i \in 1 .. n : queue[i].revert BY <1>1, <2>1 DEF Reverts
    <3> QED BY <1>1, <1>2, <1>5, <3>1 DEF Reverts
  <2>2. ASSUME Operation.revert PROVE Reverts BY <1>1, <2>2 DEF Reverts
  <2>3. ASSUME Reverts' PROVE Reverts BY <1>1, <1>2, <1>4, <2>3 DEF Reverts
  <2> QED BY <2>1, <2>2, <2>3
<1>8. RevertsDirty <=> ((Operation.revert /\ Operation.was) \/ RevertsDirty')
  <2>1. ASSUME RevertsDirty PROVE (Operation.revert /\ Operation.was) \/ RevertsDirty'
    <3>1. PICK i \in 1 .. n : queue[i].revert /\ queue[i].was BY <1>1, <2>1 DEF RevertsDirty
    <3> QED BY <1>1, <1>2, <1>5, <3>1 DEF RevertsDirty
  <2>2. ASSUME Operation.revert /\ Operation.was PROVE RevertsDirty
    BY <1>1, <2>2 DEF RevertsDirty
  <2>3. ASSUME RevertsDirty' PROVE RevertsDirty BY <1>1, <1>2, <1>4, <2>3 DEF RevertsDirty
  <2> QED BY <2>1, <2>2, <2>3
<1> QED BY <1>3, <1>6, <1>7, <1>8
-----------------------------------------------------------------------------
(* The user. *)

LEMMA UndoTyped ==
    ASSUME TextTypes, NEW k \in DOMAIN undo
    PROVE  undo[k] \in Undone /\ undo[k].id \in Nat /\ undo[k].doc \in Docs
<1>1. undo[k] \in Undone BY DEF TextTypes
<1> QED BY <1>1 DEF Undone

\* Whatever changes the text, the change is kept, and what a save holds stays a
\* beginning of the changes.
LEMMA ChangedKeeps ==
    ASSUME EditorInv, NEW doc \in Docs, NEW id, Changed(doc, id), UNCHANGED astray
    PROVE  /\ FileTypes' /\ QueueTypes' /\ Reading' /\ ChangesLead'
           /\ buffer' = doc /\ alternative' = id /\ changes' \in Seq(Edit)
           /\ step \in SaveSteps => SaveFile'
           /\ (Reverts' <=> Reverts) /\ (RevertsDirty' <=> RevertsDirty)
           /\ UNCHANGED <<written, saved, resourceVersion, step, job>>
           /\ dirty' <=> id # saved
           /\ dirty' \in BOOLEAN /\ interrupted' \in BOOLEAN
<1>1. /\ UNCHANGED <<written, changed, foreign, version, stats, saved, resourceVersion, step,
                      job, asked, astray>>
      /\ buffer' = doc /\ alternative' = id /\ changes' = Append(changes, Diff(buffer, doc))
      /\ dirty' = (id # saved)
      /\ (queue' = queue /\ interrupted' = interrupted)
         \/ (queue' = Cancel("sync") /\ interrupted' = (interrupted \/ Outstanding))
  BY DEF Changed, file, resource
<1>2. Diff(buffer, doc) \in Edit /\ Apply(buffer, Diff(buffer, doc)) = doc
  BY ApplyDiff DEF EditorInv, TextTypes
<1>3. changes \in Seq(Edit) /\ written[resourceVersion] \in Docs
  BY WrittenTyped DEF EditorInv, TextTypes
<1>4. /\ changes' \in Seq(Edit) /\ Len(changes') = Len(changes) + 1 /\ Len(changes) \in Nat
      /\ \A k \in 1 .. Len(changes) : changes'[k] = changes[k]
  BY <1>1, <1>2, <1>3, AppendProperties, LenProperties
<1>5. ChangesLead'
  <2>1. ApplyAll(written[resourceVersion], changes') =
           Apply(ApplyAll(written[resourceVersion], changes), Diff(buffer, doc))
    BY <1>1, <1>2, <1>3, ApplyAllSteps
  <2> QED BY <1>1, <1>2, <2>1 DEF ChangesLead, EditorInv
<1>6. FileTypes' BY <1>1 DEF EditorInv, FileTypes, Mtime
<1>7. Reading' BY <1>1 DEF EditorInv, Reading
<1>8. QueueTypes' /\ (Reverts' <=> Reverts) /\ (RevertsDirty' <=> RevertsDirty)
  <2>1. CASE queue' = queue BY <1>1, <2>1 DEF EditorInv, QueueTypes, Reverts, RevertsDirty
  <2>2. CASE queue' = Cancel("sync") BY <1>1, <2>2, QueueCancelled DEF EditorInv
  <2> QED BY <1>1, <2>1, <2>2
<1>9. ASSUME step \in SaveSteps PROVE SaveFile'
  <2>1. SaveFile BY <1>9 DEF EditorInv, Saving
  <2>2. Len(job.changes) \in Nat BY <2>1, LenProperties DEF SaveFile
  <2> QED BY <1>1, <1>4, <2>1, <2>2 DEF SaveFile, Mtime
<1>10. interrupted' \in BOOLEAN BY <1>1 DEF EditorInv, TextTypes
<1> QED BY <1>1, <1>4, <1>5, <1>6, <1>7, <1>8, <1>9, <1>10

LEMMA TypeKeeps ==
    ASSUME EditorInv, NEW l \in Lines, NEW t \in Texts, Type(l, t)
    PROVE  EditorInv'
<1> DEFINE doc == [buffer EXCEPT ![l] = t]
           top == [doc |-> buffer, id |-> alternative, typed |-> TRUE]
           n == Len(undo)
<1>1. /\ edits' = edits + 1 /\ undo' = Append(undo, top) /\ Changed(doc, edits + 1)
      /\ UNCHANGED <<astray, misled>>
  BY DEF Type
<1>2. TextTypes BY DEF EditorInv
<1>3. doc \in Docs /\ top \in Undone BY <1>2 DEF TextTypes, Docs, Undone
<1>4. /\ FileTypes' /\ QueueTypes' /\ Reading' /\ ChangesLead'
      /\ buffer' = doc /\ alternative' = edits + 1 /\ changes' \in Seq(Edit)
      /\ step \in SaveSteps => SaveFile'
      /\ (Reverts' <=> Reverts) /\ (RevertsDirty' <=> RevertsDirty)
      /\ UNCHANGED <<written, saved, resourceVersion, step, job>>
      /\ dirty' <=> edits + 1 # saved
      /\ dirty' \in BOOLEAN /\ interrupted' \in BOOLEAN
  BY <1>1, <1>3, ChangedKeeps
<1>5. /\ undo' \in Seq(Undone) /\ n \in Nat /\ DOMAIN undo' = 1 .. n + 1
      /\ DOMAIN undo = 1 .. n
      /\ \A k \in 1 .. n : undo'[k] = undo[k]
      /\ undo'[n + 1] = top
  BY <1>1, <1>2, <1>3, AppendProperties, LenProperties DEF TextTypes
<1>6. dirty' BY <1>2, <1>4 DEF TextTypes
<1>7. TextTypes' BY <1>1, <1>2, <1>3, <1>4, <1>5 DEF TextTypes
<1> HIDE DEF doc, n
<1>8. \A k \in DOMAIN undo' : k \in DOMAIN undo \/ k = n + 1 BY <1>5
<1>9. Stacked'
  <2>1. \A k \in DOMAIN undo : undo[k].id \in Nat /\ undo[k].id < alternative
    BY <1>2, UndoTyped DEF EditorInv, Stacked
  <2> QED BY <1>1, <1>2, <1>4, <1>5, <1>8, <2>1 DEF EditorInv, Stacked, TextTypes
<1>10. Saving'
  <2> SUFFICES ASSUME step \in SaveSteps, ~astray PROVE SaveText'
    BY <1>1, <1>4 DEF Saving
  <2>1. SaveText BY DEF EditorInv, Saving
  <2>2. ASSUME NEW k \in DOMAIN undo', undo'[k].id = job.alternative
        PROVE  undo'[k].doc = job.content
    <3>1. CASE k = n + 1 BY <1>5, <2>1, <2>2, <3>1 DEF SaveText
    <3>2. CASE k \in DOMAIN undo BY <1>5, <2>1, <2>2, <3>2 DEF SaveText
    <3> QED BY <1>8, <3>1, <3>2
  <2> QED BY <1>1, <1>2, <1>4, <2>1, <2>2 DEF SaveText, TextTypes
<1>11. SavedKnown'
  <2> SUFFICES ASSUME ~astray, ~misled, ~RevertsDirty
               PROVE  /\ alternative' = saved' => buffer' = written'[resourceVersion']
                      /\ \A k \in DOMAIN undo' :
                            (undo'[k].id = saved' /\ undo'[k].typed) =>
                                dirty' /\ undo'[k].doc = written'[resourceVersion']
    BY <1>1, <1>4 DEF SavedKnown
  <2>1. alternative' # saved BY <1>2, <1>4 DEF TextTypes
  <2>2. /\ alternative = saved => buffer = written[resourceVersion]
        /\ \A k \in DOMAIN undo : (undo[k].id = saved /\ undo[k].typed) =>
              undo[k].doc = written[resourceVersion]
    BY DEF EditorInv, SavedKnown
  <2>3. ASSUME NEW k \in DOMAIN undo', undo'[k].id = saved, undo'[k].typed
        PROVE  undo'[k].doc = written[resourceVersion]
    <3>1. CASE k = n + 1 BY <1>5, <2>2, <2>3, <3>1
    <3>2. CASE k \in DOMAIN undo BY <1>5, <2>2, <2>3, <3>2
    <3> QED BY <1>8, <3>1, <3>2
  <2> QED BY <1>4, <1>6, <2>1, <2>3
<1>12. CleanKnown' BY <1>6 DEF CleanKnown
<1> QED BY <1>4, <1>7, <1>9, <1>10, <1>11, <1>12 DEF EditorInv

LEMMA UndoKeeps ==
    ASSUME EditorInv, Undo
    PROVE  EditorInv'
<1> DEFINE top == Last(undo)
           n == Len(undo)
<1>1. /\ undo # <<>> /\ undo' = Front(undo) /\ edits' = edits /\ Changed(top.doc, top.id)
      /\ misled' = (misled \/ (top.id = saved /\ ~top.typed)) /\ UNCHANGED astray
  BY DEF Undo
<1>2. TextTypes /\ Stacked BY DEF EditorInv
<1>3. /\ n \in Nat \ {0} /\ DOMAIN undo = 1 .. n /\ top = undo[n]
      /\ undo' \in Seq(Undone) /\ DOMAIN undo' = 1 .. n - 1
      /\ \A k \in 1 .. n - 1 : undo'[k] = undo[k]
  BY <1>1, <1>2, EmptySeq, LenProperties DEF TextTypes, Front, Last
<1>4. top \in Undone /\ top.id < alternative /\ top.id \in 0 .. edits /\ top.doc \in Docs
  <2>1. n \in DOMAIN undo BY <1>3
  <2>2. top \in Undone /\ top.id \in Nat /\ top.doc \in Docs BY <1>2, <1>3, <2>1, UndoTyped
  <2>3. top.id < alternative BY <1>2, <1>3, <2>1 DEF Stacked
  <2> QED BY <1>2, <2>2, <2>3 DEF TextTypes
<1>5. /\ FileTypes' /\ QueueTypes' /\ Reading' /\ ChangesLead'
      /\ buffer' = top.doc /\ alternative' = top.id /\ changes' \in Seq(Edit)
      /\ step \in SaveSteps => SaveFile'
      /\ (Reverts' <=> Reverts) /\ (RevertsDirty' <=> RevertsDirty)
      /\ UNCHANGED <<written, saved, resourceVersion, step, job>>
      /\ dirty' <=> top.id # saved
      /\ dirty' \in BOOLEAN /\ interrupted' \in BOOLEAN
  BY <1>1, <1>4, ChangedKeeps
<1>6. /\ misled' \in BOOLEAN
      /\ ~misled' => ~misled /\ (top.id = saved => top.typed)
  BY <1>1, <1>2 DEF TextTypes
<1> HIDE DEF top, n
<1>7. TextTypes' BY <1>1, <1>2, <1>3, <1>4, <1>5, <1>6 DEF TextTypes
<1>8. \A k \in DOMAIN undo' : k \in DOMAIN undo /\ k < n /\ undo'[k] = undo[k] /\ n \in DOMAIN undo
  BY <1>3
<1>9. \A k \in DOMAIN undo' : undo[k].id < top.id BY <1>2, <1>3, <1>8 DEF Stacked
<1>10. Stacked' BY <1>2, <1>5, <1>8, <1>9 DEF Stacked
<1>11. Saving'
  <2> SUFFICES ASSUME step \in SaveSteps, ~astray PROVE SaveText'
    BY <1>1, <1>5 DEF Saving
  <2>1. SaveText BY DEF EditorInv, Saving
  <2> QED BY <1>1, <1>3, <1>5, <1>8, <2>1 DEF SaveText
<1>12. SavedKnown'
  <2> SUFFICES ASSUME ~astray, ~misled', ~RevertsDirty
               PROVE  /\ alternative' = saved => buffer' = written[resourceVersion]
                      /\ \A k \in DOMAIN undo' :
                            (undo'[k].id = saved /\ undo'[k].typed) =>
                                dirty' /\ undo'[k].doc = written[resourceVersion]
    BY <1>1, <1>5 DEF SavedKnown
  <2>1. \A k \in DOMAIN undo : (undo[k].id = saved /\ undo[k].typed) =>
              undo[k].doc = written[resourceVersion]
    BY <1>6 DEF EditorInv, SavedKnown
  <2>2. ASSUME alternative' = saved PROVE buffer' = written[resourceVersion]
    <3>1. n \in DOMAIN undo /\ top = undo[n] BY <1>3
    <3>2. top.id = saved /\ top.typed BY <1>5, <1>6, <2>2
    <3> QED BY <1>5, <2>1, <3>1, <3>2
  <2>3. ASSUME NEW k \in DOMAIN undo', undo'[k].id = saved, undo'[k].typed
        PROVE  dirty' /\ undo'[k].doc = written[resourceVersion]
    <3>1. undo[k].id \in Nat BY <1>2, <1>8, UndoTyped
    <3>2. top.id # saved BY <1>4, <1>8, <1>9, <2>3, <3>1
    <3> QED BY <1>5, <1>8, <2>1, <2>3, <3>2
  <2> QED BY <2>2, <2>3
<1>13. CleanKnown'
  <2> SUFFICES ASSUME ~astray, ~misled', ~Reverts, ~dirty'
               PROVE  buffer' = written[resourceVersion]
    BY <1>1, <1>5 DEF CleanKnown
  <2>1. ~RevertsDirty BY DEF Reverts, RevertsDirty
  <2>2. top.id = saved /\ top.typed /\ ~misled BY <1>5, <1>6
  <2> QED BY <1>3, <1>5, <2>1, <2>2 DEF EditorInv, SavedKnown
<1> QED BY <1>5, <1>7, <1>10, <1>11, <1>12, <1>13 DEF EditorInv

LEMMA AskToSaveKeeps ==
    ASSUME EditorInv, NEW manual \in BOOLEAN, AskToSave(manual)
    PROVE  EditorInv'
<1>1. /\ asked < MaxRequests /\ asked' = asked + 1
      /\ queue' = Append(Cancel("save"), Save(manual))
      /\ UNCHANGED <<written, changed, foreign, version, stats, buffer, alternative, edits, undo,
                     dirty, saved, changes, resourceVersion, step, job, interrupted, astray,
                     misled>>
  BY DEF AskToSave, file, resource, text, history
<1>2. Save(manual) \in Asked /\ ~Save(manual).revert /\ Save(manual).kind = "save"
  BY DEF Save, Sync, Asked
<1>3. QueueTypes' /\ (Reverts' <=> Reverts) /\ (RevertsDirty' <=> RevertsDirty)
  BY <1>1, <1>2, QueueJoined DEF EditorInv
<1>4. FileTypes'
  <2>1. asked' \in 0 .. MaxRequests BY <1>1, Bounds DEF EditorInv, FileTypes
  <2> QED BY <1>1, <2>1 DEF EditorInv, FileTypes, Mtime
<1>5. TextTypes' /\ Stacked' /\ Reading' /\ ChangesLead' /\ Saving'
  BY <1>1 DEF EditorInv, TextTypes, Stacked, Reading, ChangesLead, Saving, SaveFile, SaveText,
              Mtime
<1>6. SavedKnown' /\ CleanKnown' BY <1>1, <1>3 DEF EditorInv, SavedKnown, CleanKnown
<1> QED BY <1>3, <1>4, <1>5, <1>6 DEF EditorInv

LEMMA AskToRevertKeeps ==
    ASSUME EditorInv, AskToRevert
    PROVE  EditorInv'
<1> DEFINE n == Len(queue)
           cancelled(i) == [queue[i] EXCEPT !.cancelled = TRUE]
<1>1. /\ asked < MaxRequests /\ asked' = asked + 1
      /\ queue' = [i \in 1 .. n + 1 |-> IF i <= n THEN cancelled(i) ELSE Reverting]
      /\ dirty' = FALSE
      /\ UNCHANGED <<written, changed, foreign, version, stats, buffer, alternative, edits, undo,
                     saved, changes, resourceVersion, step, job, interrupted, astray, misled>>
  BY DEF AskToRevert, file, resource, history
<1>2. /\ Reverting \in Asked /\ Reverting.revert /\ Reverting.kind = "sync"
      /\ Reverting.was = dirty
  BY DEF Reverting, Sync, Asked, EditorInv, TextTypes
<1>3. queue \in Seq(Asked) /\ n \in Nat /\ DOMAIN queue = 1 .. n /\ (queue # <<>> => n > 0)
  BY LenProperties, EmptySeq DEF EditorInv, QueueTypes
<1>4. ASSUME NEW i \in 1 .. n
      PROVE  /\ cancelled(i) \in Asked /\ cancelled(i).cancelled
             /\ cancelled(i).kind = queue[i].kind
             /\ cancelled(i).revert <=> queue[i].revert
             /\ cancelled(i).was <=> queue[i].was
  <2>1. queue[i] \in Asked BY <1>3
  <2> QED BY <2>1 DEF Asked
<1> HIDE DEF cancelled
<1>5. /\ DOMAIN queue' = 1 .. n + 1 /\ queue' \in Seq(Asked) /\ queue' # <<>>
      /\ \A i \in 1 .. n : queue'[i] = cancelled(i)
      /\ queue'[n + 1] = Reverting
  <2>1. queue' \in [1 .. n + 1 -> Asked] BY <1>1, <1>2, <1>3, <1>4
  <2>2. queue' \in Seq(Asked) /\ Len(queue') = n + 1 BY <1>3, <2>1
  <2>3. queue' # <<>> BY <1>3, <2>2, EmptySeq
  <2>4. \A i \in 1 .. n : queue'[i] = cancelled(i) BY <1>1, <1>3
  <2>5. queue'[n + 1] = Reverting BY <1>1, <1>3
  <2> QED BY <2>1, <2>2, <2>3, <2>4, <2>5
<1> HIDE DEF n
<1>6. \A i \in DOMAIN queue' : i \in 1 .. n \/ i = n + 1 BY <1>3, <1>5
<1>7. QueueTypes'
  <2>1. ASSUME NEW i \in DOMAIN queue', queue'[i].revert PROVE queue'[i].kind = "sync"
    <3>1. CASE i = n + 1 BY <1>2, <1>5, <3>1
    <3>2. CASE i \in 1 .. n BY <1>3, <1>4, <1>5, <2>1, <3>2 DEF EditorInv, QueueTypes
    <3> QED BY <1>6, <3>1, <3>2
  <2>2. ASSUME NEW i \in DOMAIN queue', NEW j \in DOMAIN queue', i < j
        PROVE  queue'[i].cancelled
    <3>1. i \in 1 .. n BY <1>3, <1>5, <2>2
    <3> QED BY <1>4, <1>5, <3>1
  <2>3. queue # <<>> => queue'[1].kind = queue[1].kind BY <1>3, <1>4, <1>5
  <2> QED BY <1>1, <1>5, <2>1, <2>2, <2>3 DEF EditorInv, QueueTypes
<1>8. FileTypes'
  <2>1. asked' \in 0 .. MaxRequests BY <1>1, Bounds DEF EditorInv, FileTypes
  <2> QED BY <1>1, <2>1 DEF EditorInv, FileTypes, Mtime
<1>9. TextTypes' /\ Stacked' /\ Reading' /\ ChangesLead' /\ Saving'
  BY <1>1 DEF EditorInv, TextTypes, Stacked, Reading, ChangesLead, Saving, SaveFile, SaveText,
              Mtime
<1>10. Reverts' BY <1>2, <1>3, <1>5 DEF Reverts
<1>11. ASSUME ~RevertsDirty' PROVE ~RevertsDirty /\ ~dirty
  <2>1. ~dirty BY <1>2, <1>3, <1>5, <1>11 DEF RevertsDirty
  <2>2. \A i \in 1 .. n : i \in DOMAIN queue' BY <1>3, <1>5
  <2>3. ~RevertsDirty BY <1>3, <1>4, <1>5, <1>11, <2>2 DEF RevertsDirty
  <2> QED BY <2>1, <2>3
<1>12. SavedKnown' BY <1>1, <1>11 DEF EditorInv, SavedKnown
<1>13. CleanKnown' BY <1>10 DEF CleanKnown
<1> QED BY <1>7, <1>8, <1>9, <1>12, <1>13 DEF EditorInv
-----------------------------------------------------------------------------
(* The file and its watcher. *)

LEMMA ForeignWriteKeeps ==
    ASSUME EditorInv, NEW doc \in Docs, ForeignWrite(doc)
    PROVE  EditorInv'
<1>1. /\ foreign < MaxForeign /\ foreign' = foreign + 1
      /\ written' = Append(written, doc) /\ changed' = TRUE
      /\ UNCHANGED <<version, stats, buffer, alternative, edits, undo, dirty, saved, changes,
                     resourceVersion, queue, step, job, asked, interrupted, astray, misled>>
  BY DEF ForeignWrite, resource, text, history
<1>2. /\ written' \in Seq(Docs) /\ written' # <<>> /\ Mtime \in Nat /\ Mtime' = Mtime + 1
      /\ \A k \in 1 .. Mtime : written'[k] = written[k]
  BY <1>1, WrittenGrows DEF EditorInv
<1>3. resourceVersion \in 1 .. Mtime /\ version \in 1 .. Mtime
  BY WrittenTyped DEF EditorInv
<1>4. written'[resourceVersion'] = written[resourceVersion] /\ written'[version'] = written[version]
  BY <1>1, <1>2, <1>3
<1>5. FileTypes'
  <2>1. foreign' \in 0 .. MaxForeign BY <1>1, Bounds DEF EditorInv, FileTypes
  <2>2. version' \in 1 .. Mtime' /\ stats' \subseteq 1 .. Mtime'
    BY <1>1, <1>2, <1>3 DEF EditorInv, FileTypes
  <2> QED BY <1>1, <1>2, <2>1, <2>2 DEF EditorInv, FileTypes
<1>6. TextTypes' /\ Stacked' /\ QueueTypes'
  BY <1>1 DEF EditorInv, TextTypes, Stacked, QueueTypes
<1>7. Reading' /\ ChangesLead' BY <1>1, <1>4 DEF EditorInv, Reading, ChangesLead
<1>8. SavedKnown' /\ CleanKnown'
  BY <1>1, <1>4 DEF EditorInv, SavedKnown, CleanKnown, Reverts, RevertsDirty
<1>9. Saving'
  <2>1. ASSUME step \in SaveSteps PROVE SaveFile' /\ (~astray' => SaveText')
    <3>1. SaveFile /\ (~astray => SaveText) BY <2>1 DEF EditorInv, Saving
    <3>2. ~astray' => SaveText' BY <1>1, <3>1 DEF SaveText
    <3>3. step = "written" => job.seen \in 1 .. Mtime' /\ written'[job.seen] = job.content
      BY <1>2, <3>1 DEF SaveFile
    <3>4. step = "patch" => job.seen \in 1 .. Mtime' /\ (~astray => job.seen = resourceVersion)
      BY <1>2, <3>1 DEF SaveFile
    <3>5. SaveFile' BY <1>1, <1>4, <3>1, <3>3, <3>4 DEF SaveFile
    <3> QED BY <3>2, <3>5
  <2> QED BY <1>1, <2>1 DEF Saving
<1> QED BY <1>5, <1>6, <1>7, <1>8, <1>9 DEF EditorInv

\* Nothing but the watcher's state and the queue changes.
LEMMA WatcherKeeps ==
    ASSUME EditorInv, FileTypes',
           UNCHANGED <<written, version, buffer, alternative, edits, undo, dirty, saved, changes,
                       resourceVersion, step, job, interrupted, astray, misled>>,
           QueueTypes', Reverts' <=> Reverts, RevertsDirty' <=> RevertsDirty
    PROVE  EditorInv'
<1>1. TextTypes' /\ Stacked' /\ Reading' /\ ChangesLead' /\ Saving'
  BY DEF EditorInv, TextTypes, Stacked, Reading, ChangesLead, Saving, SaveFile, SaveText, Mtime
<1>2. SavedKnown' /\ CleanKnown' BY DEF EditorInv, SavedKnown, CleanKnown
<1> QED BY <1>1, <1>2 DEF EditorInv

LEMMA ChangeArrivesKeeps == ASSUME EditorInv, ChangeArrives PROVE EditorInv'
<1>1. /\ changed' = FALSE /\ stats' = stats \cup {Mtime}
      /\ UNCHANGED <<written, foreign, version, buffer, alternative, edits, undo, dirty, saved,
                     changes, resourceVersion, queue, step, job, asked, interrupted, astray,
                     misled>>
  BY DEF ChangeArrives, text, history
<1>2. Mtime \in 1 .. Mtime BY WrittenTyped DEF EditorInv
<1>3. FileTypes' BY <1>1, <1>2 DEF EditorInv, FileTypes, Mtime
<1>4. QueueTypes' /\ (Reverts' <=> Reverts) /\ (RevertsDirty' <=> RevertsDirty)
  BY <1>1 DEF EditorInv, QueueTypes, Reverts, RevertsDirty
<1> QED BY <1>1, <1>3, <1>4, WatcherKeeps

LEMMA CheckSyncKeeps == ASSUME EditorInv, NEW t \in stats, CheckSync(t) PROVE EditorInv'
<1>1. /\ stats' = stats \ {t}
      /\ queue' = IF InSync(t) THEN queue ELSE Append(Cancel("sync"), Sync)
      /\ UNCHANGED <<written, changed, foreign, version, buffer, alternative, edits, undo, dirty,
                     saved, changes, resourceVersion, step, job, asked, interrupted, astray,
                     misled>>
  BY DEF CheckSync, file, text, history
<1>2. FileTypes' BY <1>1 DEF EditorInv, FileTypes, Mtime
<1>3. QueueTypes' /\ (Reverts' <=> Reverts) /\ (RevertsDirty' <=> RevertsDirty)
  <2>1. CASE InSync(t) BY <1>1, <2>1 DEF EditorInv, QueueTypes, Reverts, RevertsDirty
  <2>2. CASE ~InSync(t)
    <3>1. Sync \in Asked /\ ~Sync.revert /\ Sync.kind = "sync" BY DEF Sync, Asked
    <3> QED BY <1>1, <2>2, <3>1, QueueJoined DEF EditorInv
  <2> QED BY <2>1, <2>2
<1> QED BY <1>1, <1>2, <1>3, WatcherKeeps
-----------------------------------------------------------------------------
(* The operations. *)

LEMMA FirstOperation ==
    ASSUME QueueTypes, queue # <<>>
    PROVE  /\ Operation = queue[1] /\ Operation \in Asked /\ 1 \in DOMAIN queue
           /\ Operation.kind = "save" => ~Operation.revert
<1>1. queue \in Seq(Asked) /\ Operation = queue[1] /\ 1 \in DOMAIN queue
  BY EmptySeq, LenProperties, HeadTailProperties DEF QueueTypes, Operation
<1>2. Operation \in Asked BY <1>1
<1> QED BY <1>1, <1>2 DEF QueueTypes

\* An operation that is over and did nothing to the text.
LEMMA DoneKeeps ==
    ASSUME EditorInv, queue # <<>>, Done, Operation.revert => misled',
           UNCHANGED <<written, changed, foreign, version, stats, buffer, alternative, edits, undo,
                       changes, resourceVersion, asked, astray>>,
           dirty' \in BOOLEAN, misled' \in BOOLEAN, interrupted' \in BOOLEAN,
           misled => misled',
           saved' \in 0 .. edits', ~misled' => UNCHANGED <<saved, dirty>>
    PROVE  EditorInv'
<1>1. /\ QueueTypes' /\ step' = "idle" /\ job' = NoJob
      /\ Reverts <=> (Operation.revert \/ Reverts')
      /\ RevertsDirty <=> ((Operation.revert /\ Operation.was) \/ RevertsDirty')
  BY QueueDone DEF EditorInv, Done
<1>2. FileTypes' BY DEF EditorInv, FileTypes, Mtime
<1>3. TextTypes' BY DEF EditorInv, TextTypes
<1>4. Stacked' /\ ChangesLead' BY DEF EditorInv, Stacked, ChangesLead
<1>5. Reading' /\ Saving' BY <1>1 DEF Reading, Saving, SaveSteps
<1>6. SavedKnown' BY <1>1 DEF EditorInv, SavedKnown
<1>7. CleanKnown' BY <1>1 DEF EditorInv, CleanKnown
<1> QED BY <1>1, <1>2, <1>3, <1>4, <1>5, <1>6, <1>7 DEF EditorInv

LEMMA SyncStartsKeeps == ASSUME EditorInv, SyncStarts PROVE EditorInv'
<1>1. /\ queue # <<>> /\ Operation.kind = "sync" /\ step = "idle"
      /\ UNCHANGED <<written, changed, foreign, version, stats, buffer, alternative, edits, undo,
                     changes, resourceVersion, asked, interrupted, astray>>
  BY DEF SyncStarts, Running, file, resource
<1>2. TextTypes /\ QueueTypes BY DEF EditorInv
<1>3. CASE Operation.cancelled
  <2>1. /\ Done /\ dirty' = (dirty /\ ~Operation.revert)
        /\ saved' = IF Operation.revert /\ Operation.was THEN alternative' ELSE saved
        /\ misled' = (misled \/ Operation.revert)
    BY <1>3 DEF SyncStarts, Reverted
  <2>2. dirty' \in BOOLEAN /\ misled' \in BOOLEAN /\ interrupted' \in BOOLEAN
        /\ saved' \in 0 .. edits'
    BY <1>1, <1>2, <2>1 DEF TextTypes
  <2>3. ~misled' => ~Operation.revert /\ ~misled BY <2>1
  <2>4. ~Operation.revert => saved' = saved /\ dirty' = dirty BY <1>2, <2>1 DEF TextTypes
  <2> QED BY <1>1, <2>1, <2>2, <2>3, <2>4, DoneKeeps
<1>4. CASE ~Operation.cancelled
  <2>1. step' = "reading" /\ UNCHANGED <<queue, job, dirty, saved, misled>>
    BY <1>4 DEF SyncStarts, Proceed
  <2>2. FileTypes' /\ TextTypes' /\ Stacked' /\ ChangesLead'
    BY <1>1, <2>1 DEF EditorInv, FileTypes, TextTypes, Stacked, ChangesLead, Mtime
  <2>3. Reading' /\ Saving' BY <1>1, <2>1 DEF EditorInv, Reading, Saving, SaveSteps
  <2>4. QueueTypes'
    BY <1>1, <2>1, FirstOperation DEF EditorInv, QueueTypes, SyncSteps, SaveSteps
  <2>5. SavedKnown' /\ CleanKnown'
    BY <1>1, <2>1 DEF EditorInv, SavedKnown, CleanKnown, Reverts, RevertsDirty
  <2> QED BY <2>2, <2>3, <2>4, <2>5 DEF EditorInv
<1> QED BY <1>3, <1>4

LEMMA SyncReadsKeeps == ASSUME EditorInv, SyncReads PROVE EditorInv'
<1>1. /\ queue # <<>> /\ Operation.kind = "sync" /\ step \in SyncSteps
      /\ step' \in {"stat", "read"} /\ job' = [job EXCEPT !.content = Current]
      /\ UNCHANGED <<written, changed, foreign, version, stats, buffer, alternative, edits, undo,
                     dirty, saved, changes, resourceVersion, queue, asked, interrupted, astray,
                     misled>>
  BY DEF SyncReads, Running, Proceed, SyncSteps, file, resource, text, history
<1>2. Current \in Docs BY WrittenTyped DEF EditorInv
<1>3. FileTypes' BY <1>1 DEF EditorInv, FileTypes, Mtime
<1>4. TextTypes' /\ Stacked' /\ ChangesLead'
  BY <1>1 DEF EditorInv, TextTypes, Stacked, ChangesLead
<1>5. Reading'
  <2>1. "content" \in DOMAIN job /\ DOMAIN job = DOMAIN NoJob
    BY DEF EditorInv, Reading, NoJob
  <2>2. job'.content = Current /\ DOMAIN job' = DOMAIN job BY <1>1, <2>1
  <2> QED BY <1>2, <2>1, <2>2 DEF Reading, NoJob
<1>6. Saving' BY <1>1 DEF Saving, SaveSteps
<1>7. QueueTypes' BY <1>1, FirstOperation DEF EditorInv, QueueTypes, SyncSteps, SaveSteps
<1>8. SavedKnown' /\ CleanKnown'
  BY <1>1 DEF EditorInv, SavedKnown, CleanKnown, Reverts, RevertsDirty
<1> QED BY <1>3, <1>4, <1>5, <1>6, <1>7, <1>8 DEF EditorInv

LEMMA SyncStatsKeeps == ASSUME EditorInv, SyncStats PROVE EditorInv'
<1>1. /\ queue # <<>> /\ Operation.kind = "sync" /\ step \in SyncSteps
      /\ step' \in {"text", "read"} /\ (step' = "read" => step = "stat")
      /\ version' = Mtime
      /\ UNCHANGED <<written, changed, foreign, stats, buffer, alternative, edits, undo, dirty,
                     saved, changes, resourceVersion, queue, job, asked, interrupted, astray,
                     misled>>
  BY DEF SyncStats, Running, Proceed, SyncSteps, file, text, history
<1>2. Mtime \in Nat \ {0} /\ Mtime' = Mtime /\ resourceVersion \in 1 .. Mtime
  BY <1>1, WrittenTyped DEF EditorInv, Mtime
<1>3. FileTypes' BY <1>1, <1>2 DEF EditorInv, FileTypes
<1>4. TextTypes' /\ Stacked' /\ ChangesLead'
  BY <1>1 DEF EditorInv, TextTypes, Stacked, ChangesLead
<1>5. Reading' BY <1>1 DEF EditorInv, Reading
<1>6. Saving' BY <1>1 DEF Saving, SaveSteps
<1>7. QueueTypes' BY <1>1, FirstOperation DEF EditorInv, QueueTypes, SyncSteps, SaveSteps
<1>8. SavedKnown' /\ CleanKnown'
  BY <1>1 DEF EditorInv, SavedKnown, CleanKnown, Reverts, RevertsDirty
<1> QED BY <1>3, <1>4, <1>5, <1>6, <1>7, <1>8 DEF EditorInv

LEMMA SyncAppliesKeeps == ASSUME EditorInv, SyncApplies PROVE EditorInv'
<1>1. /\ queue # <<>> /\ Operation.kind = "sync" /\ step = "read" /\ Done
      /\ dirty' = (dirty /\ ~Operation.revert)
      /\ saved' = IF Operation.revert /\ Operation.was THEN alternative' ELSE saved
      /\ interrupted' = (interrupted \/ dirty)
      /\ UNCHANGED <<written, changed, foreign, version, stats, changes, asked>>
  BY DEF SyncApplies, Running, Reverted, file, resource
<1>2. TextTypes /\ QueueTypes /\ FileTypes BY DEF EditorInv
<1>3. interrupted' \in BOOLEAN /\ dirty' \in BOOLEAN BY <1>1, <1>2 DEF TextTypes
<1>4. CASE ~Wanted
  <2>1. /\ misled' = (misled \/ Operation.revert)
        /\ UNCHANGED <<astray, resourceVersion, buffer, alternative, edits, undo>>
    BY <1>4 DEF SyncApplies
  <2>2. misled' \in BOOLEAN /\ saved' \in 0 .. edits' BY <1>1, <1>2, <2>1 DEF TextTypes
  <2>3. ~misled' => ~Operation.revert /\ ~misled BY <2>1
  <2>4. ~Operation.revert => saved' = saved /\ dirty' = dirty BY <1>1, <1>2 DEF TextTypes
  <2> QED BY <1>1, <1>3, <2>1, <2>2, <2>3, <2>4, DoneKeeps
<1>5. CASE Wanted
  <2> DEFINE top == [doc |-> buffer, id |-> alternative, typed |-> FALSE]
             n == Len(undo)
  <2>1. /\ ~dirty /\ resourceVersion' = version /\ buffer' = job.content
        /\ IF job.content = buffer
           THEN UNCHANGED <<alternative, edits, undo>>
           ELSE /\ edits' = edits + 1 /\ alternative' = edits + 1
                /\ undo' = Append(undo, top)
        /\ astray' = (astray \/ changes # <<>> \/ Torn) /\ UNCHANGED misled
    BY <1>5 DEF SyncApplies, Wanted
  <2>2. /\ buffer' \in Docs /\ written[version] \in Docs /\ version \in 1 .. Mtime
        /\ ~astray' => ~astray /\ buffer' = written[version]
    BY <1>1, <1>2, <2>1, WrittenTyped DEF EditorInv, Reading, Torn
  <2>3. FileTypes' BY <1>1, <1>2, <2>1, <2>2 DEF FileTypes, Mtime
  <2>4. /\ QueueTypes' /\ step' = "idle" /\ job' = NoJob
        /\ Reverts <=> (Operation.revert \/ Reverts')
        /\ RevertsDirty <=> ((Operation.revert /\ Operation.was) \/ RevertsDirty')
    BY <1>1, <1>2, QueueDone DEF Done
  <2>5. n \in Nat /\ DOMAIN undo = 1 .. n /\ undo \in Seq(Undone)
    BY <1>2, LenProperties DEF TextTypes
  <2>6. top \in Undone /\ top.id = alternative /\ ~top.typed BY <1>2 DEF TextTypes, Undone
  <2> HIDE DEF top
  <2>7. /\ undo' \in Seq(Undone) /\ edits' \in Nat /\ alternative' \in 0 .. edits'
        /\ edits <= edits'
        /\ \/ undo' = undo /\ alternative' = alternative
           \/ /\ DOMAIN undo' = 1 .. n + 1 /\ undo'[n + 1] = top
              /\ \A k \in 1 .. n : undo'[k] = undo[k]
              /\ alternative' = edits + 1
    <3>1. CASE job.content = buffer BY <1>2, <2>1, <3>1 DEF TextTypes
    <3>2. CASE job.content # buffer
      <4>1. undo' = Append(undo, top) /\ edits' = edits + 1 /\ alternative' = edits + 1
        BY <2>1, <3>2
      <4>2. /\ undo' \in Seq(Undone) /\ Len(undo') = n + 1 /\ undo'[n + 1] = top
            /\ \A k \in 1 .. n : undo'[k] = undo[k]
        BY <2>5, <2>6, <4>1, AppendProperties
      <4>3. DOMAIN undo' = 1 .. n + 1 BY <4>2, LenProperties
      <4>4. edits' \in Nat /\ alternative' \in 0 .. edits' /\ edits <= edits'
        BY <1>2, <4>1 DEF TextTypes
      <4> QED BY <4>1, <4>2, <4>3, <4>4
    <3> QED BY <3>1, <3>2
  <2> HIDE DEF n
  <2>8. TextTypes'
    <3>1. saved' \in 0 .. edits' BY <1>1, <1>2, <2>7 DEF TextTypes
    <3> QED BY <1>1, <1>2, <1>3, <2>1, <2>2, <2>7, <3>1 DEF TextTypes
  <2>9. Stacked'
    <3>1. CASE undo' = undo /\ alternative' = alternative BY <3>1 DEF EditorInv, Stacked
    <3>2. CASE /\ DOMAIN undo' = 1 .. n + 1 /\ undo'[n + 1] = top
               /\ \A k \in 1 .. n : undo'[k] = undo[k]
               /\ alternative' = edits + 1
      <4>1. \A k \in DOMAIN undo : undo[k].id \in Nat /\ undo[k].id < alternative
        BY <1>2, UndoTyped DEF EditorInv, Stacked
      <4>2. \A k \in DOMAIN undo' : k \in DOMAIN undo \/ k = n + 1 BY <2>5, <3>2
      <4>3. alternative < alternative' /\ alternative \in Nat BY <1>2, <3>2 DEF TextTypes
      <4>4. \A k \in DOMAIN undo' : undo'[k].id < alternative'
        BY <2>5, <2>6, <3>2, <4>1, <4>2, <4>3
      <4>5. ASSUME NEW j \in DOMAIN undo', NEW k \in DOMAIN undo', j < k
            PROVE  undo'[j].id < undo'[k].id
        <5>1. j \in DOMAIN undo /\ undo'[j] = undo[j] BY <2>5, <3>2, <4>5
        <5>2. CASE k = n + 1 BY <2>6, <3>2, <4>1, <5>1, <5>2
        <5>3. CASE k \in DOMAIN undo
          <6>1. undo'[k] = undo[k] BY <2>5, <3>2, <5>3
          <6> QED BY <4>5, <5>1, <5>3, <6>1 DEF EditorInv, Stacked
        <5> QED BY <4>2, <5>2, <5>3
      <4> QED BY <4>4, <4>5 DEF Stacked
    <3> QED BY <2>7, <3>1, <3>2
  <2>10. Reading' /\ Saving' BY <2>4 DEF Reading, Saving, SaveSteps
  <2>11. ChangesLead'
    <3>1. ApplyAll(written[version], <<>>) = written[version]
      <4>1. <<>> \in Seq(Edit) BY EmptySeq
      <4> QED BY <2>2, <4>1, ApplyAllSteps
    <3> QED BY <1>1, <2>1, <2>2, <3>1 DEF ChangesLead
  <2>12. SavedKnown'
    <3>1. ASSUME NEW k \in DOMAIN undo', undo'[k].id = saved', undo'[k].typed,
                 ~astray', ~misled', ~RevertsDirty'
          PROVE  FALSE
      <4>1. undo'[k].id < alternative' BY <2>9 DEF Stacked
      <4>2. undo'[k].id \in Nat /\ alternative' \in Nat
        <5>1. undo'[k] \in Undone BY <2>7
        <5> QED BY <2>7, <5>1 DEF Undone
      <4>3. saved' = saved /\ ~RevertsDirty BY <1>1, <2>4, <3>1, <4>1, <4>2
      <4>4. k \in DOMAIN undo /\ undo'[k] = undo[k] BY <2>5, <2>6, <2>7, <3>1
      <4> QED BY <2>1, <3>1, <4>3, <4>4 DEF EditorInv, SavedKnown
    <3>2. ~astray' => buffer' = written'[resourceVersion'] BY <1>1, <2>1, <2>2
    <3> QED BY <3>1, <3>2 DEF SavedKnown
  <2>13. CleanKnown' BY <1>1, <2>1, <2>2 DEF CleanKnown
  <2> QED BY <2>3, <2>4, <2>8, <2>9, <2>10, <2>11, <2>12, <2>13 DEF EditorInv
<1> QED BY <1>4, <1>5

\* A save that goes on holds the text it began with, and the file keeps its past.
LEMMA SaveGoesOn ==
    ASSUME EditorInv, step \in SaveSteps, step' \in SaveSteps, FileTypes', SaveFile',
           written'[resourceVersion] = written[resourceVersion],
           UNCHANGED <<buffer, alternative, edits, undo, dirty, saved, changes, resourceVersion,
                       queue, interrupted, misled>>,
           astray' \in BOOLEAN, astray => astray', DOMAIN job' = DOMAIN NoJob,
           job'.alternative = job.alternative, ~astray' => job'.content = job.content
    PROVE  EditorInv'
<1>1. TextTypes' /\ Stacked' BY DEF EditorInv, TextTypes, Stacked
<1>2. Reading' BY DEF Reading, SaveSteps, NoJob
<1>3. QueueTypes' BY DEF EditorInv, QueueTypes, SyncSteps, SaveSteps
<1>4. ChangesLead' BY DEF EditorInv, ChangesLead
<1>5. SavedKnown' /\ CleanKnown'
  BY DEF EditorInv, SavedKnown, CleanKnown, Reverts, RevertsDirty
<1>6. ~astray' => SaveText' BY DEF EditorInv, Saving, SaveText
<1> QED BY <1>1, <1>2, <1>3, <1>4, <1>5, <1>6 DEF EditorInv, Saving

LEMMA SaveStartsKeeps == ASSUME EditorInv, SaveStarts PROVE EditorInv'
<1>1. /\ queue # <<>> /\ Operation.kind = "save" /\ step = "idle"
      /\ UNCHANGED <<written, changed, foreign, version, stats, buffer, alternative, edits, undo,
                     dirty, saved, changes, resourceVersion, asked, interrupted, astray, misled>>
  BY DEF SaveStarts, Running, file, resource, text, history
<1>2. TextTypes /\ QueueTypes /\ FileTypes BY DEF EditorInv
<1>3. ~Operation.revert BY <1>1, <1>2, FirstOperation
<1>4. CASE Done
  <2>1. dirty' \in BOOLEAN /\ misled' \in BOOLEAN /\ interrupted' \in BOOLEAN
        /\ saved' \in 0 .. edits'
    BY <1>1, <1>2 DEF TextTypes
  <2> QED BY <1>1, <1>3, <1>4, <2>1, DoneKeeps
<1>5. CASE ~Done
  <2>1. /\ step' \in {"update", "validate"} /\ queue' = queue
        /\ job' = [changes |-> changes, alternative |-> alternative, content |-> buffer,
                   version |-> resourceVersion, seen |-> 0]
    BY <1>5 DEF SaveStarts, Proceed, Expected
  <2>2. FileTypes' /\ TextTypes' /\ Stacked' /\ ChangesLead'
    BY <1>1 DEF EditorInv, FileTypes, TextTypes, Stacked, ChangesLead, Mtime
  <2>3. Reading' BY <2>1 DEF Reading, NoJob
  <2>4. QueueTypes'
    BY <1>1, <1>2, <2>1, FirstOperation DEF QueueTypes, SyncSteps, SaveSteps
  <2>5. SavedKnown' /\ CleanKnown'
    BY <1>1, <2>1 DEF EditorInv, SavedKnown, CleanKnown, Reverts, RevertsDirty
  <2>6. Saving'
    <3>1. SaveFile'
      <4>1. Len(changes) \in Nat BY <1>2, LenProperties DEF TextTypes
      <4> QED BY <1>1, <1>2, <2>1, <4>1 DEF SaveFile, TextTypes, EditorInv, ChangesLead
    <3>2. SaveText'
      <4>1. \A k \in DOMAIN undo : undo[k].id \in Nat /\ undo[k].id < alternative
        BY <1>2, UndoTyped DEF EditorInv, Stacked
      <4> QED BY <1>1, <1>2, <2>1, <4>1 DEF SaveText, TextTypes
    <3> QED BY <3>1, <3>2 DEF Saving
  <2> QED BY <2>2, <2>3, <2>4, <2>5, <2>6 DEF EditorInv
<1> QED BY <1>4, <1>5

LEMMA JobSeen ==
    ASSUME EditorInv, NEW t, job' = [job EXCEPT !.seen = t]
    PROVE  /\ job'.seen = t /\ DOMAIN job' = DOMAIN NoJob
           /\ job'.changes = job.changes /\ job'.alternative = job.alternative
           /\ job'.content = job.content /\ job'.version = job.version
BY DEF EditorInv, Reading, NoJob

\* What a check of the file finds.
LEMMA Checked ==
    ASSUME EditorInv, step \in SaveSteps, Unseen
    PROVE  astray' \in BOOLEAN /\ (astray => astray') /\ (~astray' => resourceVersion = Mtime)
<1>1. job.version = resourceVersion BY DEF EditorInv, Saving, SaveFile
<1>2. Mtime \in Nat /\ resourceVersion \in Nat /\ resourceVersion <= Mtime
  BY WrittenTyped DEF EditorInv
<1>3. astray' <=> (astray \/ resourceVersion < Mtime) BY <1>1 DEF Unseen
<1>4. ~(resourceVersion < Mtime) => resourceVersion = Mtime BY <1>2
<1>5. astray' \in BOOLEAN BY DEF Unseen
<1> QED BY <1>3, <1>4, <1>5

LEMMA UpdateValidatesKeeps == ASSUME EditorInv, UpdateValidates PROVE EditorInv'
<1>1. /\ step = "update" /\ step \in SaveSteps
      /\ UNCHANGED <<written, changed, foreign, version, stats, buffer, alternative, edits, undo,
                     dirty, saved, changes, resourceVersion, asked, interrupted, misled>>
  BY DEF UpdateValidates, Running, file, resource, text, SaveSteps
<1>2. FileTypes' BY <1>1 DEF EditorInv, FileTypes, Mtime
<1>3. SaveFile /\ DOMAIN job = DOMAIN NoJob BY <1>1 DEF EditorInv, Saving, Reading
<1>4. CASE ModifiedSince
  <2>1. /\ queue' = queue /\ job' = job /\ astray' = (astray \/ Operation.cancelled)
        /\ step' = IF Operation.cancelled THEN "saved" ELSE "validate"
    BY <1>4 DEF UpdateValidates, Proceed
  <2>2. step' \in SaveSteps /\ astray' \in BOOLEAN /\ (astray => astray')
        /\ (step' = "saved" => astray') /\ step' \notin {"patch", "written"}
    BY <2>1 DEF SaveSteps, EditorInv, TextTypes
  <2>3. SaveFile' BY <1>1, <1>3, <2>1, <2>2 DEF SaveFile
  <2> QED BY <1>1, <1>2, <1>3, <2>1, <2>2, <2>3, SaveGoesOn
<1>5. CASE ~ModifiedSince
  <2>1. /\ queue' = queue /\ step' = "patch" /\ step' \in SaveSteps /\ Unseen
        /\ job' = [job EXCEPT !.seen = Mtime]
    BY <1>5 DEF UpdateValidates, Proceed, SaveSteps
  <2>2. astray' \in BOOLEAN /\ (astray => astray') /\ (~astray' => resourceVersion = Mtime)
    BY <1>1, <2>1, Checked
  <2>3. /\ job'.seen = Mtime /\ DOMAIN job' = DOMAIN NoJob
        /\ job'.changes = job.changes /\ job'.alternative = job.alternative
        /\ job'.content = job.content /\ job'.version = job.version
    BY <2>1, JobSeen
  <2>4. Mtime \in 1 .. Mtime /\ Mtime' = Mtime BY <1>1, WrittenTyped DEF EditorInv, Mtime
  <2>5. SaveFile' BY <1>1, <1>3, <2>1, <2>2, <2>3, <2>4 DEF SaveFile
  <2> QED BY <1>1, <1>2, <2>1, <2>2, <2>3, <2>5, SaveGoesOn
<1> QED BY <1>4, <1>5

LEMMA WriteValidatesKeeps == ASSUME EditorInv, WriteValidates PROVE EditorInv'
<1>1. /\ step = "validate" /\ step \in SaveSteps
      /\ UNCHANGED <<written, changed, foreign, version, stats, buffer, alternative, edits, undo,
                     dirty, saved, changes, resourceVersion, asked, interrupted, misled>>
  BY DEF WriteValidates, Running, file, resource, text, SaveSteps
<1>2. FileTypes' BY <1>1 DEF EditorInv, FileTypes, Mtime
<1>3. SaveFile /\ DOMAIN job = DOMAIN NoJob /\ astray \in BOOLEAN
  BY <1>1 DEF EditorInv, Saving, Reading, TextTypes
<1>4. CASE ModifiedSince
  <2>1. queue' = queue /\ job' = job /\ astray' = astray /\ step' = "ask"
    BY <1>4 DEF WriteValidates, Proceed
  <2>2. SaveFile' /\ step' \in SaveSteps BY <1>1, <1>3, <2>1 DEF SaveFile, SaveSteps
  <2> QED BY <1>1, <1>2, <1>3, <2>1, <2>2, SaveGoesOn
<1>5. CASE ~ModifiedSince
  <2>1. /\ queue' = queue /\ step' = "write" /\ step' \in SaveSteps /\ Unseen
        /\ job' = [job EXCEPT !.seen = Mtime]
    BY <1>5 DEF WriteValidates, Proceed, SaveSteps
  <2>2. astray' \in BOOLEAN /\ (astray => astray') BY <1>1, <2>1, Checked
  <2>3. /\ job'.seen = Mtime /\ DOMAIN job' = DOMAIN NoJob
        /\ job'.changes = job.changes /\ job'.alternative = job.alternative
        /\ job'.content = job.content /\ job'.version = job.version
    BY <2>1, JobSeen
  <2>4. SaveFile' BY <1>1, <1>3, <2>1, <2>2, <2>3 DEF SaveFile
  <2> QED BY <1>1, <1>2, <2>1, <2>2, <2>3, <2>4, SaveGoesOn
<1> QED BY <1>4, <1>5

LEMMA OverwriteKeeps == ASSUME EditorInv, Overwrite PROVE EditorInv'
<1>1. /\ step = "ask" /\ step \in SaveSteps /\ step' = "write" /\ step' \in SaveSteps
      /\ job' = [job EXCEPT !.seen = Mtime]
      /\ UNCHANGED <<written, changed, foreign, version, stats, buffer, alternative, edits, undo,
                     dirty, saved, changes, resourceVersion, queue, asked, interrupted, astray,
                     misled>>
  BY DEF Overwrite, Running, Proceed, file, resource, text, history, SaveSteps
<1>2. FileTypes' BY <1>1 DEF EditorInv, FileTypes, Mtime
<1>3. SaveFile /\ astray \in BOOLEAN BY <1>1 DEF EditorInv, Saving, TextTypes
<1>4. /\ job'.seen = Mtime /\ DOMAIN job' = DOMAIN NoJob
      /\ job'.changes = job.changes /\ job'.alternative = job.alternative
      /\ job'.content = job.content /\ job'.version = job.version
  BY <1>1, JobSeen
<1>5. SaveFile' BY <1>1, <1>3, <1>4 DEF SaveFile
<1> QED BY <1>1, <1>2, <1>3, <1>4, <1>5, SaveGoesOn

LEMMA RefuseKeeps == ASSUME EditorInv, Refuse PROVE EditorInv'
<1>1. /\ queue # <<>> /\ Operation.kind = "save" /\ Done
      /\ UNCHANGED <<written, changed, foreign, version, stats, buffer, alternative, edits, undo,
                     dirty, saved, changes, resourceVersion, asked, interrupted, astray, misled>>
  BY DEF Refuse, Running, file, resource, text, history
<1>2. dirty' \in BOOLEAN /\ misled' \in BOOLEAN /\ interrupted' \in BOOLEAN
      /\ saved' \in 0 .. edits'
  BY <1>1 DEF EditorInv, TextTypes
<1> QED BY <1>1, <1>2, FirstOperation, DoneKeeps DEF EditorInv

LEMMA PatchKeeps == ASSUME EditorInv, Patch PROVE EditorInv'
<1>1. /\ step = "patch" /\ step \in SaveSteps /\ step' = "write" /\ step' \in SaveSteps
      /\ job' = [job EXCEPT !.content = ApplyAll(Current, job.changes)]
      /\ astray' = (astray \/ job.seen # Mtime)
      /\ UNCHANGED <<written, changed, foreign, version, stats, buffer, alternative, edits, undo,
                     dirty, saved, changes, resourceVersion, queue, asked, interrupted, misled>>
  BY DEF Patch, Running, Proceed, Raced, file, resource, text, SaveSteps
<1>2. SaveFile /\ DOMAIN job = DOMAIN NoJob /\ FileTypes
  BY <1>1 DEF EditorInv, Saving, Reading
<1>3. Current \in Docs /\ Current = written[Mtime] BY <1>2, WrittenTyped
<1>4. ApplyAll(Current, job.changes) \in Docs BY <1>2, <1>3, ApplyAllSteps DEF SaveFile
<1>5. /\ job'.content = ApplyAll(Current, job.changes) /\ DOMAIN job' = DOMAIN NoJob
      /\ job'.changes = job.changes /\ job'.alternative = job.alternative
      /\ job'.seen = job.seen /\ job'.version = job.version
  BY <1>1, <1>2 DEF NoJob
<1>6. FileTypes' BY <1>1 DEF EditorInv, FileTypes, Mtime
<1>7. astray' \in BOOLEAN /\ (astray => astray') BY <1>1
<1>8. ASSUME ~astray' PROVE job'.content = job.content
  <2>1. ~astray /\ job.seen = Mtime BY <1>1, <1>8
  <2>2. resourceVersion = Mtime BY <1>1, <1>2, <2>1 DEF SaveFile
  <2> QED BY <1>2, <1>3, <1>5, <2>1, <2>2 DEF SaveFile
<1>9. SaveFile' BY <1>1, <1>2, <1>4, <1>5, <1>7, <1>8 DEF SaveFile
<1> QED BY <1>1, <1>5, <1>6, <1>7, <1>8, <1>9, SaveGoesOn

LEMMA WriteKeeps == ASSUME EditorInv, Write PROVE EditorInv'
<1>1. /\ step = "write" /\ step \in SaveSteps /\ step' = "written" /\ step' \in SaveSteps
      /\ written' = Append(written, job.content) /\ changed' = TRUE
      /\ job' = [job EXCEPT !.seen = Mtime + 1] /\ astray' = (astray \/ job.seen # Mtime)
      /\ UNCHANGED <<foreign, version, stats, buffer, alternative, edits, undo, dirty, saved,
                     changes, resourceVersion, queue, asked, interrupted, misled>>
  BY DEF Write, Running, Proceed, Raced, resource, text, SaveSteps
<1>2. SaveFile /\ FileTypes BY <1>1 DEF EditorInv, Saving
<1>3. Mtime \in Nat \ {0} /\ resourceVersion \in 1 .. Mtime /\ version \in 1 .. Mtime
  BY <1>2, WrittenTyped
<1>4. job.content \in Docs BY <1>2 DEF SaveFile
<1>5. /\ written' \in Seq(Docs) /\ written' # <<>> /\ Mtime' = Mtime + 1
      /\ \A k \in 1 .. Mtime : written'[k] = written[k]
      /\ written'[Mtime'] = job.content
  BY <1>1, <1>2, <1>4, WrittenGrows
<1>6. FileTypes'
  <2>1. version' \in 1 .. Mtime' /\ stats' \subseteq 1 .. Mtime'
    BY <1>1, <1>2, <1>3, <1>5 DEF FileTypes
  <2> QED BY <1>1, <1>2, <1>5, <2>1 DEF FileTypes
<1>7. written'[resourceVersion] = written[resourceVersion] BY <1>3, <1>5
<1>8. astray' \in BOOLEAN /\ (astray => astray') BY <1>1
<1>9. /\ job'.seen = Mtime + 1 /\ DOMAIN job' = DOMAIN NoJob
      /\ job'.changes = job.changes /\ job'.alternative = job.alternative
      /\ job'.content = job.content /\ job'.version = job.version
  BY <1>1, JobSeen
<1>10. job'.seen \in 1 .. Mtime' /\ written'[job'.seen] = job'.content BY <1>3, <1>5, <1>9
<1>11. SaveFile' BY <1>1, <1>2, <1>7, <1>8, <1>9, <1>10 DEF SaveFile
<1> QED BY <1>1, <1>6, <1>7, <1>8, <1>9, <1>11, SaveGoesOn

\* The changes a save does not take with it are those made after its snapshot.
LEMMA ChangesSplit ==
    ASSUME changes \in Seq(Edit), SaveFile
    PROVE  Unsaved \in Seq(Edit) /\ changes = job.changes \o Unsaved
<1> DEFINE m == Len(job.changes)
           n == Len(changes)
<1>1. /\ m \in Nat /\ n \in Nat /\ m <= n /\ job.changes \in Seq(Edit)
      /\ \A k \in 1 .. m : job.changes[k] = changes[k]
  BY LenProperties DEF SaveFile
<1>2. Unsaved = SubSeq(changes, m + 1, n) BY DEF Unsaved
<1>3. /\ Unsaved \in Seq(Edit) /\ Len(Unsaved) = n - m
      /\ \A k \in 1 .. n - m : Unsaved[k] = changes[k + m]
  <2>1. \A k \in m + 1 .. n : k \in 1 .. n BY <1>1
  <2>2. \A k \in m + 1 .. n : changes[k] \in Edit BY <2>1, LenProperties
  <2> HIDE DEF m, n
  <2>3. m + 1 \in Int /\ n \in Int BY <1>1
  <2>4. /\ Unsaved \in Seq(Edit) /\ Len(Unsaved) = IF m + 1 <= n THEN n - (m + 1) + 1 ELSE 0
        /\ \A k \in 1 .. n - (m + 1) + 1 : Unsaved[k] = changes[(m + 1) + k - 1]
    BY <1>2, <2>2, <2>3, SubSeqProperties
  <2>5. n - (m + 1) + 1 = n - m /\ (m + 1 <= n \/ n - m = 0) BY <1>1
  <2>6. \A k \in 1 .. n - m : (m + 1) + k - 1 = k + m BY <1>1
  <2> QED BY <2>4, <2>5, <2>6
<1> DEFINE both == job.changes \o Unsaved
<1>4. /\ both \in Seq(Edit) /\ Len(both) = n
      /\ \A k \in 1 .. n : both[k] = IF k <= m THEN job.changes[k] ELSE Unsaved[k - m]
  BY <1>1, <1>3, ConcatProperties
<1> HIDE DEF m, n, both
<1>5. ASSUME NEW k \in 1 .. n PROVE both[k] = changes[k]
  <2>1. CASE k <= m BY <1>1, <1>4, <2>1
  <2>2. CASE ~(k <= m)
    <3>1. k - m \in 1 .. n - m /\ (k - m) + m = k BY <1>1, <2>2
    <3> QED BY <1>3, <1>4, <2>2, <3>1
  <2> QED BY <2>1, <2>2
<1>6. both = changes BY <1>4, <1>5, SeqEqual DEF n
<1> QED BY <1>3, <1>6 DEF both

LEMMA SaveFinishesKeeps == ASSUME EditorInv, SaveFinishes PROVE EditorInv'
<1> DEFINE stays == Operation.cancelled /\ alternative # job.alternative
<1>1. /\ queue # <<>> /\ Operation.kind = "save" /\ step \in {"saved", "written"}
      /\ step \in SaveSteps /\ Done
      /\ version' = IF step = "written" THEN Mtime ELSE version
      /\ resourceVersion' = version' /\ changes' = Unsaved
      /\ stays => UNCHANGED <<dirty, saved>>
      /\ ~stays => dirty' = FALSE /\ saved' = IF dirty THEN alternative ELSE saved
      /\ astray' = (astray \/ (step = "written" /\ job.seen # Mtime))
      /\ misled' = (misled \/ alternative # job.alternative)
      /\ UNCHANGED <<written, changed, foreign, stats, buffer, alternative, edits, undo, asked,
                     interrupted>>
  BY DEF SaveFinishes, Running, SaveSteps, file
<1> HIDE DEF stays
<1>2. TextTypes /\ QueueTypes /\ FileTypes /\ SaveFile /\ (~astray => SaveText)
  BY <1>1 DEF EditorInv, Saving
<1>3. ~Operation.revert BY <1>1, <1>2, FirstOperation
<1>4. /\ QueueTypes' /\ step' = "idle" /\ job' = NoJob
      /\ (Reverts' <=> Reverts) /\ (RevertsDirty' <=> RevertsDirty)
  BY <1>1, <1>2, <1>3, QueueDone DEF Done
<1>5. /\ version \in 1 .. Mtime /\ Mtime \in Nat \ {0} /\ resourceVersion \in 1 .. Mtime
      /\ \A k \in 1 .. Mtime : written[k] \in Docs
  BY <1>2, WrittenTyped
<1>6. FileTypes'
  <2>1. Mtime' = Mtime /\ version' \in 1 .. Mtime BY <1>1, <1>5 DEF Mtime
  <2>2. resourceVersion' \in 1 .. version' BY <1>1, <1>5, <2>1
  <2> QED BY <1>1, <1>2, <2>1, <2>2 DEF FileTypes
<1>7. Unsaved \in Seq(Edit) /\ changes = job.changes \o Unsaved
  BY <1>2, ChangesSplit DEF TextTypes
<1>8. TextTypes'
  <2>1. /\ astray' \in BOOLEAN /\ misled' \in BOOLEAN /\ dirty' \in BOOLEAN
        /\ saved' \in 0 .. edits
    BY <1>1, <1>2 DEF TextTypes
  <2> QED BY <1>1, <1>2, <1>7, <2>1 DEF TextTypes
<1>9. Stacked' BY <1>1 DEF EditorInv, Stacked
<1>10. Reading' /\ Saving' BY <1>4 DEF Reading, Saving, SaveSteps
<1>11. ASSUME ~astray' PROVE ~astray /\ written'[resourceVersion'] = job.content
  <2>1. ~astray /\ (step = "written" => job.seen = Mtime) BY <1>1, <1>11
  <2>2. CASE step = "written" BY <1>1, <1>2, <2>1, <2>2 DEF SaveFile
  <2>3. CASE step = "saved" BY <1>1, <1>2, <2>1, <2>3 DEF SaveFile
  <2> QED BY <1>1, <2>1, <2>2, <2>3
<1>12. ChangesLead'
  <2> SUFFICES ASSUME ~astray' PROVE ApplyAll(written'[resourceVersion'], changes') = buffer'
    BY DEF ChangesLead
  <2>1. ApplyAll(written[resourceVersion], job.changes \o Unsaved) = buffer
    BY <1>7, <1>11 DEF EditorInv, ChangesLead
  <2>2. ApplyAll(written[resourceVersion], job.changes) = job.content
    BY <1>2, <1>11 DEF SaveFile
  <2>3. job.changes \in Seq(Edit) /\ written[resourceVersion] \in Docs
    BY <1>2, <1>5 DEF SaveFile
  <2>4. ApplyAll(written[resourceVersion], job.changes \o Unsaved)
           = ApplyAll(job.content, Unsaved)
    BY <1>7, <2>2, <2>3, ApplyAllSteps
  <2> QED BY <1>1, <1>11, <2>1, <2>4
<1>13. ASSUME ~astray', ~misled' PROVE ~misled /\ buffer' = written'[resourceVersion']
  <2>1. ~misled /\ alternative = job.alternative BY <1>1, <1>13
  <2> QED BY <1>1, <1>2, <1>11, <1>13, <2>1 DEF SaveText
<1>14. SavedKnown'
  <2>1. ASSUME ~astray', ~misled', ~RevertsDirty', NEW k \in DOMAIN undo',
               undo'[k].id = saved', undo'[k].typed
        PROVE  FALSE
    <3>1. alternative = job.alternative BY <1>1, <2>1
    <3>2. dirty' = FALSE /\ saved' = IF dirty THEN alternative ELSE saved
      BY <1>1, <3>1 DEF stays
    <3>3. undo[k].id \in Nat /\ undo[k].id < alternative /\ alternative \in Nat
      BY <1>1, <1>2, UndoTyped DEF EditorInv, Stacked, TextTypes
    <3>4. ~dirty /\ undo[k].id = saved BY <1>1, <2>1, <3>2, <3>3
    <3>5. ~astray /\ ~misled /\ ~RevertsDirty BY <1>4, <1>11, <1>13, <2>1
    <3> QED BY <1>1, <2>1, <3>4, <3>5 DEF EditorInv, SavedKnown
  <2> QED BY <1>13, <2>1 DEF SavedKnown
<1>15. CleanKnown' BY <1>13 DEF CleanKnown
<1> QED BY <1>4, <1>6, <1>8, <1>9, <1>10, <1>12, <1>14, <1>15 DEF EditorInv
-----------------------------------------------------------------------------
(* The invariant holds. *)

LEMMA InitHolds == Init => EditorInv
<1> SUFFICES ASSUME Init PROVE EditorInv
  OBVIOUS
<1> DEFINE blank == [l \in Lines |-> ""]
<1>1. blank \in Docs BY EditorAssumption DEF EditorAssumption, Docs
<1>2. /\ written = <<blank>> /\ buffer = blank /\ changed = FALSE /\ foreign = 0
      /\ version = 1 /\ stats = {} /\ alternative = 0 /\ edits = 0 /\ undo = <<>>
      /\ dirty = FALSE /\ saved = 0 /\ changes = <<>> /\ resourceVersion = 1
      /\ queue = <<>> /\ step = "idle" /\ job = NoJob /\ asked = 0
      /\ interrupted = FALSE /\ astray = FALSE /\ misled = FALSE
  BY DEF Init
<1> HIDE DEF blank
<1>3. written \in Seq(Docs) /\ Len(written) = 1 /\ written[1] = blank /\ written # <<>>
  BY <1>1, <1>2
<1>4. FileTypes
  <2>1. foreign \in 0 .. MaxForeign /\ asked \in 0 .. MaxRequests BY <1>2, Bounds
  <2>2. Mtime = 1 BY <1>3 DEF Mtime
  <2>3. version \in 1 .. Mtime /\ stats \subseteq 1 .. Mtime /\ resourceVersion \in 1 .. version
    BY <1>2, <2>2
  <2> QED BY <1>2, <1>3, <2>1, <2>3 DEF FileTypes
<1>5. <<>> \in Seq(Edit) /\ <<>> \in Seq(Undone) /\ <<>> \in Seq(Asked) BY EmptySeq
<1>6. DOMAIN undo = {} /\ DOMAIN queue = {} BY <1>2
<1>7. TextTypes
  <2>1. undo \in Seq(Undone) /\ changes \in Seq(Edit) BY <1>2, <1>5
  <2>2. alternative \in 0 .. edits /\ saved \in 0 .. edits BY <1>2
  <2> QED BY <1>1, <1>2, <2>1, <2>2 DEF TextTypes
<1>8. QueueTypes BY <1>2, <1>5, <1>6 DEF QueueTypes, SyncSteps, SaveSteps
<1>9. Stacked /\ Reading /\ Saving
  BY <1>2, <1>6 DEF Stacked, Reading, Saving, SaveSteps
<1>10. ChangesLead BY <1>1, <1>2, <1>3, <1>5, ApplyAllSteps DEF ChangesLead
<1>11. SavedKnown /\ CleanKnown BY <1>2, <1>3, <1>6 DEF SavedKnown, CleanKnown
<1> QED BY <1>4, <1>7, <1>8, <1>9, <1>10, <1>11 DEF EditorInv

LEMMA NextKeeps == EditorInv /\ [Next]_vars => EditorInv'
<1> SUFFICES ASSUME EditorInv, [Next]_vars PROVE EditorInv'
  OBVIOUS
<1>1. CASE User
  <2>1. ASSUME NEW l \in Lines, NEW t \in Texts, Type(l, t) PROVE EditorInv'
    BY <2>1, TypeKeeps
  <2>2. CASE Undo BY <2>2, UndoKeeps
  <2>3. ASSUME NEW manual \in BOOLEAN, AskToSave(manual) PROVE EditorInv'
    BY <2>3, AskToSaveKeeps
  <2>4. CASE AskToRevert BY <2>4, AskToRevertKeeps
  <2>5. CASE Overwrite BY <2>5, OverwriteKeeps
  <2>6. CASE Refuse BY <2>6, RefuseKeeps
  <2> QED BY <1>1, <2>1, <2>2, <2>3, <2>4, <2>5, <2>6 DEF User
<1>2. ASSUME NEW d \in Foreign, ForeignWrite(d) PROVE EditorInv'
  BY <1>2, EditorAssumption, ForeignWriteKeeps
<1>3. CASE Program
  <2>1. CASE ChangeArrives BY <2>1, ChangeArrivesKeeps
  <2>2. ASSUME NEW t \in stats, CheckSync(t) PROVE EditorInv' BY <2>2, CheckSyncKeeps
  <2>3. CASE SyncStarts BY <2>3, SyncStartsKeeps
  <2>4. CASE SyncReads BY <2>4, SyncReadsKeeps
  <2>12. CASE SyncStats BY <2>12, SyncStatsKeeps
  <2>5. CASE SyncApplies BY <2>5, SyncAppliesKeeps
  <2>6. CASE SaveStarts BY <2>6, SaveStartsKeeps
  <2>7. CASE UpdateValidates BY <2>7, UpdateValidatesKeeps
  <2>8. CASE Patch BY <2>8, PatchKeeps
  <2>9. CASE WriteValidates BY <2>9, WriteValidatesKeeps
  <2>10. CASE Write BY <2>10, WriteKeeps
  <2>11. CASE SaveFinishes BY <2>11, SaveFinishesKeeps
  <2> QED BY <1>3, <2>1, <2>2, <2>3, <2>4, <2>5, <2>6, <2>7, <2>8, <2>9, <2>10, <2>11, <2>12
          DEF Program
<1>4. CASE UNCHANGED vars
  <2>1. UNCHANGED <<written, changed, foreign, version, stats, buffer, alternative, edits, undo,
                    dirty, saved, changes, resourceVersion, queue, step, job, asked, interrupted,
                    astray, misled>>
    BY <1>4 DEF vars, file, resource, text, history
  <2>2. FileTypes' /\ QueueTypes' /\ (Reverts' <=> Reverts) /\ (RevertsDirty' <=> RevertsDirty)
    BY <2>1 DEF EditorInv, FileTypes, QueueTypes, Reverts, RevertsDirty, Mtime
  <2> QED BY <2>1, <2>2, WatcherKeeps
<1> QED BY <1>1, <1>2, <1>3, <1>4 DEF Next

LEMMA EditorInvHolds == Spec => []EditorInv
BY InitHolds, NextKeeps, PTL DEF Spec

\* The changes kept for an incremental save lead from the text of the version it is
\* checked against to the text in the editor, unless the editor is astray.
THEOREM ChangesLeadHolds == Spec => []ChangesLead
<1>1. EditorInv => ChangesLead BY DEF EditorInv
<1> QED BY <1>1, EditorInvHolds, PTL

\* An editor that does not ask to be saved and has nothing under way shows the file as
\* it last knew it, unless it is astray or misled.
THEOREM CleanIsKnownHolds == Spec => []CleanIsKnown
<1>1. EditorInv => CleanIsKnown BY DEF EditorInv, CleanKnown, CleanIsKnown, Reverts
<1> QED BY <1>1, EditorInvHolds, PTL

\* A sync replaces only text that the file holds too, unless a revert asked for it: an
\* operation still to come can only be a sync if the one that applies was cancelled.
THEOREM NoEditLostHolds == Spec => NoEditLost
<1> DEFINE Lost == (step = "read" /\ step' = "idle" /\ buffer' # buffer /\ ~astray /\ ~misled)
                      => Operation.revert \/ buffer = written[resourceVersion]
<1>1. EditorInv /\ [Next]_vars => [Lost]_vars
  <2> SUFFICES ASSUME EditorInv, Next, step = "read", step' = "idle", buffer' # buffer,
                      ~astray, ~misled, ~Operation.revert
               PROVE  buffer = written[resourceVersion]
    OBVIOUS
  <2>1. queue # <<>> /\ queue[1].kind = "sync" /\ QueueTypes
    BY DEF EditorInv, QueueTypes, SyncSteps
  <2>2. Operation = queue[1] /\ 1 \in DOMAIN queue /\ DOMAIN queue = 1 .. Len(queue)
        /\ Len(queue) \in Nat
    BY <2>1, FirstOperation, LenProperties DEF QueueTypes
  <2>3. SyncApplies
    <3>1. ~User
      BY <2>1, <2>2
      DEF User, Type, Undo, Changed, AskToSave, AskToRevert, Overwrite, Refuse, Running
    <3>2. \A d \in Foreign : ~ForeignWrite(d) BY DEF ForeignWrite
    <3>3. Program BY <3>1, <3>2 DEF Next
    <3> QED BY <2>1, <2>2, <3>3 DEF Program, ChangeArrives, CheckSync, SyncStarts, SyncReads,
                SyncStats, SaveStarts, UpdateValidates, Patch, WriteValidates, Write, SaveFinishes,
                Running
  <2>4. Wanted BY <2>3 DEF SyncApplies
  <2>5. ~Reverts
    <3> SUFFICES ASSUME NEW i \in DOMAIN queue, queue[i].revert PROVE FALSE
      BY DEF Reverts
    <3>1. i # 1 /\ queue[i].kind = "sync" BY <2>1, <2>2 DEF QueueTypes
    <3>2. 1 < i BY <2>2, <3>1
    <3> QED BY <2>1, <2>2, <2>4, <3>1, <3>2 DEF QueueTypes, Wanted
  <2> QED BY <2>4, <2>5 DEF EditorInv, CleanKnown, Wanted
<1>2. Spec => [][Lost]_vars BY <1>1, EditorInvHolds, PTL DEF Spec
<1> QED BY <1>2 DEF NoEditLost
-----------------------------------------------------------------------------
(* There are no more writes than were asked for: each save has a number.      *)

\* Nothing is written, and what is still to write was so before.
LEMMA NumbersKept ==
    ASSUME WritesBounded, asked \in Nat, asked' \in Nat, asked <= asked', Writes' = Writes,
           \A i \in DOMAIN queue' : Unwritten(i)' => i \in DOMAIN queue /\ Unwritten(i)
    PROVE  WritesBounded'
<1>1. PICK t \in [DOMAIN queue -> 0 .. asked] : Numbered(t) BY DEF WritesBounded
<1>0. PICK u : u = [i \in DOMAIN queue' |-> IF i \in DOMAIN queue THEN t[i] ELSE 0] OBVIOUS
<1>2. u \in [DOMAIN queue' -> 0 .. asked']
  <2>1. ASSUME NEW i \in DOMAIN queue' PROVE u[i] \in 0 .. asked' BY <1>0, <1>1
  <2> QED BY <1>0, <2>1
<1>3. \A i \in DOMAIN queue' : Unwritten(i)' => i \in DOMAIN queue /\ Unwritten(i) /\ u[i] = t[i]
  BY <1>0
<1>4. \A i \in DOMAIN queue : t[i] \in 0 .. asked BY <1>1
<1>5. \A i \in DOMAIN queue' : Unwritten(i)' => Writes' < u[i] /\ u[i] <= asked'
  BY <1>1, <1>3, <1>4 DEF Numbered
<1>6. \A i, j \in DOMAIN queue' : i < j /\ Unwritten(i)' /\ Unwritten(j)' => u[i] < u[j]
  BY <1>1, <1>3 DEF Numbered
<1>7. Numbered(u)' BY <1>5, <1>6 DEF Numbered
<1>8. Writes' \in 0 .. asked' BY DEF WritesBounded
<1> QED BY <1>2, <1>7, <1>8 DEF WritesBounded

\* A new save gets the next number.
LEMMA NumberGiven ==
    ASSUME WritesBounded, EditorInv, NEW manual \in BOOLEAN, AskToSave(manual)
    PROVE  WritesBounded'
<1> DEFINE n == Len(queue)
<1>1. /\ asked' = asked + 1 /\ queue' = Append(Cancel("save"), Save(manual))
      /\ UNCHANGED <<written, foreign, step>>
  BY DEF AskToSave, file
<1>2. Writes' = Writes /\ asked \in Nat BY <1>1 DEF Writes, EditorInv, FileTypes
<1>3. /\ queue \in Seq(Asked) /\ n \in Nat /\ DOMAIN queue = 1 .. n
      /\ Cancel("save") \in Seq(Asked) /\ Len(Cancel("save")) = n
      /\ \A i \in 1 .. n : Cancel("save")[i].kind = queue[i].kind
  BY CancelKeeps DEF EditorInv, QueueTypes
<1>4. Save(manual) \in Asked BY DEF Save, Sync, Asked
<1>5. /\ DOMAIN queue' = 1 .. n + 1
      /\ \A i \in 1 .. n : queue'[i].kind = queue[i].kind
  BY <1>1, <1>3, <1>4, AppendProperties, LenProperties
<1> HIDE DEF n
<1>6. PICK t \in [DOMAIN queue -> 0 .. asked] : Numbered(t) BY DEF WritesBounded
<1>0. PICK u : u = [i \in DOMAIN queue' |-> IF i \in DOMAIN queue THEN t[i] ELSE asked'] OBVIOUS
<1>7. ASSUME NEW i \in 1 .. n PROVE t[i] \in Nat /\ t[i] <= asked /\ u[i] = t[i]
  <2>1. i \in DOMAIN queue /\ i \in DOMAIN queue' BY <1>3, <1>5
  <2>2. t[i] \in 0 .. asked BY <1>6, <2>1
  <2> QED BY <1>0, <1>2, <2>1, <2>2
<1>8. u[n + 1] = asked + 1 BY <1>0, <1>1, <1>3, <1>5
<1>9. u \in [DOMAIN queue' -> 0 .. asked']
  <2>1. ASSUME NEW i \in DOMAIN queue' PROVE u[i] \in 0 .. asked' BY <1>0, <1>1, <1>2, <1>6
  <2> QED BY <1>0, <2>1
<1>10. \A i \in 1 .. n : Unwritten(i)' => Unwritten(i) BY <1>1, <1>5 DEF Unwritten
<1>11. Writes \in Nat /\ Writes <= asked BY <1>2 DEF WritesBounded
<1>12. ASSUME NEW i \in DOMAIN queue', Unwritten(i)' PROVE Writes' < u[i] /\ u[i] <= asked'
  <2>1. CASE i = n + 1 BY <1>1, <1>2, <1>8, <1>11, <2>1
  <2>2. CASE i \in 1 .. n
    <3>1. Writes < t[i] /\ t[i] <= asked BY <1>3, <1>6, <1>10, <1>12, <2>2 DEF Numbered
    <3> QED BY <1>1, <1>2, <1>7, <2>2, <3>1
  <2> QED BY <1>3, <1>5, <2>1, <2>2
<1>13. ASSUME NEW i \in DOMAIN queue', NEW j \in DOMAIN queue', i < j, Unwritten(i)', Unwritten(j)'
       PROVE  u[i] < u[j]
  <2>1. i \in 1 .. n BY <1>3, <1>5, <1>13
  <2>2. CASE j = n + 1 BY <1>2, <1>7, <1>8, <2>1, <2>2
  <2>3. CASE j \in 1 .. n BY <1>3, <1>6, <1>7, <1>10, <1>13, <2>1, <2>3 DEF Numbered
  <2> QED BY <1>3, <1>5, <2>2, <2>3
<1>14. Numbered(u)' BY <1>12, <1>13 DEF Numbered
<1>15. Writes' \in 0 .. asked' BY <1>1, <1>2, <1>11
<1> QED BY <1>9, <1>14, <1>15 DEF WritesBounded

\* The first operation takes its number with it.
LEMMA NumbersShift ==
    ASSUME WritesBounded, EditorInv, queue # <<>>, Done, UNCHANGED <<written, foreign, asked>>
    PROVE  WritesBounded'
<1> DEFINE n == Len(queue)
<1>1. /\ queue \in Seq(Asked) /\ DOMAIN queue = 1 .. n /\ n \in Nat \ {0}
  BY EmptySeq, LenProperties DEF EditorInv, QueueTypes
<1>2. /\ DOMAIN queue' = 1 .. n - 1 /\ \A i \in 1 .. n - 1 : queue'[i] = queue[i + 1]
  BY <1>1, HeadTailProperties, LenProperties DEF Done
<1>3. step' = "idle" BY DEF Done
<1> HIDE DEF n
<1>4. PICK t \in [DOMAIN queue -> 0 .. asked] : Numbered(t) BY DEF WritesBounded
<1>0. PICK u : u = [i \in DOMAIN queue' |-> t[i + 1]] OBVIOUS
<1>5. \A i \in 1 .. n - 1 : i + 1 \in 1 .. n /\ i + 1 # 1 BY <1>1
<1>6. u \in [DOMAIN queue' -> 0 .. asked'] BY <1>0, <1>1, <1>2, <1>4, <1>5
<1>7. \A i \in 1 .. n - 1 : u[i] = t[i + 1] BY <1>0, <1>2
<1>8. \A i \in 1 .. n - 1 : Unwritten(i)' => Unwritten(i + 1) BY <1>2, <1>5 DEF Unwritten
<1>9. Writes' = Writes BY DEF Writes
<1>10. \A i \in DOMAIN queue' : Unwritten(i)' => Writes' < u[i] /\ u[i] <= asked'
  BY <1>1, <1>2, <1>4, <1>5, <1>7, <1>8, <1>9 DEF Numbered
<1>11. ASSUME NEW i \in DOMAIN queue', NEW j \in DOMAIN queue', i < j, Unwritten(i)', Unwritten(j)'
       PROVE  u[i] < u[j]
  <2>1. i + 1 < j + 1 /\ i \in 1 .. n - 1 /\ j \in 1 .. n - 1 BY <1>1, <1>2, <1>11
  <2>2. i + 1 \in DOMAIN queue /\ j + 1 \in DOMAIN queue BY <1>1, <1>5, <2>1
  <2>3. Unwritten(i + 1) /\ Unwritten(j + 1) BY <1>8, <1>11, <2>1
  <2>4. t[i + 1] < t[j + 1] BY <1>4, <2>1, <2>2, <2>3 DEF Numbered
  <2> QED BY <1>7, <2>1, <2>4
<1>12. Numbered(u)' BY <1>10, <1>11 DEF Numbered
<1>13. Writes' \in 0 .. asked' BY <1>9 DEF WritesBounded
<1> QED BY <1>6, <1>12, <1>13 DEF WritesBounded

\* A write uses the number of its save.
LEMMA NumberUsed ==
    ASSUME WritesBounded, EditorInv, step = "write", step' = "written", queue' = queue,
           UNCHANGED <<foreign, asked>>, NEW doc, written' = Append(written, doc),
           doc \in Docs
    PROVE  WritesBounded'
<1>1. Mtime \in Nat /\ Mtime' = Mtime + 1 BY WrittenGrows DEF EditorInv
<1>2. Writes' = Writes + 1 /\ foreign \in Nat /\ asked \in Nat
  BY <1>1 DEF Writes, Mtime, EditorInv, FileTypes
<1>3. queue # <<>> /\ queue[1].kind = "save" /\ 1 \in DOMAIN queue
      /\ DOMAIN queue = 1 .. Len(queue) /\ Len(queue) \in Nat
  BY FirstOperation, LenProperties DEF EditorInv, QueueTypes, SaveSteps
<1>4. Unwritten(1) BY <1>3 DEF Unwritten
<1>5. \A i \in DOMAIN queue' : Unwritten(i)' => i # 1 /\ Unwritten(i)
  BY <1>3 DEF Unwritten, EditorInv, QueueTypes, SaveSteps
<1>6. PICK t \in [DOMAIN queue -> 0 .. asked] : Numbered(t) BY DEF WritesBounded
<1>7. \A i \in DOMAIN queue : t[i] \in Nat BY <1>2, <1>6
<1>8. Writes < t[1] /\ t[1] <= asked BY <1>3, <1>4, <1>6 DEF Numbered
<1>9. Writes \in Nat BY <1>2 DEF WritesBounded
<1>10. Writes' \in 0 .. asked' BY <1>2, <1>3, <1>7, <1>8, <1>9
<1>11. ASSUME NEW i \in DOMAIN queue', Unwritten(i)' PROVE Writes' < t[i] /\ t[i] <= asked'
  <2>1. 1 < i /\ Unwritten(i) BY <1>3, <1>5, <1>11
  <2>2. t[1] < t[i] /\ t[i] <= asked BY <1>3, <1>4, <1>6, <1>11, <2>1 DEF Numbered
  <2> QED BY <1>2, <1>3, <1>7, <1>8, <1>9, <1>11, <2>2
<1>12. Numbered(t)' BY <1>5, <1>6, <1>11 DEF Numbered
<1> QED BY <1>6, <1>10, <1>12 DEF WritesBounded

\* Where nothing is written, the head of the queue stays, and the others are what they were.
LEMMA NumbersStay ==
    ASSUME WritesBounded, EditorInv, UNCHANGED <<written, foreign, asked>>,
           \A i \in DOMAIN queue' : queue'[i].kind = "save" =>
                                      i \in DOMAIN queue /\ queue[i].kind = "save",
           step' = step \/ step \notin {"written", "saved"}
    PROVE  WritesBounded'
<1>1. asked \in Nat /\ asked' \in Nat /\ asked <= asked' BY DEF EditorInv, FileTypes
<1>2. Writes' = Writes BY DEF Writes
<1>3. \A i \in DOMAIN queue' : Unwritten(i)' => i \in DOMAIN queue /\ Unwritten(i)
  BY DEF Unwritten
<1> QED BY <1>1, <1>2, <1>3, NumbersKept

LEMMA NumbersHold == EditorInv /\ WritesBounded /\ [Next]_vars => WritesBounded'
<1> SUFFICES ASSUME EditorInv, WritesBounded, [Next]_vars PROVE WritesBounded'
  OBVIOUS
<1>1. /\ queue \in Seq(Asked) /\ DOMAIN queue = 1 .. Len(queue) /\ Len(queue) \in Nat
      /\ \A kind : /\ DOMAIN Cancel(kind) = DOMAIN queue
                   /\ \A i \in DOMAIN queue : Cancel(kind)[i].kind = queue[i].kind
  BY CancelKeeps, LenProperties DEF EditorInv, QueueTypes
<1>2. ASSUME NEW doc, NEW id, Changed(doc, id) PROVE WritesBounded'
  <2>1. UNCHANGED <<written, foreign, asked, step>> /\ (queue' = queue \/ queue' = Cancel("sync"))
    BY <1>2 DEF Changed, file
  <2> QED BY <1>1, <2>1, NumbersStay
<1>3. CASE User
  <2>1. ASSUME NEW l \in Lines, NEW t \in Texts, Type(l, t) PROVE WritesBounded'
    BY <1>2, <2>1 DEF Type
  <2>2. CASE Undo BY <1>2, <2>2 DEF Undo
  <2>3. ASSUME NEW manual \in BOOLEAN, AskToSave(manual) PROVE WritesBounded'
    BY <2>3, NumberGiven
  <2>4. CASE AskToRevert
    <3>1. /\ UNCHANGED <<written, foreign, step>> /\ asked' = asked + 1
          /\ queue' = [i \in 1 .. Len(queue) + 1 |->
                        IF i <= Len(queue) THEN [queue[i] EXCEPT !.cancelled = TRUE]
                                           ELSE Reverting]
      BY <2>4 DEF AskToRevert, file
    <3>2. Reverting.kind = "sync" BY DEF Reverting, Sync
    <3>3. ASSUME NEW i \in DOMAIN queue', queue'[i].kind = "save"
          PROVE  i \in DOMAIN queue /\ queue[i].kind = "save"
      <4>1. i \in 1 .. Len(queue) + 1 BY <1>1, <3>1
      <4>2. CASE i <= Len(queue)
        <5>1. i \in DOMAIN queue /\ queue[i] \in Asked BY <1>1, <4>1, <4>2
        <5>2. queue'[i] = [queue[i] EXCEPT !.cancelled = TRUE] BY <1>1, <3>1, <4>1, <4>2
        <5> QED BY <3>3, <5>1, <5>2 DEF Asked
      <4>3. CASE ~(i <= Len(queue))
        <5>1. queue'[i] = Reverting BY <3>1, <4>1, <4>3
        <5> QED BY <3>2, <3>3, <5>1
      <4> QED BY <4>2, <4>3
    <3>4. asked \in Nat /\ asked' \in Nat /\ asked <= asked' BY <3>1 DEF EditorInv, FileTypes
    <3>5. Writes' = Writes BY <3>1 DEF Writes
    <3>6. \A i \in DOMAIN queue' : Unwritten(i)' => i \in DOMAIN queue /\ Unwritten(i)
      BY <3>1, <3>3 DEF Unwritten
    <3> QED BY <3>4, <3>5, <3>6, NumbersKept
  <2>5. CASE Overwrite
    <3>1. UNCHANGED <<written, foreign, asked, queue>> /\ step = "ask"
      BY <2>5 DEF Overwrite, Running, Proceed, file
    <3> QED BY <3>1, NumbersStay
  <2>6. CASE Refuse BY <2>6, NumbersShift DEF Refuse, Running, file
  <2> QED BY <1>3, <2>1, <2>2, <2>3, <2>4, <2>5, <2>6 DEF User
<1>4. ASSUME NEW d \in Foreign, ForeignWrite(d) PROVE WritesBounded'
  <2>1. /\ written' = Append(written, d) /\ foreign' = foreign + 1
        /\ UNCHANGED <<asked, queue, step>>
    BY <1>4 DEF ForeignWrite
  <2>2. Mtime \in Nat /\ Mtime' = Mtime + 1
    <3>1. d \in Docs BY <1>4, EditorAssumption
    <3> QED BY <2>1, <3>1, WrittenGrows DEF EditorInv
  <2>3. asked \in Nat /\ foreign \in Nat BY DEF EditorInv, FileTypes
  <2>4. Writes' = Writes BY <2>1, <2>2, <2>3 DEF Writes, Mtime
  <2>5. \A i \in DOMAIN queue' : Unwritten(i)' => i \in DOMAIN queue /\ Unwritten(i)
    BY <2>1 DEF Unwritten
  <2> QED BY <2>1, <2>3, <2>4, <2>5, NumbersKept
<1>5. CASE Program
  <2>1. CASE ChangeArrives
    <3>1. UNCHANGED <<written, foreign, asked, queue, step>> BY <2>1 DEF ChangeArrives
    <3> QED BY <3>1, NumbersStay
  <2>2. ASSUME NEW t \in stats, CheckSync(t) PROVE WritesBounded'
    <3>1. /\ UNCHANGED <<written, foreign, asked, step>>
          /\ queue' = IF InSync(t) THEN queue ELSE Append(Cancel("sync"), Sync)
      BY <2>2 DEF CheckSync, file
    <3>2. CASE InSync(t) BY <3>1, <3>2, NumbersStay
    <3>3. CASE ~InSync(t)
      <4>1. Sync \in Asked /\ Sync.kind = "sync" BY DEF Sync, Asked
      <4>2. Cancel("sync") \in Seq(Asked) /\ Len(Cancel("sync")) = Len(queue)
        BY <1>1, CancelKeeps
      <4>3. /\ Len(queue') = Len(queue) + 1 /\ queue' \in Seq(Asked)
            /\ \A i \in 1 .. Len(queue) : queue'[i] = Cancel("sync")[i]
            /\ queue'[Len(queue) + 1] = Sync
        BY <3>1, <3>3, <4>1, <4>2, AppendProperties
      <4>4. DOMAIN queue' = 1 .. Len(queue) + 1 BY <4>3, LenProperties
      <4>5. ASSUME NEW i \in DOMAIN queue', queue'[i].kind = "save"
            PROVE  i \in DOMAIN queue /\ queue[i].kind = "save"
        <5>1. i # Len(queue) + 1 BY <4>1, <4>3, <4>5
        <5>2. i \in 1 .. Len(queue) BY <1>1, <4>4, <5>1
        <5> QED BY <1>1, <4>3, <4>5, <5>2
      <4> QED BY <3>1, <4>5, NumbersStay
    <3> QED BY <3>2, <3>3
  <2>3. CASE SyncStarts
    <3>1. UNCHANGED <<written, foreign, asked>> /\ queue # <<>> /\ step = "idle"
      BY <2>3 DEF SyncStarts, Running, file
    <3>2. CASE Done BY <3>1, <3>2, NumbersShift
    <3>3. CASE queue' = queue BY <3>1, <3>3, NumbersStay
    <3> QED BY <2>3, <3>2, <3>3 DEF SyncStarts, Proceed
  <2>4. CASE SyncReads
    <3>1. UNCHANGED <<written, foreign, asked, queue>> /\ step \in {"reading", "text"}
      BY <2>4 DEF SyncReads, Running, Proceed, file
    <3> QED BY <3>1, NumbersStay
  <2>12. CASE SyncStats
    <3>1. UNCHANGED <<written, foreign, asked, queue>> /\ step \in {"reading", "stat"}
      BY <2>12 DEF SyncStats, Running, Proceed, file
    <3> QED BY <3>1, NumbersStay
  <2>5. CASE SyncApplies BY <2>5, NumbersShift DEF SyncApplies, Running, file
  <2>6. CASE SaveStarts
    <3>1. UNCHANGED <<written, foreign, asked>> /\ queue # <<>> /\ step = "idle"
      BY <2>6 DEF SaveStarts, Running, file
    <3>2. CASE Done BY <3>1, <3>2, NumbersShift
    <3>3. CASE queue' = queue BY <3>1, <3>3, NumbersStay
    <3> QED BY <2>6, <3>2, <3>3 DEF SaveStarts, Proceed
  <2>7. CASE UpdateValidates
    <3>1. UNCHANGED <<written, foreign, asked, queue>> /\ step = "update"
      BY <2>7 DEF UpdateValidates, Running, Proceed, file
    <3> QED BY <3>1, NumbersStay
  <2>8. CASE Patch
    <3>1. UNCHANGED <<written, foreign, asked, queue>> /\ step = "patch"
      BY <2>8 DEF Patch, Running, Proceed, file
    <3> QED BY <3>1, NumbersStay
  <2>9. CASE WriteValidates
    <3>1. UNCHANGED <<written, foreign, asked, queue>> /\ step = "validate"
      BY <2>9 DEF WriteValidates, Running, Proceed, file
    <3> QED BY <3>1, NumbersStay
  <2>10. CASE Write
    <3>1. /\ step = "write" /\ step' = "written" /\ queue' = queue
          /\ UNCHANGED <<foreign, asked>> /\ written' = Append(written, job.content)
      BY <2>10 DEF Write, Running, Proceed
    <3>2. job.content \in Docs BY <3>1 DEF EditorInv, Saving, SaveSteps, SaveFile
    <3> QED BY <3>1, <3>2, NumberUsed
  <2>11. CASE SaveFinishes BY <2>11, NumbersShift DEF SaveFinishes, Running, file
  <2> QED BY <1>5, <2>1, <2>2, <2>3, <2>4, <2>5, <2>6, <2>7, <2>8, <2>9, <2>10, <2>11, <2>12
          DEF Program
<1>6. CASE UNCHANGED vars
  <2>1. UNCHANGED <<written, foreign, asked, queue, step>> BY <1>6 DEF vars, file
  <2> QED BY <2>1, NumbersStay
<1> QED BY <1>3, <1>4, <1>5, <1>6 DEF Next

\* The state of the editor and of the file keeps its types: a version is one the file
\* has had, there are no more contents than were asked for, and of the operations of a
\* kind only the youngest is not cancelled.
THEOREM TypeCorrect == Spec => []TypeOK
<1>1. Init => WritesBounded
  <2> SUFFICES ASSUME Init PROVE WritesBounded
    OBVIOUS
  <2>1. Len(written) = 1 BY DEF Init
  <2>2. foreign = 0 /\ asked = 0 /\ queue = <<>> BY DEF Init
  <2>3. DOMAIN queue = {} BY <2>2
  <2>4. Writes = 0 BY <2>1, <2>2 DEF Writes
  <2>5. PICK t : t = [i \in DOMAIN queue |-> 0] OBVIOUS
  <2>6. t \in [DOMAIN queue -> 0 .. asked] /\ Numbered(t) BY <2>3, <2>5 DEF Numbered
  <2>7. Writes \in 0 .. asked BY <2>2, <2>4
  <2> QED BY <2>6, <2>7 DEF WritesBounded
<1>2. EditorInv /\ WritesBounded => TypeOK
  <2> SUFFICES ASSUME EditorInv, WritesBounded PROVE TypeOK
    OBVIOUS
  <2>1. FileTypes /\ TextTypes /\ QueueTypes BY DEF EditorInv
  <2>2. written \in BoundedSeq(Docs, 1 + MaxForeign + MaxRequests)
    <3>1. /\ Mtime \in Nat /\ foreign \in Nat /\ foreign <= MaxForeign
          /\ asked \in Nat /\ asked <= MaxRequests
      BY <2>1, WrittenTyped, Bounds DEF FileTypes
    <3>2. Writes \in 0 .. asked /\ Writes = Mtime - 1 - foreign
      BY DEF WritesBounded, Writes, Mtime
    <3>3. Mtime \in 0 .. 1 + MaxForeign + MaxRequests BY <3>1, <3>2, Bounds
    <3>4. written \in [1 .. Mtime -> Docs] BY <2>1, LenProperties DEF FileTypes, Mtime
    <3> QED BY <3>3, <3>4 DEF BoundedSeq, SeqOf
  <2>3. \A i \in DOMAIN undo : undo[i].doc \in Docs /\ undo[i].id \in 0 .. edits
    <3>1. \A i \in DOMAIN undo : undo[i].doc \in Docs /\ undo[i].id \in Nat
      BY <2>1, UndoTyped
    <3> QED BY <2>1, <3>1 DEF EditorInv, Stacked, TextTypes
  <2>4. ASSUME NEW i \in DOMAIN changes, NEW l \in DOMAIN changes[i]
        PROVE  l \in Lines /\ changes[i][l] \in Texts
    <3>1. changes[i] \in Edit BY <2>1 DEF TextTypes
    <3>2. PICK ls \in SUBSET Lines : changes[i] \in [ls -> Texts] BY <3>1 DEF Edit
    <3> QED BY <3>2
  <2>5. \A i, j \in DOMAIN queue :
           i < j /\ queue[i].kind = queue[j].kind => queue[i].cancelled
    BY <2>1 DEF QueueTypes
  <2>6. /\ step \in {"idle", "reading", "stat", "text", "read", "update", "patch", "validate",
                    "ask", "write", "written", "saved"}
        /\ step # "idle" => queue # <<>>
    BY <2>1 DEF QueueTypes, SyncSteps, SaveSteps
  <2>7. /\ changed \in BOOLEAN /\ foreign \in 0 .. MaxForeign /\ asked \in 0 .. MaxRequests
        /\ version \in 1 .. Mtime /\ stats \subseteq 1 .. Mtime
        /\ resourceVersion \in 1 .. version
    BY <2>1 DEF FileTypes
  <2>8. /\ buffer \in Docs /\ saved \in 0 .. edits /\ alternative \in 0 .. edits
        /\ dirty \in BOOLEAN /\ {astray, misled, interrupted} \subseteq BOOLEAN
    BY <2>1 DEF TextTypes
  <2> QED BY <2>2, <2>3, <2>4, <2>5, <2>6, <2>7, <2>8 DEF TypeOK
<1> QED BY <1>1, <1>2, InitHolds, NextKeeps, NumbersHold, PTL DEF Spec
=============================================================================
