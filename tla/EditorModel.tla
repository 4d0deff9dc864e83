---------------------------- MODULE EditorModel -----------------------------
(***************************************************************************)
(* A file open in an editor, while it is typed in, saved, reverted and     *)
(* changed on disk by others: MonacoEditorModel of packages/monaco over    *)
(* FileResource and FileService of packages/filesystem.                    *)
(*                                                                         *)
(* A document is a function from lines to texts, an edit the lines it      *)
(* replaces.  The file is never deleted.  Every content it has had is in   *)
(* written, and its place there stands for mtime.  Saves and syncs run one *)
(* after another in a queue of promises; each time one of them looks at    *)
(* the file, reads or writes it is a step, between which others write.     *)
(***************************************************************************)
EXTENDS Naturals, Sequences, FiniteSets, SequencesExt

CONSTANTS
    Lines, Texts,   \* "" is the empty text
    MaxEdits,       \* bound: edits typed
    MaxRequests,    \* bound: saves and reverts asked for
    Foreign,        \* bound: the texts other programs write
    MaxForeign      \* bound: how often they do

Docs == [Lines -> Texts]

ASSUME EditorAssumption ==
    /\ {MaxEdits, MaxRequests, MaxForeign} \subseteq Nat
    /\ "" \in Texts /\ Lines # {} /\ Foreign \subseteq Docs

VARIABLES
    (* the file *)
    written,    \* what it has contained, by mtime
    changed,    \* a change the watcher has still to report
    foreign,    \* writes of other programs
    (* FileResource *)
    version,    \* _version, as an mtime
    stats,      \* mtimes that calls of isInSync are about to compare
    (* MonacoEditorModel *)
    buffer, alternative, edits,   \* the text, its version id, and the ids given out
    undo,                         \* texts and ids to go back to
    dirty, saved,                 \* _dirty, bufferSavedVersionId
    changes,                      \* contentChanges
    resourceVersion,
    queue, step, job,             \* the operations, the first one's state and what it holds
    asked,                        \* saves and reverts asked for
    interrupted,                  \* history: an edit kept a sync from its work
    astray,                       \* history: a save or a sync lost track of the file
    misled                        \* history: the text was marked clean though it is not

file == <<written, changed, foreign>>
resource == <<version, stats>>
text == <<buffer, alternative, edits, undo, dirty, saved, changes>>
history == <<interrupted, astray, misled>>
vars == <<file, resource, text, resourceVersion, queue, step, job, asked, history>>

Current == Last(written)
Mtime == Len(written)

Apply(doc, edit) == [l \in Lines |-> IF l \in DOMAIN edit THEN edit[l] ELSE doc[l]]
ApplyAll(doc, cs) == FoldLeft(Apply, doc, cs)
Diff(from, to) == [l \in {k \in Lines : from[k] # to[k]} |-> to[l]]
Size(doc) == Cardinality({l \in Lines : doc[l] # ""})

NoJob == [changes |-> <<>>, alternative |-> 0, content |-> <<>>, version |-> 0, seen |-> 0]

Init ==
    /\ written = <<[l \in Lines |-> ""]>> /\ buffer = written[1]
    /\ changed = FALSE /\ foreign = 0
    /\ version = 1 /\ stats = {}
    /\ alternative = 0 /\ edits = 0 /\ undo = <<>>
    /\ dirty = FALSE /\ saved = 0 /\ changes = <<>> /\ resourceVersion = 1
    /\ queue = <<>> /\ step = "idle" /\ job = NoJob
    /\ asked = 0
    /\ interrupted = FALSE /\ astray = FALSE /\ misled = FALSE
-----------------------------------------------------------------------------
(* The queue. *)

Sync == [kind |-> "sync", cancelled |-> FALSE, revert |-> FALSE, manual |-> FALSE, was |-> FALSE]
Reverting == [Sync EXCEPT !.revert = TRUE, !.was = dirty]
Save(manual) == [Sync EXCEPT !.kind = "save", !.manual = manual]

\* Seeded fault: a new operation leaves the older ones their tokens.
LetBe(kind) == queue

\* cancelSync, cancelSave: the tokens given out before are cancelled.
Cancel(kind) ==
    [i \in DOMAIN queue |-> IF queue[i].kind = kind THEN [queue[i] EXCEPT !.cancelled = TRUE]
                                                    ELSE queue[i]]
Outstanding == \E i \in DOMAIN queue : queue[i].kind = "sync" /\ ~queue[i].cancelled

Operation == Head(queue)
Running(kind, s) == queue # <<>> /\ Operation.kind = kind /\ step = s

\* The first operation is over.
Done == queue' = Tail(queue) /\ step' = "idle" /\ job' = NoJob
Proceed(s) == step' = s /\ UNCHANGED queue
-----------------------------------------------------------------------------
(* The user. *)

\* fireDidChangeContent
Changed(doc, id) ==
    /\ buffer' = doc /\ alternative' = id
    /\ changes' = Append(changes, Diff(buffer, doc))
    /\ IF id = saved
       THEN dirty' = FALSE /\ UNCHANGED <<queue, interrupted>>
       ELSE /\ dirty' = TRUE /\ queue' = Cancel("sync")
            /\ interrupted' = (interrupted \/ Outstanding)
    /\ UNCHANGED <<file, resource, saved, resourceVersion, step, job, asked>>

Type(l, t) ==
    /\ edits < MaxEdits /\ buffer[l] # t
    /\ edits' = edits + 1
    /\ undo' = Append(undo, [doc |-> buffer, id |-> alternative, typed |-> TRUE])
    /\ Changed([buffer EXCEPT ![l] = t], edits + 1)
    /\ UNCHANGED <<astray, misled>>

\* What is undone may be what a sync loaded: the saved version lies before it.
Undo ==
    /\ undo # <<>>
    /\ undo' = Front(undo) /\ UNCHANGED edits
    /\ Changed(Last(undo).doc, Last(undo).id)
    /\ misled' = (misled \/ (Last(undo).id = saved /\ ~Last(undo).typed))
    /\ UNCHANGED astray

\* save, which anyone may ask for, and the auto save of SaveableService
AskToSave(manual) ==
    /\ manual \/ dirty
    /\ asked < MaxRequests /\ asked' = asked + 1
    /\ queue' = Append(Cancel("save"), Save(manual))
    /\ UNCHANGED <<file, resource, text, resourceVersion, step, job, history>>

\* revert up to its await
AskToRevert ==
    /\ asked < MaxRequests /\ asked' = asked + 1
    /\ queue' = [i \in 1 .. Len(queue) + 1 |->
                    IF i <= Len(queue) THEN [queue[i] EXCEPT !.cancelled = TRUE] ELSE Reverting]
    /\ dirty' = FALSE
    /\ UNCHANGED <<file, resource, buffer, alternative, edits, undo, saved, changes,
                   resourceVersion, step, job, history>>
-----------------------------------------------------------------------------
(* The file and its watcher. *)

ForeignWrite(doc) ==
    /\ foreign < MaxForeign /\ doc # Current
    /\ foreign' = foreign + 1
    /\ written' = Append(written, doc) /\ changed' = TRUE
    /\ UNCHANGED <<resource, text, resourceVersion, queue, step, job, asked, history>>

Locked == step \in {"update", "patch", "validate", "ask", "write", "written"}

\* isInSync up to the stat, which waits for the writing lock
ChangeArrives ==
    /\ changed /\ ~Locked
    /\ changed' = FALSE /\ stats' = stats \cup {Mtime}
    /\ UNCHANGED <<written, foreign, version, text, resourceVersion, queue, step, job, asked,
                   history>>

\* Seeded fault: a change within one tick of the clock is taken for our own.
Nearly(t) == version + 1 >= t

InSync(t) == version >= t

\* FileResource.sync, and MonacoEditorModel.sync when it is not
CheckSync(t) ==
    /\ t \in stats /\ stats' = stats \ {t}
    /\ queue' = IF InSync(t) THEN queue ELSE Append(Cancel("sync"), Sync)
    /\ UNCHANGED <<file, version, text, resourceVersion, step, job, asked, history>>
-----------------------------------------------------------------------------
(* doSync *)

\* What revert does after its await.
Reverted ==
    /\ dirty' = (dirty /\ ~Operation.revert)
    /\ saved' = IF Operation.revert /\ Operation.was THEN alternative' ELSE saved

SyncStarts ==
    /\ Running("sync", "idle")
    /\ UNCHANGED <<file, resource, buffer, alternative, edits, undo, changes, resourceVersion,
                   asked, interrupted, astray>>
    /\ IF Operation.cancelled
       THEN Done /\ Reverted /\ misled' = (misled \/ Operation.revert)
       ELSE Proceed("reading") /\ UNCHANGED <<job, dirty, saved, misled>>

\* doReadAsFileStream asks for the text and for the stat at once, and either may be the
\* first: the step is named for what is still to come.
SyncReads ==
    /\ \/ Running("sync", "reading") /\ Proceed("stat")
       \/ Running("sync", "text") /\ Proceed("read")
    /\ job' = [job EXCEPT !.content = Current]
    /\ UNCHANGED <<file, resource, text, resourceVersion, asked, history>>

SyncStats ==
    /\ \/ Running("sync", "reading") /\ Proceed("text")
       \/ Running("sync", "stat") /\ Proceed("read")
    /\ version' = Mtime
    /\ UNCHANGED <<file, stats, text, resourceVersion, job, asked, history>>

\* Another program wrote between the two.
Torn == job.content # written[version]

\* Seeded fault: dirty changes do not keep a sync from replacing the text.
Eager == ~Operation.cancelled

Wanted == ~Operation.cancelled /\ ~dirty

\* The changes pushed so far are kept, though they do not apply to the new text.
SyncApplies ==
    /\ Running("sync", "read") /\ Done
    /\ IF Wanted
       THEN /\ resourceVersion' = version /\ buffer' = job.content
            /\ IF job.content = buffer
               THEN UNCHANGED <<alternative, edits, undo>>
               ELSE /\ edits' = edits + 1 /\ alternative' = edits + 1
                    /\ undo' = Append(undo, [doc |-> buffer, id |-> alternative, typed |-> FALSE])
            /\ astray' = (astray \/ changes # <<>> \/ Torn) /\ UNCHANGED misled
       ELSE /\ misled' = (misled \/ Operation.revert)
            /\ UNCHANGED <<astray, resourceVersion, buffer, alternative, edits, undo>>
    /\ Reverted
    /\ interrupted' = (interrupted \/ dirty)
    /\ UNCHANGED <<file, resource, changes, asked>>
-----------------------------------------------------------------------------
(* doSave *)

\* Seeded fault: the check is made against what the resource read last.
Latest == version

\* The version a save is checked against.
Expected == resourceVersion

\* What the participants (formatting on save) do before is typing.
\* shouldSaveContent: whether the changes are longer than the text.
SaveStarts ==
    /\ Running("save", "idle")
    /\ IF Operation.cancelled \/ (changes = <<>> /\ ~Operation.manual)
       THEN Done
       ELSE /\ \E s \in IF changes = <<>> THEN {"update"} ELSE {"update", "validate"} : Proceed(s)
            /\ job' = [changes |-> changes, alternative |-> alternative, content |-> buffer,
                       version |-> Expected, seen |-> 0]
    /\ UNCHANGED <<file, resource, text, resourceVersion, asked, history>>

\* modifiedSince: a change to the same size passes.
ModifiedSince == job.version < Mtime /\ Size(written[job.version]) # Size(Current)
Unseen == astray' = (astray \/ job.version < Mtime)

\* update: when it fails, Resource.save tries to write the whole text, unless the
\* token was cancelled: then it returns as if it had saved.
UpdateValidates ==
    /\ Running("save", "update")
    /\ IF ModifiedSince
       THEN /\ Proceed(IF Operation.cancelled THEN "saved" ELSE "validate")
            /\ astray' = (astray \/ Operation.cancelled)
            /\ UNCHANGED job
       ELSE Proceed("patch") /\ Unseen /\ job' = [job EXCEPT !.seen = Mtime]
    /\ UNCHANGED <<file, resource, text, resourceVersion, asked, interrupted, misled>>

\* Another program wrote since the check.
Raced == astray' = (astray \/ job.seen # Mtime)

\* updateFile up to its write: the changes are applied to what the file holds now.
Patch ==
    /\ Running("save", "patch") /\ Proceed("write")
    /\ job' = [job EXCEPT !.content = ApplyAll(Current, job.changes)]
    /\ Raced
    /\ UNCHANGED <<file, resource, text, resourceVersion, asked, interrupted, misled>>

\* writeFile
WriteValidates ==
    /\ Running("save", "validate")
    /\ IF ModifiedSince THEN Proceed("ask") /\ UNCHANGED <<job, astray>>
                        ELSE Proceed("write") /\ Unseen /\ job' = [job EXCEPT !.seen = Mtime]
    /\ UNCHANGED <<file, resource, text, resourceVersion, asked, interrupted, misled>>

\* shouldOverwrite; the second write is not checked.
Overwrite ==
    /\ Running("save", "ask") /\ Proceed("write") /\ job' = [job EXCEPT !.seen = Mtime]
    /\ UNCHANGED <<file, resource, text, resourceVersion, asked, history>>

Refuse ==
    /\ Running("save", "ask") /\ Done
    /\ UNCHANGED <<file, resource, text, resourceVersion, asked, history>>

\* The write of writeFile or of updateFile.
Write ==
    /\ Running("save", "write") /\ Proceed("written")
    /\ written' = Append(written, job.content) /\ changed' = TRUE
    /\ job' = [job EXCEPT !.seen = Mtime + 1]
    /\ Raced
    /\ UNCHANGED <<foreign, resource, text, resourceVersion, asked, interrupted, misled>>

\* Seeded fault: the changes made since the snapshot are dropped with the others.
DropAll == <<>>

Unsaved == SubSeq(changes, Len(job.changes) + 1, Len(changes))

\* The file is looked at once more after it was written, and the rest of doSave.
SaveFinishes ==
    /\ Running("save", "saved") \/ Running("save", "written")
    /\ Done
    /\ version' = IF step = "written" THEN Mtime ELSE version
    /\ resourceVersion' = version'
    /\ changes' = Unsaved
    /\ IF Operation.cancelled /\ alternative # job.alternative
       THEN UNCHANGED <<dirty, saved>>
       ELSE dirty' = FALSE /\ saved' = IF dirty THEN alternative ELSE saved
    /\ astray' = (astray \/ (step = "written" /\ job.seen # Mtime))
    /\ misled' = (misled \/ alternative # job.alternative)
    /\ UNCHANGED <<file, stats, buffer, alternative, edits, undo, asked, interrupted>>
-----------------------------------------------------------------------------
User ==
    \/ \E l \in Lines, t \in Texts : Type(l, t)
    \/ Undo \/ (\E manual \in BOOLEAN : AskToSave(manual)) \/ AskToRevert
    \/ Overwrite \/ Refuse

Program ==
    \/ ChangeArrives \/ (\E t \in stats : CheckSync(t))
    \/ SyncStarts \/ SyncReads \/ SyncStats \/ SyncApplies
    \/ SaveStarts \/ UpdateValidates \/ Patch
    \/ WriteValidates \/ Write \/ SaveFinishes

Next == User \/ (\E doc \in Foreign : ForeignWrite(doc)) \/ Program

Spec == Init /\ [][Next]_vars

\* Promises and the watcher go on; nobody has to type, save, answer or write.
FairSpec == Spec /\ WF_vars(Program)
-----------------------------------------------------------------------------
(* Properties.  The editor is astray once a sync replaced its text while      *)
(* changes were kept or by a text that is not that of the version it took, a  *)
(* save was skipped for its cancelled token, or another program's write went  *)
(* unseen: of the same size, or between a check, a read, a write and the look *)
(* at its result.  It is misled once a save ended after more typing, a revert *)
(* did not get to read, or an undo went behind a sync.  What follows says     *)
(* that nothing else goes wrong.                                              *)

\* The types; a version is one the file has had, and of the operations of a kind only
\* the youngest is not cancelled.
TypeOK ==
    /\ written \in BoundedSeq(Docs, 1 + MaxForeign + MaxRequests) /\ changed \in BOOLEAN
    /\ foreign \in 0 .. MaxForeign /\ asked \in 0 .. MaxRequests
    /\ version \in 1 .. Mtime /\ stats \subseteq 1 .. Mtime /\ resourceVersion \in 1 .. version
    /\ buffer \in Docs /\ saved \in 0 .. edits /\ alternative \in 0 .. edits /\ dirty \in BOOLEAN
    /\ \A i \in DOMAIN undo : undo[i].doc \in Docs /\ undo[i].id \in 0 .. edits
    /\ \A i \in DOMAIN changes : \A l \in DOMAIN changes[i] : l \in Lines /\ changes[i][l] \in Texts
    /\ \A i, j \in DOMAIN queue :
          i < j /\ queue[i].kind = queue[j].kind => queue[i].cancelled
    /\ step \in {"idle", "reading", "stat", "text", "read", "update", "patch", "validate", "ask",
                 "write", "written", "saved"}
    /\ step # "idle" => queue # <<>>
    /\ {astray, misled, interrupted} \subseteq BOOLEAN

\* The changes kept for an incremental save lead from the text of the version it is
\* checked against to the text in the editor.
ChangesLead ==
    ~astray => ApplyAll(written[resourceVersion], changes) = buffer

\* An editor that does not ask to be saved shows the file as it last knew it.
CleanIsKnown ==
    (~astray /\ ~misled /\ ~dirty /\ queue = <<>>) => buffer = written[resourceVersion]

\* A sync replaces only text that the file holds too, unless a revert asked for it.
NoEditLost ==
    [][(step = "read" /\ step' = "idle" /\ buffer' # buffer /\ ~astray /\ ~misled) =>
          Operation.revert \/ buffer = written[resourceVersion]]_vars

\* An editor without changes of its own comes to show what the file holds at last,
\* unless an edit stopped it from doing so, or a question waits for the user.
FollowsFile ==
    (~dirty /\ buffer # Current) ~>
        (buffer = Current \/ dirty \/ interrupted \/ astray \/ misled \/ step = "ask")

\* saveable.spec.js, "normal save": when a save has left the editor clean, the file
\* holds what the model holds.
SavedIsWritten ==
    [][(step \in {"saved", "written"} /\ step' = "idle" /\ ~dirty') =>
          Current = buffer]_vars

\* resource.ts, readStream: "Stream latest content of this resource. If a resource supports
\* versioning it updates version to latest": a text is not older than its version.
ReadIsLatest ==
    step = "read" => \E v \in version .. Mtime : job.content = written[v]
=============================================================================
