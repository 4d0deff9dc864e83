------------------------- MODULE CheckpointTimeline -------------------------
(***************************************************************************)
(* Rewinding in the workbench of packages/teacher-core/src/browser: the    *)
(* ghost timeline (timeline-service.ts), the checkpoints                   *)
(* (checkpoint-service.ts), the commands and widgets that drive them, and  *)
(* the part of teacher-orchestrator.ts that closes the loop: a rewind adds *)
(* a clip, a clip changes the timeline, a change makes a checkpoint.       *)
(*                                                                         *)
(* Everything is synchronous: a user's gesture with all it sets off is one *)
(* step, written as a function of the workbench's state.  The text of a    *)
(* file is a version number; a later edit has a larger one.                *)
(***************************************************************************)
EXTENDS Naturals, SequencesExt

CONSTANTS
    Files,
    MaxCheckpoints,   \* MAX_CHECKPOINTS
    MaxVersion,       \* bound: edits
    MaxId,            \* bound: checkpoints made in a behaviour
    MaxClips,         \* bound: clips
    MaxClock,         \* bound: time
    None              \* currentCheckpointId is undefined

ASSUME WorkbenchAssumption ==
    /\ MaxCheckpoints \in Nat \ {0}
    /\ MaxVersion \in Nat /\ MaxId \in Nat /\ MaxClips \in Nat /\ MaxClock \in Nat
    /\ None \notin Nat

VARIABLES
    text,          \* what each file reads
    version,       \* the version of the last edit
    open,          \* the files that have an editor
    clips,         \* the timeline, oldest first: [time, muted]
    checkpoints,   \* newest first: [id, kind, time, texts]
    current,       \* currentCheckpointId
    nextId,        \* idCounter
    now            \* Date.now()

vars == <<text, version, open, clips, checkpoints, current, nextId, now>>

Init ==
    /\ text = [f \in Files |-> 0] /\ version = 0
    /\ open = Files
    /\ clips = <<>> /\ checkpoints = <<>>
    /\ current = None /\ nextId = 1
    /\ now = 0
-----------------------------------------------------------------------------
(* What the services do to the workbench's state w. *)

State == [text |-> text, clips |-> clips, checkpoints |-> checkpoints,
          current |-> current, nextId |-> nextId]

Becomes(w) ==
    /\ Len(w.clips) <= MaxClips /\ w.nextId <= MaxId + 1
    /\ text' = w.text /\ clips' = w.clips /\ checkpoints' = w.checkpoints
    /\ current' = w.current /\ nextId' = w.nextId
    /\ UNCHANGED <<version, open, now>>

Autos(cps) == {k \in DOMAIN cps : cps[k].kind = "auto"}

\* Seeded fault: with no automatic checkpoint to remove nothing is removed.
PruneAutosOnly(cps) ==
    IF Len(cps) <= MaxCheckpoints \/ Autos(cps) = {} THEN cps
    ELSE RemoveAt(cps, Max(Autos(cps)))

\* Seeded fault: of the automatic checkpoints before the new one the newest goes.
PruneNewest(cps) ==
    IF Len(cps) <= MaxCheckpoints THEN cps
    ELSE RemoveAt(cps, IF Autos(cps) = {} THEN Len(cps)
                       ELSE IF Autos(cps) = {1} THEN 1 ELSE Min(Autos(cps) \ {1}))

\* prune, of a list at most one too long: the oldest automatic checkpoint goes,
\* or the oldest of all.
Prune(cps) ==
    IF Len(cps) <= MaxCheckpoints THEN cps
    ELSE RemoveAt(cps, IF Autos(cps) = {} THEN Len(cps) ELSE Max(Autos(cps)))

\* captureOpenEditors
Captured(w) == [f \in open |-> w.text[f]]

\* Seeded fault: the new checkpoint goes to the end of the list.
CheckpointPushed(w, kind) ==
    LET new == [id |-> w.nextId, kind |-> kind, time |-> now, texts |-> Captured(w)]
    IN  [w EXCEPT !.checkpoints = Prune(Append(@, new)),
                  !.current = new.id, !.nextId = @ + 1]

\* createCheckpoint: the new checkpoint is at the head and is the current one,
\* even if prune takes it away again.
Checkpoint(w, kind) ==
    LET new == [id |-> w.nextId, kind |-> kind, time |-> now, texts |-> Captured(w)]
    IN  [w EXCEPT !.checkpoints = Prune(<<new>> \o @),
                  !.current = new.id, !.nextId = @ + 1]

\* CheckpointService.init: the timeline changed.
Changed(w) ==
    IF w.clips # <<>> /\ ~w.clips[Len(w.clips)].muted THEN Checkpoint(w, "auto") ELSE w

\* addClip
Clipped(w) == Changed([w EXCEPT !.clips = Append(@, [time |-> now, muted |-> FALSE])])

\* muteClip of a clip that is not muted, unmuteClip of one that is
Muted(w, k) ==
    IF w.clips[k].muted THEN w ELSE Changed([w EXCEPT !.clips[k].muted = TRUE])
Unmuted(w, k) == Changed([w EXCEPT !.clips[k].muted = FALSE])

\* The text of a file that is open now and was when checkpoint c was made.
Restored(w, c) ==
    [f \in Files |-> IF f \in open /\ f \in DOMAIN c.texts THEN c.texts[f] ELSE w.text[f]]

\* Seeded fault: nobody is told of the rewind.
RewoundSilently(w, c) == [w EXCEPT !.text = Restored(w, c), !.current = c.id]

\* rewindTo: the open editors are restored, c is current, and the orchestrator
\* answers onDidRewind with a clip.
Rewound(w, c) == Clipped([w EXCEPT !.text = Restored(w, c), !.current = c.id])

\* revertToCheckpointBefore: the first in the list that is older than the clip.
Older(w, clip) == {k \in DOMAIN w.checkpoints : w.checkpoints[k].time < clip.time}
Reverted(w, clip) ==
    IF Older(w, clip) = {} THEN w ELSE Rewound(w, w.checkpoints[Min(Older(w, clip))])
-----------------------------------------------------------------------------
(* What the user and the agents do. *)

Edit(f) ==
    /\ f \in open /\ version < MaxVersion
    /\ version' = version + 1
    /\ text' = [text EXCEPT ![f] = version + 1]
    /\ UNCHANGED <<open, clips, checkpoints, current, nextId, now>>

\* An editor is opened or closed; what it shows is saved.
OpenOrClose(f) ==
    /\ open' = IF f \in open THEN open \ {f} ELSE open \cup {f}
    /\ UNCHANGED <<text, version, clips, checkpoints, current, nextId, now>>

\* An agent's action, a lesson or a handoff is put on the timeline.
AgentActs == Becomes(Clipped(State))

\* From the rewind panel, or by the command; unnamed, the command makes an
\* automatic one.
CreateCheckpoint(kind) == Becomes(Checkpoint(State, kind))

RewindTo(k) == Becomes(Rewound(State, checkpoints[k]))

\* The command teacher.rewindLast: to the checkpoint after the current one in the
\* list, which is newest first.
RewindLast ==
    \E k \in DOMAIN checkpoints :
        /\ k > 1
        /\ current = None \/ checkpoints[k - 1].id = current
        /\ current = None => k = 2
        /\ RewindTo(k)

ToggleMute(k) ==
    \/ clips[k].muted /\ Becomes(Unmuted(State, k))
    \/ ~clips[k].muted /\ Becomes(Reverted(Muted(State, k), clips[k]))

\* handleUndoAllSince
UndoAllSince(k) ==
    LET later == [j \in 1 .. Len(clips) - k |-> k + j]
    IN  Becomes(Reverted(FoldLeft(Muted, State, later), clips[k]))

\* handlePlayheadMouseDown: a mouse move.  The position of the playhead is not
\* kept; that it moved is a change.
SetPlayhead == Len(clips) >= 2 /\ Becomes(Changed(State))

Tick ==
    /\ now < MaxClock
    /\ now' = now + 1
    /\ UNCHANGED <<text, version, open, clips, checkpoints, current, nextId>>

Rewind == \E k \in DOMAIN checkpoints : RewindTo(k)

Next ==
    \/ \E f \in Files : Edit(f) \/ OpenOrClose(f)
    \/ AgentActs
    \/ \E kind \in {"auto", "manual"} : CreateCheckpoint(kind)
    \/ Rewind \/ RewindLast
    \/ \E k \in DOMAIN clips : ToggleMute(k) \/ UndoAllSince(k)
    \/ SetPlayhead
    \/ Tick

Spec == Init /\ [][Next]_vars
-----------------------------------------------------------------------------
(* Properties. *)

Clip == [time : Nat, muted : BOOLEAN]

\* Every variable has its type, and the list of checkpoints its limit.
TypeOK ==
    /\ version \in 0 .. MaxVersion
    /\ text \in [Files -> 0 .. version]
    /\ open \subseteq Files
    /\ clips \in Seq(Clip) /\ Len(clips) <= MaxClips
    /\ Len(checkpoints) <= MaxCheckpoints
    /\ \A k \in DOMAIN checkpoints :
          LET c == checkpoints[k]
          IN  /\ c.id \in 1 .. nextId - 1 /\ c.kind \in {"auto", "manual"}
              /\ c.time \in 0 .. now
              /\ DOMAIN c.texts \subseteq Files
              /\ \A f \in DOMAIN c.texts : c.texts[f] \in 0 .. version
    /\ current \in 1 .. nextId - 1 \cup {None}
    /\ nextId \in 1 .. MaxId + 1
    /\ now \in 0 .. MaxClock

\* The list stays newest first, so that the first checkpoint older than a clip
\* is the last one made before it.
NewestFirst ==
    \A j, k \in DOMAIN checkpoints :
        j < k => /\ checkpoints[j].id > checkpoints[k].id
                 /\ checkpoints[j].time >= checkpoints[k].time

\* The panel marks the newest checkpoint as the current one -- after a rewind
\* too -- unless the list is full of manual checkpoints and the newest was
\* pruned at once.
CurrentIsNewest ==
    \/ checkpoints = <<>> /\ current = None
    \/ checkpoints # <<>> /\ current = checkpoints[1].id
    \/ Len(checkpoints) = MaxCheckpoints /\ Autos(checkpoints) = {}

\* "Oldest auto-checkpoints are pruned first; manual checkpoints are never pruned"
\* (checkpoint-service.ts).  The first half is what prune does: a manual checkpoint
\* disappears only when no automatic one is left, however many checkpoints one gesture
\* makes.  The second half its last branch contradicts: then the oldest one goes.
ManualsGoLast ==
    [][\A k \in DOMAIN checkpoints :
          (/\ checkpoints[k].kind = "manual"
           /\ \A j \in DOMAIN checkpoints' : checkpoints'[j] # checkpoints[k])
             => Autos(checkpoints') = {}]_vars

\* A checkpoint holds x as the text of file f.
Holds(c, f, x) == f \in DOMAIN c.texts /\ c.texts[f] = x

\* How far the service "can restore any previous state" (checkpoint-service.ts): a text
\* that the newest checkpoint holds can be restored after any gesture, a rewind with
\* the checkpoints it sets off included, unless manual ones leave room for one
\* automatic checkpoint at most.  (What was typed since the newest checkpoint is
\* overwritten by a rewind and held by none.)
NewestSurvives ==
    [][\A f \in open :
          (checkpoints # <<>> /\ Holds(checkpoints[1], f, text[f])) =>
              \/ \E k \in DOMAIN checkpoints' : Holds(checkpoints'[k], f, text[f])
              \/ \A j, k \in Autos(checkpoints') : j = k]_vars
=============================================================================
