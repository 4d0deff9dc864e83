---------------------------- MODULE AgentSession ----------------------------
(***************************************************************************)
(* The agent session of packages/teacher-ui: agent-session-manager.ts (the *)
(* action history, its checkpoints, their copy in sessionStorage) together *)
(* with auto-cap-middleware.ts, which listens to it and calls back into    *)
(* it.  Both are synchronous, so a handler with everything its listeners   *)
(* do is one step.                                                         *)
(*                                                                         *)
(* Every action touches a file of its own, so a checkpoint's fileSnapshot  *)
(* is the set of the ids of the actions it covers.  The plan is left out.  *)
(***************************************************************************)
EXTENDS Naturals, Sequences, FiniteSets

CONSTANTS
    Interval,         \* AUTO_CHECKPOINT_INTERVAL
    MaxPersisted,     \* MAX_PERSISTED_ACTIONS
    Thresholds,       \* values of the preference teacher.agent.autoCapThreshold
    MaxActions,       \* bound: actions recorded in a behaviour
    MaxCheckpoints,   \* bound: checkpoints kept at once
    MaxFaults,        \* bound: writes to sessionStorage that fail
    Absent            \* sessionStorage has no session

ASSUME SessionAssumption ==
    /\ Interval \in Nat \ {0}
    /\ MaxPersisted \in Nat \ {0}
    /\ Thresholds \subseteq Nat \ {0} /\ Thresholds # {}
    /\ MaxActions \in Nat /\ MaxCheckpoints \in Nat /\ MaxFaults \in Nat

VARIABLES
    actions,       \* the history, oldest first: [id, reversible]
    checkpoints,   \* oldest first: [index, files]
    storage,       \* what sessionStorage holds: Absent or [actions, checkpoints]
    paused,
    callCount,     \* AutoCapMiddleware
    threshold,
    enabled,
    nextId,        \* the next action id (a counter and a time in the code)
    faults,        \* failed writes so far
    lagging,       \* history: the last write to sessionStorage failed
    dangling,      \* history: since the session began an undo went below a
                   \* checkpoint, or a reload may have cut the history's front
    since,         \* history: calls counted since the last checkpoint or reload
    ceiling        \* history: the largest threshold in force meanwhile

history == <<actions, checkpoints>>
autoCap == <<callCount, threshold, enabled>>
watch == <<since, ceiling>>
vars == <<history, storage, paused, autoCap, nextId, faults, lagging, dangling, watch>>

Larger(m, n) == IF m < n THEN n ELSE m
-----------------------------------------------------------------------------
Ids(s) == {s[k].id : k \in DOMAIN s}

First(s, n) == SubSeq(s, 1, IF n < Len(s) THEN n ELSE Len(s))

\* createCheckpoint: what it pushes when the history is as.
Here(as) == [index |-> Len(as), files |-> Ids(as)]

\* persistSession: what it writes.
Snapshot(as, cs) ==
    [actions |-> SubSeq(as, IF Len(as) > MaxPersisted THEN Len(as) - MaxPersisted + 1 ELSE 1,
                        Len(as)),
     checkpoints |-> cs]

\* A handler writes these snapshots in turn.  All succeed, or some fail for want
\* of quota, which the code ignores.
Persist(writes) ==
    LET last == writes[Len(writes)]
    IN  \/ storage' = last /\ lagging' = FALSE /\ UNCHANGED faults
        \/ /\ faults < MaxFaults
           /\ faults' = faults + 1
           /\ storage' \in {storage} \cup {writes[k] : k \in 1 .. Len(writes) - 1}
           /\ lagging' = (storage' # last)

Kept == Len(checkpoints') <= MaxCheckpoints

Init ==
    /\ actions = <<>> /\ checkpoints = <<Here(<<>>)>>
    /\ storage = Snapshot(<<>>, <<Here(<<>>)>>)
    /\ paused = FALSE
    /\ callCount = 0 /\ threshold \in Thresholds /\ enabled = TRUE
    /\ nextId = 1 /\ faults = 0
    /\ lagging = FALSE /\ dangling = FALSE
    /\ since = 0 /\ ceiling = threshold
-----------------------------------------------------------------------------
(* AutoCapMiddleware. *)

\* Seeded fault: the cap is due one call late.
DueLate == enabled /\ callCount + 1 > threshold

\* incrementAndCheck: this call makes a checkpoint due.
Due == enabled /\ callCount + 1 >= threshold

\* Seeded fault: triggerAutoCap leaves the counter to the checkpoint listener,
\* which ignores automatic checkpoints.
CountWithoutReset == callCount' = IF enabled THEN callCount + 1 ELSE callCount

\* The counter after the call.
Count ==
    callCount' = IF ~enabled THEN callCount ELSE IF Due THEN 0 ELSE callCount + 1

\* since and ceiling after n checkpoints were made during a call.
Watch(n) ==
    /\ since' = IF n > 0 THEN 0 ELSE IF enabled THEN since + 1 ELSE since
    /\ ceiling' = IF callCount' = 0 THEN threshold ELSE ceiling

\* recordToolCall
RecordToolCall ==
    /\ Count
    /\ IF Due
       THEN /\ checkpoints' = Append(checkpoints, Here(actions))
            /\ Persist(<<Snapshot(actions, checkpoints')>>)
            /\ Watch(1)
       ELSE Watch(0) /\ UNCHANGED <<checkpoints, storage, faults, lagging>>
    /\ Kept
    /\ UNCHANGED <<actions, paused, threshold, enabled, nextId, dangling>>

\* syncThresholdPreference: the counter stays where it is.
SyncThreshold ==
    /\ threshold' \in Thresholds \ {threshold}
    /\ ceiling' = IF callCount = 0 THEN threshold' ELSE Larger(ceiling, threshold')
    /\ UNCHANGED <<history, storage, paused, callCount, enabled, nextId, faults, lagging,
                   dangling, since>>

SetEnabled ==
    /\ enabled' = ~enabled
    /\ UNCHANGED <<history, storage, paused, callCount, threshold, nextId, faults, lagging,
                   dangling, watch>>
-----------------------------------------------------------------------------
(* AgentSessionManager. *)

\* recordAction: the push, the listener's checkpoint when one is due, the
\* periodic checkpoint, the save.  paused is not looked at.
RecordAction ==
    LET periodic == (Len(actions) + 1) % Interval = 0
        n == (IF Due THEN 1 ELSE 0) + (IF periodic THEN 1 ELSE 0)
        made == [k \in 1 .. n |-> Here(actions')]
    IN  /\ nextId <= MaxActions
        /\ nextId' = nextId + 1
        /\ \E r \in BOOLEAN : actions' = Append(actions, [id |-> nextId, reversible |-> r])
        /\ Count /\ Watch(n)
        /\ checkpoints' = checkpoints \o made /\ Kept
        /\ Persist([k \in 1 .. n + 1 |->
              Snapshot(actions', checkpoints \o First(made, k))])
        /\ UNCHANGED <<paused, threshold, enabled, dangling>>

\* createCheckpoint by the user: the listener resets the counter, then the save.
CreateCheckpoint ==
    /\ checkpoints' = Append(checkpoints, Here(actions)) /\ Kept
    /\ Persist(<<Snapshot(actions, checkpoints')>>)
    /\ callCount' = 0 /\ since' = 0 /\ ceiling' = threshold
    /\ UNCHANGED <<actions, paused, threshold, enabled, nextId, dangling>>

\* Seeded fault: later checkpoints survive the rewind.
RewindKeepingCheckpoints(k) ==
    /\ actions' = First(actions, checkpoints[k].index)
    /\ UNCHANGED checkpoints
    /\ Persist(<<Snapshot(actions', checkpoints')>>)
    /\ UNCHANGED <<paused, autoCap, nextId, dangling, watch>>

\* rewindTo a checkpoint that still exists
RewindTo(k) ==
    /\ actions' = First(actions, checkpoints[k].index)
    /\ checkpoints' = First(checkpoints, k)
    /\ Persist(<<Snapshot(actions', checkpoints')>>)
    /\ UNCHANGED <<paused, autoCap, nextId, dangling, watch>>

Rewind == \E k \in DOMAIN checkpoints : RewindTo(k)

\* The checkpoints of cs do not all lie within as.
Overhangs(as, cs) == \E k \in DOMAIN cs : cs[k].index > Len(as)

\* Seeded fault: the undo is not saved.
UndoUnsaved ==
    /\ actions # <<>>
    /\ actions[Len(actions)].reversible
    /\ actions' = First(actions, Len(actions) - 1)
    /\ dangling' = (dangling \/ Overhangs(actions', checkpoints))
    /\ UNCHANGED <<checkpoints, storage, paused, autoCap, nextId, faults, lagging, watch>>

\* undoLastAction: the checkpoints stay as they are.
UndoLastAction ==
    /\ actions # <<>>
    /\ actions[Len(actions)].reversible
    /\ actions' = First(actions, Len(actions) - 1)
    /\ dangling' = (dangling \/ Overhangs(actions', checkpoints))
    /\ Persist(<<Snapshot(actions', checkpoints)>>)
    /\ UNCHANGED <<checkpoints, paused, autoCap, nextId, watch>>

Pause == paused' = TRUE /\ UNCHANGED <<history, storage, autoCap, nextId, faults, lagging,
                                        dangling, watch>>
Resume == paused' = FALSE /\ UNCHANGED <<history, storage, autoCap, nextId, faults, lagging,
                                          dangling, watch>>

\* clearSession: "Session Start" is saved like every checkpoint (and resets the
\* counter), and then the stored session is removed.
ClearSession ==
    /\ actions' = <<>> /\ checkpoints' = <<Here(<<>>)>>
    /\ storage' = Absent /\ lagging' = FALSE /\ dangling' = FALSE
    /\ paused' = FALSE
    /\ callCount' = 0 /\ since' = 0 /\ ceiling' = threshold
    /\ UNCHANGED <<threshold, enabled, nextId, faults>>

\* The window is reloaded: init and restoreSession, then the middleware starts
\* anew with the preference as it is.
Reload ==
    /\ IF storage = Absent
       THEN /\ actions' = <<>> /\ checkpoints' = <<Here(<<>>)>>
            /\ Persist(<<Snapshot(<<>>, checkpoints')>>)
       ELSE /\ actions' = storage.actions /\ checkpoints' = storage.checkpoints
            /\ lagging' = FALSE
            /\ UNCHANGED <<storage, faults>>
    /\ dangling' = (dangling \/ Len(actions') = MaxPersisted)
    /\ paused' = FALSE /\ enabled' = TRUE
    /\ callCount' = 0 /\ since' = 0 /\ ceiling' = threshold
    /\ UNCHANGED <<threshold, nextId>>

Next ==
    \/ RecordToolCall \/ SyncThreshold \/ SetEnabled
    \/ RecordAction \/ CreateCheckpoint \/ Rewind \/ UndoLastAction
    \/ Pause \/ Resume \/ ClearSession \/ Reload

Spec == Init /\ [][Next]_vars
-----------------------------------------------------------------------------
(* Properties. *)

Action == [id : 1 .. MaxActions, reversible : BOOLEAN]
Checkpoint == [index : 0 .. MaxActions, files : SUBSET (1 .. MaxActions)]

\* Every variable has its type; in particular the counter stays below the
\* largest threshold that was in force while it counted, and a stored session
\* is never empty.
TypeOK ==
    /\ actions \in Seq(Action)
    /\ checkpoints \in Seq(Checkpoint) /\ checkpoints # <<>>
    /\ storage # Absent =>
          /\ storage.actions \in Seq(Action) /\ Len(storage.actions) <= MaxPersisted
          /\ storage.checkpoints \in Seq(Checkpoint) /\ storage.checkpoints # <<>>
    /\ callCount \in 0 .. ceiling - 1
    /\ threshold \in Thresholds
    /\ {paused, enabled, lagging, dangling} \subseteq BOOLEAN
    /\ nextId \in 1 .. MaxActions + 1
    /\ faults \in 0 .. MaxFaults
    /\ since \in Nat /\ ceiling \in Thresholds

\* Unless an undo went below a checkpoint or a reload cut the history, every
\* checkpoint is a place in the history: it covers exactly the first index
\* actions, and the checkpoints come in the order of the history -- through
\* rewinds, reloads and checkpoints the middleware makes in the midst of a
\* recording.
CheckpointsDescribeHistory ==
    ~dangling =>
        /\ \A k \in DOMAIN checkpoints :
              /\ checkpoints[k].index <= Len(actions)
              /\ checkpoints[k].files = Ids(First(actions, checkpoints[k].index))
        /\ \A j, k \in DOMAIN checkpoints :
              j < k => checkpoints[j].index <= checkpoints[k].index

\* "Session persistence across browser refreshes": unless its last write failed,
\* a reload brings the session back as far as MAX_PERSISTED_ACTIONS lets it.
ReloadRestores ==
    ~lagging =>
        \/ storage = Snapshot(actions, checkpoints)
        \/ storage = Absent /\ actions = <<>> /\ checkpoints = <<Here(<<>>)>>

\* "Forced checkpoint after N tool calls": between two reloads no run of counted
\* calls without a checkpoint reaches every threshold that was in force during
\* it, whoever makes the checkpoints.
AutoCapForces == since < ceiling

\* "Rewind to a checkpoint -- truncates action history after that point": every
\* action left after the rewind was there when the checkpoint was made.
RewindTruncates ==
    [][\A k \in DOMAIN checkpoints :
          RewindTo(k) => Ids(actions') \subseteq checkpoints[k].files]_vars
=============================================================================
