------------------------ MODULE AgentSession_proofs ------------------------
(***************************************************************************)
(* What holds of an agent session for every interval, limit and set of     *)
(* thresholds: the cap forces a checkpoint, the checkpoints describe the   *)
(* history, and a reload restores what was saved last.                     *)
(***************************************************************************)
EXTENDS AgentSession, SequenceTheorems, TLAPS

(* The cap. *)

\* The counter runs ahead of the calls since the last checkpoint, and stays below
\* the largest threshold in force since it was reset.
CapInv ==
    /\ callCount \in Nat /\ since \in Nat
    /\ threshold \in Thresholds /\ ceiling \in Thresholds
    /\ enabled \in BOOLEAN
    /\ since <= callCount /\ callCount < ceiling /\ threshold <= ceiling

LEMMA CountedCap ==
    ASSUME CapInv, NEW n \in Nat, Count, Watch(n), UNCHANGED <<threshold, enabled>>,
           Due => n > 0
    PROVE  CapInv'
<1>1. Thresholds \subseteq Nat \ {0} BY SessionAssumption
<1>2. CASE ~enabled BY <1>1, <1>2 DEF CapInv, Count, Watch
<1>3. CASE enabled /\ Due BY <1>1, <1>3 DEF CapInv, Count, Watch
<1>4. CASE enabled /\ ~Due
  <2>1. callCount' = callCount + 1 /\ callCount + 1 < threshold
    BY <1>1, <1>4 DEF Count, Due, CapInv
  <2> QED BY <1>1, <1>4, <2>1 DEF CapInv, Watch
<1> QED BY <1>2, <1>3, <1>4 DEF CapInv

LEMMA ResetCap ==
    ASSUME CapInv, callCount' = 0, since' = 0, ceiling' = threshold, threshold' = threshold,
           enabled' \in BOOLEAN
    PROVE  CapInv'
BY SessionAssumption DEF CapInv

LEMMA NextCap == CapInv /\ [Next]_vars => CapInv'
<1> SUFFICES ASSUME CapInv, [Next]_vars PROVE CapInv' OBVIOUS
<1>1. Thresholds \subseteq Nat \ {0} BY SessionAssumption
<1>2. CASE RecordToolCall
  <2>1. CASE Due BY <1>2, <2>1, CountedCap DEF RecordToolCall
  <2>2. CASE ~Due BY <1>2, <2>2, CountedCap DEF RecordToolCall
  <2> QED BY <2>1, <2>2
<1>3. CASE SyncThreshold BY <1>1, <1>3 DEF SyncThreshold, CapInv, Larger
<1>4. CASE SetEnabled BY <1>4 DEF SetEnabled, CapInv, watch
<1>5. CASE RecordAction
  <2> DEFINE periodic == (Len(actions) + 1) % Interval = 0
             n == (IF Due THEN 1 ELSE 0) + (IF periodic THEN 1 ELSE 0)
  <2>1. n \in Nat /\ (Due => n > 0) OBVIOUS
  <2>2. Count /\ Watch(n) /\ UNCHANGED <<threshold, enabled>> BY <1>5 DEF RecordAction
  <2> HIDE DEF n
  <2> QED BY <2>1, <2>2, CountedCap
<1>6. CASE CreateCheckpoint BY <1>6, ResetCap DEF CreateCheckpoint, CapInv
<1>7. CASE ClearSession BY <1>7, ResetCap DEF ClearSession, CapInv
<1>8. CASE Reload BY <1>8, ResetCap DEF Reload
<1>9. CASE Rewind \/ UndoLastAction \/ Pause \/ Resume \/ UNCHANGED vars
  BY <1>9 DEF Rewind, RewindTo, UndoLastAction, Pause, Resume, vars, autoCap, watch, CapInv
<1> QED BY <1>2, <1>3, <1>4, <1>5, <1>6, <1>7, <1>8, <1>9 DEF Next

\* Between two reloads a run of counted calls without a checkpoint stays below the
\* largest threshold that was in force during it.
THEOREM AutoCapForcesHolds == Spec => []AutoCapForces
<1>1. Init => CapInv BY SessionAssumption DEF Init, CapInv
<1>2. CapInv => AutoCapForces BY SessionAssumption DEF CapInv, AutoCapForces
<1> QED BY <1>1, <1>2, NextCap, PTL DEF Spec
-----------------------------------------------------------------------------
(* Sequences. *)

LEMMA FirstProperties ==
    ASSUME NEW S, NEW s \in Seq(S), NEW n \in Nat, n <= Len(s)
    PROVE  /\ First(s, n) \in Seq(S) /\ Len(First(s, n)) = n
           /\ \A k \in 1 .. n : First(s, n)[k] = s[k]
           /\ Ids(First(s, n)) = {s[k].id : k \in 1 .. n}
<1>1. First(s, n) = SubSeq(s, 1, n) BY DEF First
<1>2. First(s, n) \in Seq(S) /\ Len(First(s, n)) = n BY <1>1
<1>3. \A k \in 1 .. n : First(s, n)[k] = s[k] BY <1>1
<1>4. DOMAIN First(s, n) = 1 .. n BY <1>2
<1> QED BY <1>2, <1>3, <1>4 DEF Ids

\* c covers the first actions of as.
Covers(c, acts) ==
    c.index <= Len(acts) /\ c.files = {acts[k].id : k \in 1 .. c.index}

\* Each of cs covers the first actions of acts, and they come in order.
Describes(acts, cs) ==
    /\ \A k \in DOMAIN cs : Covers(cs[k], acts)
    /\ \A j, k \in DOMAIN cs : j < k => cs[j].index <= cs[k].index

\* A history and its checkpoints, when fewer than n actions have been recorded.
Typed(acts, cs, n) ==
    acts \in Seq(Action) /\ Len(acts) < n /\ cs \in Seq(Checkpoint) /\ cs # <<>>

LEMMA HereTyped ==
    ASSUME NEW acts \in Seq(Action), Len(acts) <= MaxActions
    PROVE  Here(acts) \in Checkpoint /\ Covers(Here(acts), acts) /\ Here(acts).index = Len(acts)
<1>1. Len(acts) \in 0 .. MaxActions /\ DOMAIN acts = 1 .. Len(acts)
  BY SessionAssumption
<1>2. Ids(acts) = {acts[k].id : k \in 1 .. Len(acts)} BY <1>1 DEF Ids
<1>3. \A k \in 1 .. Len(acts) : acts[k] \in Action BY <1>1
<1>4. \A k \in 1 .. Len(acts) : acts[k].id \in 1 .. MaxActions BY <1>3 DEF Action
<1> QED BY <1>1, <1>2, <1>4 DEF Here, Checkpoint, Covers

LEMMA Indices ==
    ASSUME NEW cs \in Seq(Checkpoint), NEW k \in DOMAIN cs
    PROVE  cs[k].index \in Nat
<1>1. cs[k] \in Checkpoint OBVIOUS
<1> QED BY <1>1 DEF Checkpoint

\* One more action leaves the places of the checkpoints acts they are.
LEMMA DescribesMore ==
    ASSUME NEW acts \in Seq(Action), NEW cs \in Seq(Checkpoint), NEW a \in Action,
           Describes(acts, cs)
    PROVE  Describes(Append(acts, a), cs)
<1>1. Len(acts) \in Nat /\ Len(Append(acts, a)) = Len(acts) + 1
      /\ \A k \in 1 .. Len(acts) : Append(acts, a)[k] = acts[k]
  BY AppendProperties
<1>2. ASSUME NEW k \in DOMAIN cs PROVE Covers(cs[k], Append(acts, a))
  <2>1. cs[k].index \in Nat BY Indices
  <2>2. cs[k].index <= Len(acts) /\ cs[k].files = {acts[j].id : j \in 1 .. cs[k].index}
    BY DEF Describes, Covers
  <2>3. \A j \in 1 .. cs[k].index : Append(acts, a)[j].id = acts[j].id BY <1>1, <2>1, <2>2
  <2>4. {Append(acts, a)[j].id : j \in 1 .. cs[k].index} = cs[k].files BY <2>2, <2>3
  <2> QED BY <1>1, <2>1, <2>2, <2>4 DEF Covers
<1> QED BY <1>2 DEF Describes

\* A checkpoint made here, or several at once.
LEMMA DescribesHere ==
    ASSUME NEW acts \in Seq(Action), NEW cs \in Seq(Checkpoint), Len(acts) <= MaxActions,
           NEW made \in Seq(Checkpoint), \A k \in DOMAIN made : made[k] = Here(acts),
           Describes(acts, cs)
    PROVE  Describes(acts, cs \o made)
<1>1. Covers(Here(acts), acts) /\ Here(acts).index = Len(acts) BY HereTyped
<1>2. /\ Len(cs) \in Nat /\ DOMAIN cs = 1 .. Len(cs)
      /\ DOMAIN made = 1 .. Len(made) /\ Len(made) \in Nat
      /\ DOMAIN (cs \o made) = 1 .. Len(cs) + Len(made)
      /\ \A k \in 1 .. Len(cs) + Len(made) :
            (cs \o made)[k] = IF k <= Len(cs) THEN cs[k] ELSE made[k - Len(cs)]
  BY ConcatProperties
<1>3. \A k \in DOMAIN (cs \o made) :
         \/ k \in DOMAIN cs /\ (cs \o made)[k] = cs[k]
         \/ k > Len(cs) /\ (cs \o made)[k] = Here(acts)
  <2> SUFFICES ASSUME NEW k \in 1 .. Len(cs) + Len(made), k > Len(cs)
               PROVE  (cs \o made)[k] = Here(acts)
    BY <1>2
  <2>1. k - Len(cs) \in DOMAIN made BY <1>2
  <2> QED BY <1>2, <2>1
<1>4. \A k \in DOMAIN cs : cs[k].index <= Len(acts) BY DEF Describes, Covers
<1>5. ASSUME NEW j \in DOMAIN (cs \o made), NEW k \in DOMAIN (cs \o made), j < k
      PROVE  (cs \o made)[j].index <= (cs \o made)[k].index
  <2>1. Len(acts) \in Nat OBVIOUS
  <2>2. CASE k > Len(cs) /\ (cs \o made)[k] = Here(acts) BY <1>1, <1>3, <1>4, <2>1, <2>2
  <2>3. CASE k \in DOMAIN cs /\ (cs \o made)[k] = cs[k]
    <3>1. j \in DOMAIN cs BY <1>2, <1>5, <2>3
    <3>2. (cs \o made)[j] = cs[j] BY <1>2, <3>1
    <3> QED BY <1>5, <2>3, <3>1, <3>2 DEF Describes
  <2> QED BY <1>3, <2>2, <2>3
<1>6. \A k \in DOMAIN (cs \o made) : Covers((cs \o made)[k], acts) BY <1>1, <1>3 DEF Describes
<1> QED BY <1>5, <1>6 DEF Describes

\* What a shorter history has room for it describes.
LEMMA DescribesLess ==
    ASSUME NEW acts \in Seq(Action), NEW cs \in Seq(Checkpoint), NEW n \in Nat, n <= Len(acts),
           Describes(acts, cs), \A k \in DOMAIN cs : cs[k].index <= n
    PROVE  Describes(First(acts, n), cs)
<1>1. Len(First(acts, n)) = n /\ \A k \in 1 .. n : First(acts, n)[k] = acts[k]
  BY FirstProperties
<1>2. ASSUME NEW k \in DOMAIN cs PROVE Covers(cs[k], First(acts, n))
  <2>1. cs[k].index \in Nat BY Indices
  <2>2. cs[k].index <= n /\ cs[k].files = {acts[j].id : j \in 1 .. cs[k].index}
    BY DEF Describes, Covers
  <2>3. \A j \in 1 .. cs[k].index : First(acts, n)[j].id = acts[j].id BY <1>1, <2>1, <2>2
  <2>4. {First(acts, n)[j].id : j \in 1 .. cs[k].index} = cs[k].files BY <2>2, <2>3
  <2> QED BY <1>1, <2>2, <2>4 DEF Covers
<1> QED BY <1>2 DEF Describes

\* A rewind keeps the checkpoints up to the one it goes to.
LEMMA DescribesRewound ==
    ASSUME NEW acts \in Seq(Action), NEW cs \in Seq(Checkpoint), NEW k \in DOMAIN cs,
           Describes(acts, cs)
    PROVE  Describes(First(acts, cs[k].index), First(cs, k))
<1>1. /\ cs[k].index \in Nat /\ cs[k].index <= Len(acts)
      /\ k \in Nat /\ k <= Len(cs) /\ DOMAIN cs = 1 .. Len(cs) /\ Len(cs) \in Nat
  BY Indices DEF Describes, Covers
<1>2. /\ First(cs, k) \in Seq(Checkpoint) /\ DOMAIN First(cs, k) = 1 .. k
      /\ \A j \in 1 .. k : First(cs, k)[j] = cs[j]
  <2>1. /\ First(cs, k) \in Seq(Checkpoint) /\ Len(First(cs, k)) = k
        /\ \A j \in 1 .. k : First(cs, k)[j] = cs[j]
    BY <1>1, FirstProperties, Zenon
  <2> QED BY <2>1
<1>3. Describes(acts, First(cs, k))
  <2>1. \A j \in 1 .. k : j \in DOMAIN cs /\ First(cs, k)[j] = cs[j] BY <1>1, <1>2
  <2>2. \A j \in DOMAIN First(cs, k) : Covers(First(cs, k)[j], acts)
    BY <1>2, <2>1 DEF Describes
  <2>3. ASSUME NEW i \in 1 .. k, NEW j \in 1 .. k, i < j
        PROVE  First(cs, k)[i].index <= First(cs, k)[j].index
    BY <2>1, <2>3 DEF Describes
  <2> QED BY <1>2, <2>2, <2>3 DEF Describes
<1>4. \A j \in DOMAIN First(cs, k) : First(cs, k)[j].index <= cs[k].index
  <2> SUFFICES ASSUME NEW j \in 1 .. k PROVE cs[j].index <= cs[k].index BY <1>2
  <2>1. CASE j = k BY <1>1, <2>1
  <2>2. CASE j < k BY <1>1, <2>2 DEF Describes
  <2> QED BY <1>1, <2>1, <2>2
<1> QED BY <1>1, <1>2, <1>3, <1>4, DescribesLess
-----------------------------------------------------------------------------
(* The session and its copy. *)

Sessions == [actions : Seq(Action), checkpoints : Seq(Checkpoint)]

\* A copy of the session when fewer than n actions have been recorded.
Copy(s, n) ==
    /\ s \in Sessions /\ s.checkpoints # <<>>
    /\ Len(s.actions) <= MaxPersisted /\ Len(s.actions) < n

\* Its checkpoints describe it unless it may have been cut.
CopyDescribes(s) ==
    Len(s.actions) < MaxPersisted => Describes(s.actions, s.checkpoints)

LEMMA SnapshotTyped ==
    ASSUME NEW n \in Nat, NEW acts, NEW cs, Typed(acts, cs, n)
    PROVE  /\ Copy(Snapshot(acts, cs), n)
           /\ Snapshot(acts, cs).checkpoints = cs
           /\ Len(acts) <= MaxPersisted => Snapshot(acts, cs).actions = acts
           /\ Len(acts) > MaxPersisted => Len(Snapshot(acts, cs).actions) = MaxPersisted
<1>1. /\ acts \in Seq(Action) /\ Len(acts) \in Nat /\ Len(acts) < n
      /\ cs \in Seq(Checkpoint) /\ cs # <<>>
      /\ MaxPersisted \in Nat \ {0}
  BY SessionAssumption DEF Typed
<1> DEFINE kept == SubSeq(acts, IF Len(acts) > MaxPersisted THEN Len(acts) - MaxPersisted + 1
                                ELSE 1, Len(acts))
<1>2. CASE Len(acts) > MaxPersisted
  <2>1. kept \in Seq(Action) /\ Len(kept) = MaxPersisted BY <1>1, <1>2
  <2> QED BY <1>1, <1>2, <2>1 DEF Snapshot, Copy, Sessions
<1>3. CASE Len(acts) <= MaxPersisted
  <2>1. kept = SubSeq(acts, 1, Len(acts))
    <3>1. ~(Len(acts) > MaxPersisted) BY <1>1, <1>3
    <3> QED BY <3>1, Zenon
  <2>2. SubSeq(acts, 1, Len(acts)) = acts BY <1>1, SubSeqFull
  <2>3. kept = acts BY <2>1, <2>2
  <2> HIDE DEF kept
  <2>4. Snapshot(acts, cs) = [actions |-> kept, checkpoints |-> cs] BY DEF Snapshot, kept
  <2> QED BY <1>1, <1>3, <2>3, <2>4 DEF Copy, Sessions
<1> QED BY <1>1, <1>2, <1>3

LEMMA SnapshotDescribes ==
    ASSUME NEW n \in Nat, NEW acts, NEW cs, Typed(acts, cs, n), Describes(acts, cs)
    PROVE  CopyDescribes(Snapshot(acts, cs))
<1>1. Len(acts) \in Nat /\ MaxPersisted \in Nat BY SessionAssumption DEF Typed
<1> QED BY <1>1, SnapshotTyped DEF CopyDescribes

SessionInv ==
    /\ nextId \in 1 .. MaxActions + 1
    /\ Typed(actions, checkpoints, nextId)
    /\ storage # Absent => Copy(storage, nextId)
    /\ faults \in 0 .. MaxFaults
    /\ {paused, lagging, dangling} \subseteq BOOLEAN
    /\ ~lagging => \/ storage = Snapshot(actions, checkpoints)
                   \/ storage = Absent /\ actions = <<>> /\ checkpoints = <<Here(<<>>)>>
    /\ ~dangling => /\ Describes(actions, checkpoints)
                    /\ storage # Absent => CopyDescribes(storage)

\* A handler that ends with a save, whatever of it reaches the storage.
LEMMA Saved ==
    ASSUME SessionInv, nextId' \in 1 .. MaxActions + 1, nextId <= nextId',
           NEW writes, Len(writes) \in Nat \ {0}, Persist(writes),
           writes[Len(writes)] = Snapshot(actions', checkpoints'),
           \A k \in 1 .. Len(writes) : \E cs :
              /\ writes[k] = Snapshot(actions', cs)
              /\ Typed(actions', cs, nextId')
              /\ ~dangling' => Describes(actions', cs),
           Typed(actions', checkpoints', nextId'),
           ~dangling' => ~dangling /\ Describes(actions', checkpoints'),
           dangling' \in BOOLEAN, paused' \in BOOLEAN
    PROVE  SessionInv'
<1>1. /\ \/ storage' = storage
         \/ \E k \in 1 .. Len(writes) : storage' = writes[k]
      /\ ~lagging' => storage' = writes[Len(writes)]
      /\ lagging' \in BOOLEAN
  <2> DEFINE last == Len(writes)
  <2>1. last \in 1 .. Len(writes) BY SMT
  <2>2. CASE storage' = writes[last] /\ lagging' = FALSE BY <2>1, <2>2
  <2>3. CASE /\ storage' \in {storage} \cup {writes[k] : k \in 1 .. last - 1}
             /\ lagging' = (storage' # writes[last])
    <3>1. storage' = storage \/ \E k \in 1 .. last - 1 : storage' = writes[k] BY <2>3
    <3>2. 1 .. last - 1 \subseteq 1 .. Len(writes) BY <2>1
    <3> QED BY <2>3, <3>1, <3>2, Zenon
  <2> QED BY <2>2, <2>3 DEF Persist
<1>2. faults' \in 0 .. MaxFaults BY SessionAssumption DEF Persist, SessionInv
<1>3. nextId \in Nat /\ nextId' \in Nat BY SessionAssumption DEF SessionInv
<1>4. ASSUME NEW k \in 1 .. Len(writes)
      PROVE  Copy(writes[k], nextId') /\ (~dangling' => CopyDescribes(writes[k]))
  <2>1. PICK cs : /\ writes[k] = Snapshot(actions', cs)
                  /\ Typed(actions', cs, nextId')
                  /\ ~dangling' => Describes(actions', cs)
    BY <1>4
  <2> QED BY <1>3, <2>1, SnapshotTyped, SnapshotDescribes
<1>5. storage # Absent => Copy(storage, nextId')
  <2> SUFFICES ASSUME Copy(storage, nextId) PROVE Copy(storage, nextId') BY DEF SessionInv
  <2>1. storage.actions \in Seq(Action) BY DEF Copy, Sessions
  <2>2. Len(storage.actions) \in Nat BY <2>1
  <2> QED BY <1>3, <2>2 DEF Copy
<1>6. storage' # Absent => /\ Copy(storage', nextId')
                           /\ ~dangling' => CopyDescribes(storage')
  BY <1>1, <1>4, <1>5 DEF SessionInv
<1> QED BY <1>1, <1>2, <1>6 DEF SessionInv

LEMMA SavedOnce ==
    ASSUME SessionInv, nextId' \in 1 .. MaxActions + 1, nextId <= nextId',
           Persist(<<Snapshot(actions', checkpoints')>>),
           Typed(actions', checkpoints', nextId'),
           ~dangling' => ~dangling /\ Describes(actions', checkpoints'),
           dangling' \in BOOLEAN, paused' \in BOOLEAN
    PROVE  SessionInv'
<1> DEFINE writes == <<Snapshot(actions', checkpoints')>>
<1>1. Len(writes) = 1 /\ writes[1] = Snapshot(actions', checkpoints') OBVIOUS
<1>2. Persist(writes) OBVIOUS
<1> HIDE DEF writes
<1>3. ASSUME NEW k \in 1 .. Len(writes) PROVE writes[k] = Snapshot(actions', checkpoints')
  BY <1>1
<1>4. ASSUME NEW k \in 1 .. Len(writes)
      PROVE  \E cs : /\ writes[k] = Snapshot(actions', cs)
                     /\ Typed(actions', cs, nextId')
                     /\ ~dangling' => Describes(actions', cs)
  BY <1>3
<1>5. Len(writes) \in Nat \ {0} /\ writes[Len(writes)] = Snapshot(actions', checkpoints')
  BY <1>1
<1> QED BY <1>2, <1>4, <1>5, Saved

LEMMA SessionUnchanged ==
    ASSUME SessionInv, UNCHANGED <<history, storage, nextId, faults, lagging, dangling>>,
           paused' \in BOOLEAN
    PROVE  SessionInv'
BY DEF SessionInv, history, Typed, Copy, CopyDescribes

\* Any number of first elements.
LEMMA FirstAny ==
    ASSUME NEW S, NEW s \in Seq(S), NEW n \in Nat
    PROVE  /\ First(s, n) \in Seq(S) /\ Len(First(s, n)) <= Len(s)
           /\ Len(First(s, n)) = IF n < Len(s) THEN n ELSE Len(s)
           /\ \A k \in DOMAIN First(s, n) : k \in DOMAIN s /\ First(s, n)[k] = s[k]
           /\ n >= Len(s) => First(s, n) = s
<1>1. Len(s) \in Nat OBVIOUS
<1>2. CASE n < Len(s)
  <2>1. /\ First(s, n) \in Seq(S) /\ Len(First(s, n)) = n
        /\ \A k \in 1 .. n : First(s, n)[k] = s[k]
    BY <1>1, <1>2, FirstProperties
  <2> QED BY <1>1, <1>2, <2>1
<1>3. CASE ~(n < Len(s))
  <2>1. First(s, n) = SubSeq(s, 1, Len(s)) BY <1>3, Zenon DEF First
  <2>2. First(s, n) = s BY <2>1, SubSeqFull
  <2> QED BY <1>1, <1>3, <2>2
<1> QED BY <1>2, <1>3

\* The session with one more checkpoint, made here.
LEMMA CheckpointHere ==
    ASSUME SessionInv, NEW cs, cs = Append(checkpoints, Here(actions))
    PROVE  /\ Typed(actions, cs, nextId)
           /\ ~dangling => Describes(actions, cs)
<1>1. /\ actions \in Seq(Action) /\ checkpoints \in Seq(Checkpoint)
      /\ Len(actions) \in Nat /\ Len(actions) <= MaxActions /\ Len(actions) < nextId
  BY SessionAssumption DEF SessionInv, Typed
<1>2. Here(actions) \in Checkpoint BY <1>1, HereTyped
<1> DEFINE made == <<Here(actions)>>
<1>3. /\ made \in Seq(Checkpoint) /\ \A k \in DOMAIN made : made[k] = Here(actions)
  BY <1>2
<1>4. cs = checkpoints \o made BY <1>1, <1>2, AppendIsConcat
<1> HIDE DEF made
<1>5. cs \in Seq(Checkpoint) /\ cs # <<>> BY <1>1, <1>2, AppendProperties
<1>6. ~dangling => Describes(actions, checkpoints) BY DEF SessionInv
<1>7. ~dangling => Describes(actions, cs) BY <1>1, <1>3, <1>4, <1>6, DescribesHere
<1> QED BY <1>1, <1>5, <1>7 DEF Typed

LEMMA RecordActionSession == SessionInv /\ RecordAction => SessionInv'
<1> SUFFICES ASSUME SessionInv, RecordAction PROVE SessionInv' OBVIOUS
<1> DEFINE periodic == (Len(actions) + 1) % Interval = 0
           n == (IF Due THEN 1 ELSE 0) + (IF periodic THEN 1 ELSE 0)
           made == [k \in 1 .. n |-> Here(actions')]
           writes == [k \in 1 .. n + 1 |->
                        Snapshot(actions', checkpoints \o First(made, k))]
<1>1. /\ actions \in Seq(Action) /\ checkpoints \in Seq(Checkpoint) /\ checkpoints # <<>>
      /\ Len(actions) \in Nat /\ Len(actions) < nextId
      /\ nextId \in 1 .. MaxActions + 1 /\ MaxActions \in Nat
  BY SessionAssumption DEF SessionInv, Typed
<1>2. /\ nextId <= MaxActions /\ nextId' = nextId + 1 /\ UNCHANGED <<paused, dangling>>
      /\ checkpoints' = checkpoints \o made /\ Persist(writes)
  BY DEF RecordAction
<1>3. PICK a \in Action : actions' = Append(actions, a)
  <2>1. PICK r \in BOOLEAN : actions' = Append(actions, [id |-> nextId, reversible |-> r])
    BY DEF RecordAction
  <2>2. nextId \in 1 .. MaxActions BY <1>1, <1>2
  <2>3. [id |-> nextId, reversible |-> r] \in Action BY <2>2 DEF Action
  <2> QED BY <2>1, <2>3, Zenon
<1>4. n \in Nat OBVIOUS
<1> HIDE DEF n
<1>5. actions' \in Seq(Action) /\ Len(actions') = Len(actions) + 1
  BY <1>1, <1>3, AppendProperties
<1>6. Here(actions') \in Checkpoint BY <1>1, <1>2, <1>5, HereTyped
<1>7. made \in Seq(Checkpoint) /\ Len(made) = n /\ \A k \in DOMAIN made : made[k] = Here(actions')
  BY <1>4, <1>6
<1>8. Len(writes) = n + 1 /\ \A k \in 1 .. n + 1 :
         writes[k] = Snapshot(actions', checkpoints \o First(made, k))
  BY <1>4
<1> HIDE DEF made, writes
<1>9. ASSUME NEW m \in Seq(Checkpoint), \A k \in DOMAIN m : m[k] = Here(actions')
      PROVE  /\ Typed(actions', checkpoints \o m, nextId')
             /\ ~dangling' => Describes(actions', checkpoints \o m)
  <2>1. checkpoints \o m \in Seq(Checkpoint) /\ checkpoints \o m # <<>>
    BY <1>1, ConcatProperties, ConcatEqualIffEmpty
  <2>2. ~dangling' => Describes(actions', checkpoints)
    BY <1>1, <1>2, <1>3, DescribesMore DEF SessionInv
  <2>3. Len(actions') <= MaxActions BY <1>1, <1>2, <1>5
  <2>4. ASSUME Describes(actions', checkpoints) PROVE Describes(actions', checkpoints \o m)
    BY <1>1, <1>5, <1>9, <2>3, <2>4, DescribesHere, Zenon
  <2> QED BY <1>1, <1>2, <1>5, <2>1, <2>2, <2>4 DEF Typed
<1>10. ASSUME NEW k \in 1 .. Len(writes)
       PROVE  \E cs : /\ writes[k] = Snapshot(actions', cs)
                      /\ Typed(actions', cs, nextId')
                      /\ ~dangling' => Describes(actions', cs)
  <2>1. k \in 1 .. n + 1 /\ k \in Nat BY <1>4, <1>8
  <2>2. First(made, k) \in Seq(Checkpoint) BY <1>7, <2>1, FirstAny
  <2>3. \A j \in DOMAIN First(made, k) : First(made, k)[j] = Here(actions')
    BY <1>7, <2>1, FirstAny
  <2> QED BY <1>8, <1>9, <2>1, <2>2, <2>3
<1>11. writes[Len(writes)] = Snapshot(actions', checkpoints')
  <2>1. First(made, n + 1) = made BY <1>4, <1>7, FirstAny
  <2> QED BY <1>2, <1>4, <1>8, <2>1
<1>12. /\ Typed(actions', checkpoints', nextId')
       /\ ~dangling' => ~dangling /\ Describes(actions', checkpoints')
  BY <1>2, <1>7, <1>9
<1>13. nextId' \in 1 .. MaxActions + 1 /\ nextId <= nextId' BY <1>1, <1>2
<1>14. dangling' \in BOOLEAN /\ paused' \in BOOLEAN BY <1>2 DEF SessionInv
<1>15. Len(writes) \in Nat \ {0} BY <1>4, <1>8
<1> QED BY <1>2, <1>10, <1>11, <1>12, <1>13, <1>14, <1>15, Saved

LEMMA UndoSession == SessionInv /\ UndoLastAction => SessionInv'
<1> SUFFICES ASSUME SessionInv, UndoLastAction PROVE SessionInv' OBVIOUS
<1> DEFINE n == Len(actions) - 1
<1>1. /\ actions \in Seq(Action) /\ actions # <<>> /\ n \in Nat /\ n <= Len(actions)
      /\ checkpoints \in Seq(Checkpoint) /\ checkpoints # <<>>
      /\ Len(actions) \in Nat /\ Len(actions) < nextId /\ nextId \in Nat
  BY SessionAssumption DEF SessionInv, Typed, UndoLastAction
<1>2. /\ actions' = First(actions, n) /\ dangling' = (dangling \/ Overhangs(actions', checkpoints))
      /\ Persist(<<Snapshot(actions', checkpoints)>>)
      /\ UNCHANGED <<checkpoints, paused, nextId>>
  BY DEF UndoLastAction
<1> HIDE DEF n
<1>3. actions' \in Seq(Action) /\ Len(actions') = n BY <1>1, <1>2, FirstProperties
<1>4. Typed(actions', checkpoints', nextId') BY <1>1, <1>2, <1>3 DEF Typed
<1>5. ASSUME ~dangling' PROVE ~dangling /\ Describes(actions', checkpoints')
  <2>1. ~dangling /\ ~Overhangs(actions', checkpoints) BY <1>2, <1>5
  <2>2. \A k \in DOMAIN checkpoints : checkpoints[k].index <= n
    <3>1. \A k \in DOMAIN checkpoints : ~(checkpoints[k].index > n)
      BY <1>3, <2>1 DEF Overhangs
    <3>2. \A k \in DOMAIN checkpoints : checkpoints[k].index \in Nat BY <1>1, Indices
    <3> QED BY <1>1, <3>1, <3>2
  <2>3. Describes(actions, checkpoints) BY <2>1 DEF SessionInv
  <2> QED BY <1>1, <1>2, <2>1, <2>2, <2>3, DescribesLess
<1>6. dangling' \in BOOLEAN /\ paused' \in BOOLEAN
  BY <1>2, Zenon DEF SessionInv, Overhangs
<1>7. nextId' \in 1 .. MaxActions + 1 /\ nextId <= nextId' BY <1>1, <1>2 DEF SessionInv
<1> QED BY <1>2, <1>4, <1>5, <1>6, <1>7, SavedOnce

LEMMA RewindSession == SessionInv /\ Rewind => SessionInv'
<1> SUFFICES ASSUME SessionInv, NEW k \in DOMAIN checkpoints, RewindTo(k) PROVE SessionInv'
  BY DEF Rewind
<1> DEFINE n == checkpoints[k].index
<1>1. /\ actions \in Seq(Action) /\ checkpoints \in Seq(Checkpoint) /\ n \in Nat
      /\ Len(actions) \in Nat /\ Len(actions) < nextId /\ nextId \in Nat
      /\ k \in Nat \ {0} /\ k <= Len(checkpoints)
  BY Indices, SessionAssumption DEF SessionInv, Typed
<1>2. /\ actions' = First(actions, n) /\ checkpoints' = First(checkpoints, k)
      /\ Persist(<<Snapshot(actions', checkpoints')>>)
      /\ UNCHANGED <<paused, nextId, dangling>>
  BY DEF RewindTo
<1>3. ASSUME ~dangling' PROVE ~dangling /\ Describes(actions', checkpoints')
  BY <1>1, <1>2, <1>3, DescribesRewound DEF SessionInv
<1> HIDE DEF n
<1>4. actions' \in Seq(Action) /\ Len(actions') <= Len(actions) BY <1>1, <1>2, FirstAny
<1>5. checkpoints' \in Seq(Checkpoint) /\ checkpoints' # <<>>
  <2>1. First(checkpoints, k) \in Seq(Checkpoint) /\ Len(First(checkpoints, k)) = k
    BY <1>1, FirstProperties
  <2> QED BY <1>1, <1>2, <2>1
<1>6. Typed(actions', checkpoints', nextId')
  <2>1. Len(actions') < nextId' BY <1>1, <1>2, <1>4
  <2> QED BY <1>4, <1>5, <2>1 DEF Typed
<1>7. nextId' \in 1 .. MaxActions + 1 /\ nextId <= nextId' /\ dangling' \in BOOLEAN
      /\ paused' \in BOOLEAN
  BY <1>1, <1>2 DEF SessionInv
<1> QED BY <1>2, <1>3, <1>6, <1>7, SavedOnce

\* A session that has just started.
LEMMA EmptySession ==
    ASSUME NEW n \in Nat \ {0}
    PROVE  Typed(<<>>, <<Here(<<>>)>>, n) /\ Describes(<<>>, <<Here(<<>>)>>)
<1>1. <<>> \in Seq(Action) /\ Len(<<>>) = 0 /\ 0 <= MaxActions BY SessionAssumption
<1>2. /\ Here(<<>>) \in Checkpoint /\ Covers(Here(<<>>), <<>>)
  BY <1>1, HereTyped
<1>3. <<Here(<<>>)>> \in Seq(Checkpoint) /\ <<Here(<<>>)>> # <<>> BY <1>2
<1> DEFINE cs == <<Here(<<>>)>>
<1>4. DOMAIN cs = {1} /\ cs[1] = Here(<<>>) OBVIOUS
<1> HIDE DEF cs
<1>5. Describes(<<>>, cs) BY <1>2, <1>4 DEF Describes
<1>6. Typed(<<>>, cs, n) BY <1>1, <1>3 DEF Typed, cs
<1> QED BY <1>5, <1>6 DEF cs

LEMMA ClearSessionSession == SessionInv /\ ClearSession => SessionInv'
<1> SUFFICES ASSUME SessionInv, ClearSession PROVE SessionInv' OBVIOUS
<1>1. /\ actions' = <<>> /\ checkpoints' = <<Here(<<>>)>>
      /\ storage' = Absent /\ lagging' = FALSE /\ dangling' = FALSE /\ paused' = FALSE
      /\ UNCHANGED <<nextId, faults>>
  BY DEF ClearSession
<1>2. nextId \in Nat \ {0} BY SessionAssumption DEF SessionInv
<1>3. Typed(actions', checkpoints', nextId') /\ Describes(actions', checkpoints')
  BY <1>1, <1>2, EmptySession
<1>4. <<Here(<<>>)>>' = <<Here(<<>>)>> BY DEF Here
<1> QED BY <1>1, <1>3, <1>4 DEF SessionInv

LEMMA ReloadSession == SessionInv /\ Reload => SessionInv'
<1> SUFFICES ASSUME SessionInv, Reload PROVE SessionInv' OBVIOUS
<1>1. nextId \in Nat \ {0} /\ nextId \in 1 .. MaxActions + 1 /\ MaxPersisted \in Nat
  BY SessionAssumption DEF SessionInv
<1>2. /\ dangling' = (dangling \/ Len(actions') = MaxPersisted) /\ paused' = FALSE
      /\ nextId' = nextId
  BY DEF Reload
<1>3. dangling' \in BOOLEAN BY <1>2 DEF SessionInv
<1>4. CASE storage = Absent
  <2>1. /\ actions' = <<>> /\ checkpoints' = <<Here(<<>>)>>
        /\ Persist(<<Snapshot(actions', checkpoints')>>)
    BY <1>4 DEF Reload
  <2>2. Typed(actions', checkpoints', nextId') /\ Describes(actions', checkpoints')
    BY <1>1, <1>2, <2>1, EmptySession
  <2>3. ~dangling' => ~dangling BY <1>2
  <2>4. nextId' = nextId /\ paused' \in BOOLEAN BY <1>2, Zenon
  <2>5. nextId' \in 1 .. MaxActions + 1 /\ nextId <= nextId' BY <1>1, <2>4
  <2> QED BY <1>3, <2>1, <2>2, <2>3, <2>4, <2>5, SavedOnce
<1>5. CASE storage # Absent
  <2>1. /\ actions' = storage.actions /\ checkpoints' = storage.checkpoints
        /\ lagging' = FALSE /\ UNCHANGED <<storage, faults>>
    BY <1>5 DEF Reload
  <2>2. Copy(storage, nextId) BY <1>5 DEF SessionInv
  <2>3. /\ storage = [actions |-> actions', checkpoints |-> checkpoints']
        /\ Typed(actions', checkpoints', nextId') /\ Len(actions') <= MaxPersisted
    BY <1>2, <2>1, <2>2 DEF Copy, Sessions, Typed
  <2>4. storage' = Snapshot(actions', checkpoints')
    <3>1. /\ Snapshot(actions', checkpoints').actions = actions'
          /\ Snapshot(actions', checkpoints').checkpoints = checkpoints'
          /\ Snapshot(actions', checkpoints') \in Sessions
      BY <1>1, <1>2, <2>3, SnapshotTyped DEF Copy
    <3>2. Snapshot(actions', checkpoints') = [actions |-> actions', checkpoints |-> checkpoints']
      BY <3>1 DEF Sessions
    <3> QED BY <2>1, <2>3, <3>2
  <2>5. ASSUME ~dangling'
        PROVE  Describes(actions', checkpoints') /\ CopyDescribes(storage)
    <3>1. ~dangling /\ Len(actions') # MaxPersisted BY <1>2, <1>5, <2>5
    <3>2. Len(actions') \in Nat BY <2>3 DEF Typed
    <3>3. Len(storage.actions) < MaxPersisted BY <1>1, <2>1, <2>3, <3>1, <3>2
    <3>4. CopyDescribes(storage) BY <1>5, <3>1 DEF SessionInv
    <3> QED BY <2>1, <3>3, <3>4 DEF CopyDescribes
  <2>6. Copy(storage', nextId') /\ (~dangling' => CopyDescribes(storage'))
    BY <1>2, <2>1, <2>2, <2>5
  <2> QED BY <1>1, <1>2, <1>3, <2>1, <2>3, <2>4, <2>5, <2>6 DEF SessionInv
<1> QED BY <1>4, <1>5

LEMMA NextSession == SessionInv /\ [Next]_vars => SessionInv'
<1> SUFFICES ASSUME SessionInv, [Next]_vars PROVE SessionInv' OBVIOUS
<1>1. nextId \in Nat /\ nextId \in 1 .. MaxActions + 1 /\ {paused, dangling} \subseteq BOOLEAN
  BY SessionAssumption DEF SessionInv
<1>2. CASE CreateCheckpoint \/ (RecordToolCall /\ Due)
  <2>1. /\ checkpoints' = Append(checkpoints, Here(actions))
        /\ Persist(<<Snapshot(actions, checkpoints')>>)
        /\ UNCHANGED <<actions, paused, nextId, dangling>>
    BY <1>2 DEF CreateCheckpoint, RecordToolCall
  <2>2. /\ Typed(actions', checkpoints', nextId')
        /\ ~dangling' => ~dangling /\ Describes(actions', checkpoints')
    BY <2>1, CheckpointHere
  <2> QED BY <1>1, <2>1, <2>2, SavedOnce
<1>3. CASE \/ RecordToolCall /\ ~Due
           \/ SyncThreshold \/ SetEnabled \/ Pause \/ Resume \/ UNCHANGED vars
  <2>1. UNCHANGED <<history, storage, nextId, faults, lagging, dangling>>
    BY <1>3 DEF RecordToolCall, SyncThreshold, SetEnabled, Pause, Resume, vars, history
  <2>2. paused' \in BOOLEAN
    BY <1>1, <1>3 DEF RecordToolCall, SyncThreshold, SetEnabled, Pause, Resume, vars
  <2> QED BY <2>1, <2>2, SessionUnchanged
<1> QED BY <1>2, <1>3, RecordActionSession, UndoSession, RewindSession, ClearSessionSession,
           ReloadSession DEF Next

LEMMA SessionHolds == Spec => []SessionInv
<1>1. Init => SessionInv
  <2> SUFFICES ASSUME Init PROVE SessionInv OBVIOUS
  <2>1. nextId \in 1 .. MaxActions + 1 /\ nextId \in Nat \ {0} /\ faults \in 0 .. MaxFaults
    BY SessionAssumption DEF Init
  <2>2. Typed(actions, checkpoints, nextId) /\ Describes(actions, checkpoints)
    BY <2>1, EmptySession DEF Init
  <2>3. storage = Snapshot(actions, checkpoints) BY DEF Init
  <2>4. Copy(storage, nextId) /\ CopyDescribes(storage)
    BY <2>1, <2>2, <2>3, SnapshotTyped, SnapshotDescribes
  <2> QED BY <2>1, <2>2, <2>3, <2>4 DEF Init, SessionInv
<1> QED BY <1>1, NextSession, PTL DEF Spec

\* Every checkpoint is a place in the history, and they come in its order, unless an
\* undo went below one or a reload cut the history.
THEOREM CheckpointsDescribeHistoryHolds == Spec => []CheckpointsDescribeHistory
<1>1. SessionInv => CheckpointsDescribeHistory
  <2> SUFFICES ASSUME SessionInv, ~dangling
               PROVE  /\ \A k \in DOMAIN checkpoints :
                            /\ checkpoints[k].index <= Len(actions)
                            /\ checkpoints[k].files = Ids(First(actions, checkpoints[k].index))
                      /\ \A j, k \in DOMAIN checkpoints :
                            j < k => checkpoints[j].index <= checkpoints[k].index
    BY DEF CheckpointsDescribeHistory
  <2>1. Describes(actions, checkpoints) /\ actions \in Seq(Action)
        /\ checkpoints \in Seq(Checkpoint)
    BY DEF SessionInv, Typed
  <2>2. ASSUME NEW k \in DOMAIN checkpoints
        PROVE  /\ checkpoints[k].index <= Len(actions)
               /\ checkpoints[k].files = Ids(First(actions, checkpoints[k].index))
    <3>1. /\ checkpoints[k].index \in Nat /\ checkpoints[k].index <= Len(actions)
          /\ checkpoints[k].files = {actions[j].id : j \in 1 .. checkpoints[k].index}
      BY <2>1, Indices DEF Describes, Covers
    <3> QED BY <2>1, <3>1, FirstProperties
  <2> QED BY <2>1, <2>2 DEF Describes
<1> QED BY <1>1, SessionHolds, PTL

\* Unless the last save failed, what is stored is the session as a reload will
\* bring it back.
THEOREM ReloadRestoresHolds == Spec => []ReloadRestores
<1>1. SessionInv => ReloadRestores BY DEF SessionInv, ReloadRestores
<1> QED BY <1>1, SessionHolds, PTL

\* Every variable has its type, the counter is below the threshold that bounds it,
\* and what is stored has room for what a reload keeps.
THEOREM TypeCorrect == Spec => []TypeOK
<1>1. CapInv /\ SessionInv => TypeOK
  <2> SUFFICES ASSUME CapInv, SessionInv PROVE TypeOK OBVIOUS
  <2>1. callCount \in 0 .. ceiling - 1 /\ since \in Nat /\ ceiling \in Thresholds
    BY SessionAssumption DEF CapInv
  <2>2. storage # Absent =>
          /\ storage.actions \in Seq(Action) /\ Len(storage.actions) <= MaxPersisted
          /\ storage.checkpoints \in Seq(Checkpoint) /\ storage.checkpoints # <<>>
    BY DEF SessionInv, Copy, Sessions
  <2>3. /\ actions \in Seq(Action)
        /\ checkpoints \in Seq(Checkpoint) /\ checkpoints # <<>>
        /\ nextId \in 1 .. MaxActions + 1 /\ faults \in 0 .. MaxFaults
    BY DEF SessionInv, Typed
  <2>4. {paused, enabled, lagging, dangling} \subseteq BOOLEAN /\ threshold \in Thresholds
    BY DEF CapInv, SessionInv
  <2> QED BY <2>1, <2>2, <2>3, <2>4 DEF TypeOK
<1>2. Spec => []CapInv
  <2>1. Init => CapInv BY SessionAssumption DEF Init, CapInv
  <2> QED BY <2>1, NextCap, PTL DEF Spec
<1> QED BY <1>1, <1>2, SessionHolds, PTL
=============================================================================
