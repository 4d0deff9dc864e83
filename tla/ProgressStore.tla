--------------------------- MODULE ProgressStore ---------------------------
(***************************************************************************)
(* The student's progress record and lesson history, kept as two JSON      *)
(* files in ~/.teacher/progress and updated by                             *)
(* packages/teacher-core/src/node/progress-service.ts under a lock file.   *)
(*                                                                         *)
(* A caller is one running recordLessonStart, recordLessonCompletion or    *)
(* recordSkillPractice, in its own backend process; every Teacher window   *)
(* of the machine shares the directory.  A step of a caller is what it     *)
(* does between two awaits: one file-system operation.                     *)
(***************************************************************************)
EXTENDS Integers, FiniteSets

CONSTANTS
    Callers,     \* the concurrent calls of the service
    Lessons,     \* lesson identifiers
    MasteryCap,  \* full mastery (1.0) of the practised skill, in units of one practice
    MaxCalls,    \* bound: calls made in a behaviour
    MaxFaults,   \* bound: processes killed, reads and writes refused in a behaviour
    NoOne,       \* the lock file does not exist
    Orphan,      \* the lock file exists and the process that made it is dead
    Absent,      \* a file that does not exist
    Partial,     \* a file holding the beginning of a JSON text
    NoRecord     \* a local variable of a call that holds nothing

ASSUME ConstantsAssumption ==
    /\ MasteryCap \in Nat /\ MaxCalls \in Nat /\ MaxFaults \in Nat
    /\ NoOne \notin Callers /\ Orphan \notin Callers /\ NoOne # Orphan

VARIABLES
    lock,       \* the lock file: NoOne, Orphan, or the live call that created it
    progress,   \* student-progress.json
    history,    \* lesson-history.json
    tmp,        \* the two temporary files, one per target
    pc,         \* where each caller is
    call,       \* what each caller was asked to record
    target,     \* the file each caller is updating
    mine,       \* the updated contents each caller holds in memory
    misread,    \* history: those contents are built on a read that failed
    calls,      \* calls made so far
    faults,     \* processes killed, reads and writes refused so far
    saved,      \* history: the updates of progress that reached the file
    started,    \* history: per lesson, the starts that reached the progress file
    lost,       \* history: of saved, the updates that a failed read made a save forget
    unlogged,   \* history: per lesson, the starts that a fault kept out of the history
                \* file, or that a failed read made a save of it forget
    stolen      \* history: a lock file was removed while its creator was alive

disk == <<progress, history, tmp>>
caller == <<pc, call, target, mine, misread>>
ghosts == <<saved, started, lost, unlogged>>
vars == <<lock, disk, caller, calls, faults, ghosts, stolen>>
-----------------------------------------------------------------------------
(* Data. *)

Files == {"progress", "history"}

Ops == {"start", "complete", "practice"}

Calls == [op : {"start"}, lesson : Lessons]
         \cup [op : {"complete"}, lesson : Lessons]
         \cup [op : {"practice"}]

ProgressRecord == [studentId : Callers, completed : Nat, inProgress : Nat,
                   mastery : 0 .. MasteryCap, minutes : Nat]

LessonRecord == [status : {"none", "in-progress", "finished"},
                 attempts : Nat]

HistoryRecord == [Lessons -> LessonRecord]

ASSUME FilesAssumption ==
    /\ {Absent, Partial} \cap (ProgressRecord \cup HistoryRecord) = {}
    /\ Absent # Partial

\* createDefaultProgress: the random student identifier is named after the
\* call that draws it.
NewProgress(c) == [studentId |-> c, completed |-> 0, inProgress |-> 0,
                   mastery |-> 0, minutes |-> 0]

NewHistory == [l \in Lessons |-> [status |-> "none", attempts |-> 0]]

\* safeReadJson of a file that can be read: a missing, empty or unparsable one
\* reads as the default.
ReadProgress(file, c) == IF file \in {Absent, Partial} THEN NewProgress(c) ELSE file
ReadHistory(file) == IF file \in {Absent, Partial} THEN NewHistory ELSE file

\* Seeded fault: Math.min(1.0, ...) forgotten.
TallyUncapped(p, k) ==
    CASE k.op = "start" -> [p EXCEPT !.inProgress = @ + 1]
      [] k.op = "complete" -> [p EXCEPT !.completed = @ + 1]
      [] k.op = "practice" -> [p EXCEPT !.mastery = @ + 1, !.minutes = @ + 1]

\* What each call does to the progress record.
Tally(p, k) ==
    CASE k.op = "start" -> [p EXCEPT !.inProgress = @ + 1]
      [] k.op = "complete" ->
            [p EXCEPT !.completed = @ + 1,
                      !.inProgress = IF @ > 0 THEN @ - 1 ELSE @]
      [] k.op = "practice" ->
            [p EXCEPT !.mastery = IF @ + 1 < MasteryCap THEN @ + 1 ELSE MasteryCap,
                      !.minutes = @ + 1]

\* Seeded fault: a repeated start replaces the lesson's entry by a new one.
LogLessonAfresh(h, k) ==
    [h EXCEPT ![k.lesson] = [status |-> "in-progress", attempts |-> 1]]

\* What a start or a completion does to the lesson's history entry; the score
\* that tells "completed" from "mastered" is left out.
LogLesson(h, k) ==
    IF k.op = "start"
    THEN [h EXCEPT ![k.lesson] = [status |-> "in-progress", attempts |-> @.attempts + 1]]
    ELSE [h EXCEPT ![k.lesson].status = "finished"]
-----------------------------------------------------------------------------
Init ==
    /\ lock = NoOne
    /\ progress = Absent /\ history = Absent
    /\ tmp = [f \in Files |-> Absent]
    /\ pc = [c \in Callers |-> "idle"]
    /\ call = [c \in Callers |-> NoRecord]
    /\ target = [c \in Callers |-> "progress"]
    /\ mine = [c \in Callers |-> NoRecord]
    /\ misread = [c \in Callers |-> FALSE]
    /\ calls = 0 /\ faults = 0
    /\ saved = [o \in Ops |-> 0]
    /\ started = [l \in Lessons |-> 0]
    /\ lost = [o \in Ops |-> 0]
    /\ unlogged = [l \in Lessons |-> 0]
    /\ stolen = FALSE

Goto(c, label) == pc' = [pc EXCEPT ![c] = label]

\* The contents in memory are done with.
Drop(c) ==
    /\ mine' = [mine EXCEPT ![c] = NoRecord]
    /\ misread' = [misread EXCEPT ![c] = FALSE]

\* The call is over and its local variables with it.
Return(c) ==
    /\ Goto(c, "idle")
    /\ call' = [call EXCEPT ![c] = NoRecord]
    /\ target' = [target EXCEPT ![c] = "progress"]
    /\ Drop(c)

\* A call arrives over JSON-RPC.
Call(c) ==
    /\ pc[c] = "idle"
    /\ calls < MaxCalls
    /\ calls' = calls + 1
    /\ \E k \in Calls : call' = [call EXCEPT ![c] = k]
    /\ Goto(c, "wait")
    /\ UNCHANGED <<lock, disk, target, mine, misread, faults, ghosts, stolen>>

\* Seeded fault: the lock file is opened with "w" instead of "wx".
AcquireShared(c) ==
    /\ pc[c] = "wait"
    /\ lock' = c
    /\ Goto(c, "load")
    /\ UNCHANGED <<disk, call, target, mine, misread, calls, faults, ghosts, stolen>>

\* acquireLock: the exclusive create succeeds.  (While the lock exists and
\* the 3 s have not passed the loop sleeps and tries again: a stutter.)
Acquire(c) ==
    /\ pc[c] = "wait"
    /\ lock = NoOne
    /\ lock' = c
    /\ Goto(c, "load")
    /\ UNCHANGED <<disk, call, target, mine, misread, calls, faults, ghosts, stolen>>

\* Seeded fault: only the lock of a call that is still there times out.
TimeOutOnLive(c) ==
    /\ pc[c] = "wait"
    /\ lock \in Callers
    /\ Goto(c, "unlink")
    /\ UNCHANGED <<lock, disk, call, target, mine, misread, calls, faults, ghosts, stolen>>

\* acquireLock: the exclusive create failed and more than maxWaitMs have passed.
TimeOut(c) ==
    /\ pc[c] = "wait"
    /\ lock # NoOne
    /\ Goto(c, "unlink")
    /\ UNCHANGED <<lock, disk, call, target, mine, misread, calls, faults, ghosts, stolen>>

\* "Stale lock -- force remove": unlink whatever lock file is there by now.
ForceRemove(c) ==
    /\ pc[c] = "unlink"
    /\ stolen' = (stolen \/ lock \in Callers)
    /\ lock' = NoOne
    /\ Goto(c, "retry")
    /\ UNCHANGED <<disk, call, target, mine, misread, calls, faults, ghosts>>

\* Seeded fault: the retry's failure is swallowed and the call goes on.
RetryAnyway(c) ==
    /\ pc[c] = "retry"
    /\ lock' = IF lock = NoOne THEN c ELSE lock
    /\ Goto(c, "load")
    /\ UNCHANGED <<disk, call, target, mine, misread, calls, faults, ghosts, stolen>>

\* "... and retry once": a second failure rejects the call, outside its try block.
Retry(c) ==
    /\ pc[c] = "retry"
    /\ \/ lock = NoOne /\ lock' = c /\ Goto(c, "load") /\ UNCHANGED <<call, target, mine, misread>>
       \/ lock # NoOne /\ Return(c) /\ UNCHANGED lock
    /\ UNCHANGED <<disk, calls, faults, ghosts, stolen>>

\* Read the target file and update the contents in memory.
Load(c) ==
    /\ pc[c] = "load"
    /\ mine' = [mine EXCEPT ![c] =
                  IF target[c] = "progress"
                  THEN Tally(ReadProgress(progress, c), call[c])
                  ELSE LogLesson(ReadHistory(history), call[c])]
    /\ misread' = [misread EXCEPT ![c] = FALSE]
    /\ Goto(c, "open")
    /\ UNCHANGED <<lock, disk, call, target, calls, faults, ghosts, stolen>>

\* safeReadJson's catch: whatever the error (too many open files, no permission,
\* an I/O error), the file that is there reads as the default.
LoadFails(c) ==
    /\ pc[c] = "load"
    /\ faults < MaxFaults
    /\ faults' = faults + 1
    /\ IF target[c] = "progress" THEN progress # Absent ELSE history # Absent
    /\ mine' = [mine EXCEPT ![c] =
                  IF target[c] = "progress"
                  THEN Tally(NewProgress(c), call[c])
                  ELSE LogLesson(NewHistory, call[c])]
    /\ misread' = [misread EXCEPT ![c] = TRUE]
    /\ Goto(c, "open")
    /\ UNCHANGED <<lock, disk, call, target, calls, ghosts, stolen>>

\* Seeded fault: the progress file is truncated and rewritten in place.
OpenInPlace(c) ==
    /\ pc[c] = "open"
    /\ tmp' = [tmp EXCEPT ![target[c]] = Partial]
    /\ progress' = IF target[c] = "progress" THEN Partial ELSE progress
    /\ Goto(c, "fill")
    /\ UNCHANGED <<lock, history, call, target, mine, misread, calls, faults, ghosts, stolen>>

\* atomicWrite: writeFile truncates the temporary file ...
OpenTmp(c) ==
    /\ pc[c] = "open"
    /\ tmp' = [tmp EXCEPT ![target[c]] = Partial]
    /\ Goto(c, "fill")
    /\ UNCHANGED <<lock, progress, history, call, target, mine, misread, calls, faults,
                   ghosts, stolen>>

\* ... and fills it.
FillTmp(c) ==
    /\ pc[c] = "fill"
    /\ tmp' = [tmp EXCEPT ![target[c]] = mine[c]]
    /\ Goto(c, "rename")
    /\ UNCHANGED <<lock, progress, history, call, target, mine, misread, calls, faults,
                   ghosts, stolen>>

\* The progress file is in place: a lesson call goes on to the history file.
SwapProgress(c) ==
    /\ target[c] = "progress"
    /\ progress' = tmp["progress"]
    /\ saved' = [saved EXCEPT ![call[c].op] = @ + 1]
    /\ lost' = IF misread[c] THEN saved ELSE lost
    /\ started' = IF call[c].op = "start"
                  THEN [started EXCEPT ![call[c].lesson] = @ + 1] ELSE started
    /\ IF call[c].op = "practice"
       THEN Goto(c, "release") /\ UNCHANGED target
       ELSE Goto(c, "load") /\ target' = [target EXCEPT ![c] = "history"]
    /\ UNCHANGED <<history, unlogged>>

SwapHistory(c) ==
    /\ target[c] = "history"
    /\ history' = tmp["history"]
    /\ unlogged' = IF misread[c]
                   THEN [l \in Lessons |-> unlogged[l] + ReadHistory(history)[l].attempts]
                   ELSE unlogged
    /\ Goto(c, "release")
    /\ UNCHANGED <<progress, target, saved, started, lost>>

\* atomicWrite: rename the temporary file over the target.
Rename(c) ==
    /\ pc[c] = "rename"
    /\ tmp[target[c]] # Absent
    /\ SwapProgress(c) \/ SwapHistory(c)
    /\ tmp' = [tmp EXCEPT ![target[c]] = Absent]
    /\ Drop(c)
    /\ UNCHANGED <<lock, call, calls, faults, stolen>>

\* c stops with its start in the progress file and not in the history.
InFlight(c, l) ==
    /\ target[c] = "history"
    /\ pc[c] \in {"load", "open", "fill", "rename"}
    /\ call[c].op = "start" /\ call[c].lesson = l

Interrupt(c) ==
    unlogged' = [l \in Lessons |-> IF InFlight(c, l) THEN unlogged[l] + 1 ELSE unlogged[l]]

\* The disk refuses a write or the rename (full, no permission): the finally
\* block runs.
WriteFails(c) ==
    /\ pc[c] \in {"open", "fill", "rename"}
    /\ faults < MaxFaults
    /\ faults' = faults + 1
    /\ Interrupt(c)
    /\ Drop(c)
    /\ Goto(c, "release")
    /\ UNCHANGED <<lock, disk, call, target, calls, saved, started, lost, stolen>>

\* Another caller already renamed the shared temporary file: ENOENT, and the
\* finally block runs.
RenameFails(c) ==
    /\ pc[c] = "rename"
    /\ tmp[target[c]] = Absent
    /\ Drop(c)
    /\ Goto(c, "release")
    /\ UNCHANGED <<lock, disk, call, target, calls, faults, ghosts, stolen>>

\* releaseLock: unlink the lock file, whoever created it.
Release(c) ==
    /\ pc[c] = "release"
    /\ lock' = NoOne
    /\ Return(c)
    /\ UNCHANGED <<disk, calls, faults, ghosts, stolen>>

\* The backend process dies; its lock file stays behind.
Crash(c) ==
    /\ pc[c] # "idle"
    /\ faults < MaxFaults
    /\ faults' = faults + 1
    /\ lock' = IF lock = c THEN Orphan ELSE lock
    /\ Return(c)
    /\ Interrupt(c)
    /\ UNCHANGED <<disk, calls, saved, started, lost, stolen>>

Step(c) ==
    \/ Acquire(c) \/ TimeOut(c) \/ ForceRemove(c) \/ Retry(c)
    \/ Load(c) \/ OpenTmp(c) \/ FillTmp(c) \/ Rename(c) \/ RenameFails(c)
    \/ Release(c)

Next == \E c \in Callers :
            Call(c) \/ Step(c) \/ LoadFails(c) \/ WriteFails(c) \/ Crash(c)

\* The event loop and the file system keep serving every caller.
Fairness == \A c \in Callers : WF_vars(Step(c))

Spec == Init /\ [][Next]_vars /\ Fairness
-----------------------------------------------------------------------------
(* Properties. *)

DiskType ==
    /\ lock \in Callers \cup {NoOne, Orphan}
    /\ progress \in ProgressRecord \cup {Absent, Partial}
    /\ history \in HistoryRecord \cup {Absent, Partial}
    /\ tmp = [f \in Files |-> tmp[f]]
    /\ tmp["progress"] \in ProgressRecord \cup {Absent, Partial}
    /\ tmp["history"] \in HistoryRecord \cup {Absent, Partial}

CallType ==
    /\ pc \in [Callers -> {"idle", "wait", "unlink", "retry", "load", "open",
                           "fill", "rename", "release"}]
    /\ call \in [Callers -> Calls \cup {NoRecord}]
    /\ target \in [Callers -> Files]
    /\ mine = [c \in Callers |-> mine[c]]
    /\ misread \in [Callers -> BOOLEAN]
    /\ \A c \in Callers :
          /\ pc[c] # "idle" => call[c] \in Calls
          /\ target[c] = "history" => pc[c] # "idle" /\ call[c].op # "practice"
          /\ pc[c] \in {"open", "fill", "rename"} =>
                mine[c] \in IF target[c] = "progress" THEN ProgressRecord ELSE HistoryRecord

CountType ==
    /\ calls \in Nat /\ faults \in Nat
    /\ saved \in [Ops -> Nat]
    /\ started \in [Lessons -> Nat]
    /\ lost \in [Ops -> Nat]
    /\ unlogged \in [Lessons -> Nat]
    /\ stolen \in BOOLEAN

\* Every variable has its type: in particular the lock file is free, left
\* behind by a dead process, or of a live call, and mastery stays within 0..1.0.
TypeOK ==
    /\ DiskType
    /\ CallType
    /\ CountType

Holding == {"load", "open", "fill", "rename", "release"}

\* A call between its load and its release owns the lock file, so at most one
\* call updates the files: this can be lost only by removing a live lock.
Exclusion == ~stolen => \A c \in Callers : pc[c] \in Holding => lock = c

\* No update is lost and none is counted twice: the completed lessons and the
\* practice minutes on disk are those of the calls that reached the file,
\* through every interleaving and every crash, less those that a call forgot
\* because its own read of the file failed.  (Those are lost: "Total number of
\* lessons completed across all courses", progress-protocol.ts, is then not that.)
NoLostUpdate ==
    ~stolen =>
        /\ progress # Partial
        /\ \A c \in Callers :
              /\ ReadProgress(progress, c).completed + lost["complete"] = saved["complete"]
              /\ ReadProgress(progress, c).minutes + lost["practice"] = saved["practice"]

\* The two files, written one after the other, disagree about a lesson by the
\* start being recorded right now, by those a crash or a refused write
\* interrupted in between, by those a failed read of the history made a save of
\* it forget, and by nothing else.
HistoryFollows ==
    ~stolen => \A l \in Lessons :
        ReadHistory(history)[l].attempts + unlogged[l]
            + (IF \E c \in Callers : InFlight(c, l) THEN 1 ELSE 0)
        = started[l]

\* The record on disk stays a whole record of the same student and forgets no
\* completed lesson.
RecordKept ==
    /\ progress' \notin {Absent, Partial}
    /\ progress'.studentId = progress.studentId
    /\ progress'.completed >= progress.completed

\* Only a failed read resets the student: a step that does not keep the record
\* is the save of a call whose own read of the file failed.  No crash, refused
\* write or other caller can do it.
RecordSurvives ==
    [][(progress # Absent /\ ~stolen') =>
          \/ RecordKept
          \/ \E c \in Callers : misread[c] /\ target[c] = "progress" /\ Rename(c)]_vars

\* Every call returns, also when a killed process left its lock file behind:
\* the wait is bounded by the time-out, and so is the retry.
EveryCallReturns == \A c \in Callers : pc[c] = "wait" ~> pc[c] = "idle"

\* "Stale lock -- force remove": the lock file a time-out removes is one whose
\* creator is gone.
OnlyStaleLocksRemoved == ~stolen
=============================================================================
