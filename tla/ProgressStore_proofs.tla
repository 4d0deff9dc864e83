----------------------- MODULE ProgressStore_proofs -----------------------
(***************************************************************************)
(* The progress store is safe for every set of callers and lessons and     *)
(* every bound, as long as no live lock is removed.                        *)
(***************************************************************************)
EXTENDS ProgressStore, TLAPS

LEMMA TallyType ==
    ASSUME NEW p \in ProgressRecord, NEW k \in Calls
    PROVE  Tally(p, k) \in ProgressRecord
<1>1. MasteryCap \in Nat BY ConstantsAssumption
<1>2. CASE k.op = "start"
  <2>1. Tally(p, k) = [p EXCEPT !.inProgress = @ + 1] BY <1>2 DEF Tally
  <2> QED BY <2>1 DEF ProgressRecord
<1>3. CASE k.op = "complete"
  <2>1. Tally(p, k) = [p EXCEPT !.completed = @ + 1,
                                !.inProgress = IF @ > 0 THEN @ - 1 ELSE @]
    BY <1>3, k.op # "start" DEF Tally
  <2>2. p.completed + 1 \in Nat BY DEF ProgressRecord
  <2>3. (IF p.inProgress > 0 THEN p.inProgress - 1 ELSE p.inProgress) \in Nat
    BY DEF ProgressRecord
  <2> QED BY <2>1, <2>2, <2>3 DEF ProgressRecord
<1>4. CASE k.op = "practice"
  <2>1. Tally(p, k) =
          [p EXCEPT !.mastery = IF @ + 1 < MasteryCap THEN @ + 1 ELSE MasteryCap,
                    !.minutes = @ + 1]
    BY <1>4, k.op # "start", k.op # "complete" DEF Tally
  <2>2. (IF p.mastery + 1 < MasteryCap THEN p.mastery + 1 ELSE MasteryCap) \in 0 .. MasteryCap
    BY <1>1 DEF ProgressRecord
  <2>3. p.minutes + 1 \in Nat BY DEF ProgressRecord
  <2> QED BY <2>1, <2>2, <2>3 DEF ProgressRecord
<1> QED BY <1>2, <1>3, <1>4 DEF Calls

LEMMA LogType ==
    ASSUME NEW h \in HistoryRecord, NEW k \in Calls, k.op # "practice"
    PROVE  LogLesson(h, k) \in HistoryRecord
<1>1. k.lesson \in Lessons BY DEF Calls
<1> QED BY <1>1 DEF LogLesson, HistoryRecord, LessonRecord

LEMMA NewTypes ==
    /\ \A c \in Callers : NewProgress(c) \in ProgressRecord
    /\ NewHistory \in HistoryRecord
<1>1. MasteryCap \in Nat BY ConstantsAssumption
<1>2. \A c \in Callers : NewProgress(c) \in ProgressRecord
  BY <1>1 DEF NewProgress, ProgressRecord
<1>3. NewHistory \in HistoryRecord BY DEF NewHistory, HistoryRecord, LessonRecord
<1> QED BY <1>2, <1>3

LEMMA ReadProgressType ==
    ASSUME NEW file \in ProgressRecord \cup {Absent, Partial}, NEW c \in Callers
    PROVE  ReadProgress(file, c) \in ProgressRecord
BY NewTypes DEF ReadProgress

LEMMA ReadHistoryType ==
    ASSUME NEW file \in HistoryRecord \cup {Absent, Partial}
    PROVE  ReadHistory(file) \in HistoryRecord
BY NewTypes DEF ReadHistory

LEMMA InitType == Init => TypeOK
<1> SUFFICES ASSUME Init PROVE TypeOK OBVIOUS
<1>1. DiskType BY DEF Init, DiskType, Files
<1>2. CallType BY DEF Init, CallType, Files
<1>3. CountType BY DEF Init, CountType
<1> QED BY <1>1, <1>2, <1>3 DEF TypeOK

LEMMA InterruptType ==
    ASSUME NEW c \in Callers, unlogged \in [Lessons -> Nat], Interrupt(c)
    PROVE  unlogged' \in [Lessons -> Nat]
<1>1. ASSUME NEW l \in Lessons
      PROVE  (IF InFlight(c, l) THEN unlogged[l] + 1 ELSE unlogged[l]) \in Nat
  <2>1. unlogged[l] \in Nat OBVIOUS
  <2> QED BY <2>1
<1> QED BY <1>1 DEF Interrupt

LEMMA CallTypeStep ==
    ASSUME TypeOK, NEW c \in Callers, Call(c) \/ Step(c) \/ LoadFails(c) \/ WriteFails(c) \/ Crash(c)
    PROVE  CallType'
<1> USE DEF TypeOK, CallType, Goto, Files, Drop
<1>1. CASE Call(c) BY <1>1 DEF Call
<1>2. CASE Acquire(c) BY <1>2 DEF Acquire
<1>3. CASE TimeOut(c) BY <1>3 DEF TimeOut
<1>4. CASE ForceRemove(c) BY <1>4 DEF ForceRemove
<1>5. CASE Retry(c)
  <2>1. CASE Return(c) BY <2>1 DEF Return
  <2>2. CASE Goto(c, "load") /\ UNCHANGED <<call, target, mine, misread>> BY <1>5, <2>2 DEF Retry
  <2> QED BY <1>5, <2>1, <2>2 DEF Retry
<1>6. CASE Load(c)
  <2>1. target[c] = "progress" => mine'[c] \in ProgressRecord
    BY <1>6, TallyType, ReadProgressType DEF Load, DiskType
  <2>2. target[c] = "history" => mine'[c] \in HistoryRecord
    BY <1>6, LogType, ReadHistoryType DEF Load, DiskType
  <2> QED BY <1>6, <2>1, <2>2 DEF Load
<1>7. CASE OpenTmp(c) BY <1>7 DEF OpenTmp
<1>8. CASE FillTmp(c) BY <1>8 DEF FillTmp
<1>9. CASE Rename(c)
  <2>1. CASE SwapProgress(c)
    <3>1. CASE call[c].op = "practice" BY <1>9, <2>1, <3>1 DEF Rename, SwapProgress
    <3>2. CASE call[c].op # "practice" BY <1>9, <2>1, <3>2 DEF Rename, SwapProgress
    <3> QED BY <3>1, <3>2
  <2>2. CASE SwapHistory(c) BY <1>9, <2>2 DEF Rename, SwapHistory
  <2> QED BY <1>9, <2>1, <2>2 DEF Rename
<1>10. CASE RenameFails(c) BY <1>10 DEF RenameFails
<1>11. CASE Release(c) BY <1>11 DEF Release, Return
<1>12. CASE WriteFails(c) BY <1>12 DEF WriteFails
<1>13. CASE Crash(c) BY <1>13 DEF Crash, Return
<1>14. CASE LoadFails(c)
  <2>1. target[c] = "progress" => mine'[c] \in ProgressRecord
    BY <1>14, TallyType, NewTypes DEF LoadFails
  <2>2. target[c] = "history" => mine'[c] \in HistoryRecord
    BY <1>14, LogType, NewTypes DEF LoadFails
  <2> QED BY <1>14, <2>1, <2>2 DEF LoadFails
<1> QED BY <1>1, <1>2, <1>3, <1>4, <1>5, <1>6, <1>7, <1>8, <1>9, <1>10, <1>11,
           <1>12, <1>13, <1>14 DEF Step

LEMMA DiskTypeStep ==
    ASSUME TypeOK, NEW c \in Callers, Call(c) \/ Step(c) \/ LoadFails(c) \/ WriteFails(c) \/ Crash(c)
    PROVE  DiskType'
<1> USE DEF TypeOK, DiskType, Files, disk
<1>1. CASE Call(c) \/ TimeOut(c) \/ Load(c) \/ LoadFails(c) \/ RenameFails(c) \/ WriteFails(c)
  BY <1>1 DEF Call, TimeOut, Load, LoadFails, RenameFails, WriteFails
<1>2. CASE Acquire(c) \/ ForceRemove(c) \/ Retry(c) \/ Release(c) \/ Crash(c)
  BY <1>2 DEF Acquire, ForceRemove, Retry, Release, Crash
<1>3. CASE OpenTmp(c) BY <1>3 DEF OpenTmp
<1>4. CASE FillTmp(c) BY <1>4 DEF FillTmp, CallType
<1>5. CASE Rename(c) BY <1>5 DEF Rename, SwapProgress, SwapHistory
<1> QED BY <1>1, <1>2, <1>3, <1>4, <1>5 DEF Step

LEMMA CountTypeStep ==
    ASSUME TypeOK, NEW c \in Callers, Call(c) \/ Step(c) \/ LoadFails(c) \/ WriteFails(c) \/ Crash(c)
    PROVE  CountType'
<1> USE DEF TypeOK, CountType, ghosts
<1>1. CASE Call(c) \/ Acquire(c) \/ TimeOut(c) \/ Retry(c) \/ Load(c) \/ LoadFails(c)
  BY <1>1 DEF Call, Acquire, TimeOut, Retry, Load, LoadFails
<1>7. CASE ForceRemove(c)
  <2>1. stolen' \in BOOLEAN BY <1>7, Zenon DEF ForceRemove
  <2> QED BY <1>7, <2>1 DEF ForceRemove
<1>2. CASE OpenTmp(c) BY <1>2 DEF OpenTmp
<1>3. CASE FillTmp(c) BY <1>3 DEF FillTmp
<1>4. CASE RenameFails(c) \/ Release(c) BY <1>4 DEF RenameFails, Release
<1>5. CASE Rename(c)
  <2>1. CASE SwapProgress(c)
    <3>1. call[c].op \in Ops /\ (call[c].op = "start" => call[c].lesson \in Lessons)
      BY <1>5 DEF Rename, CallType, Calls, Ops
    <3> QED BY <1>5, <2>1, <3>1 DEF Rename, SwapProgress
  <2>2. CASE SwapHistory(c)
    <3>1. ReadHistory(history) \in HistoryRecord BY ReadHistoryType DEF DiskType
    <3>2. \A l \in Lessons : unlogged[l] + ReadHistory(history)[l].attempts \in Nat
      BY <3>1 DEF HistoryRecord, LessonRecord
    <3>3. unlogged' \in [Lessons -> Nat] BY <2>2, <3>2 DEF SwapHistory
    <3> QED BY <1>5, <2>2, <3>3 DEF Rename, SwapHistory
  <2> QED BY <1>5, <2>1, <2>2 DEF Rename
<1>6. CASE WriteFails(c) \/ Crash(c)
  <2>1. unlogged' \in [Lessons -> Nat] BY <1>6, InterruptType DEF WriteFails, Crash
  <2> QED BY <1>6, <2>1 DEF WriteFails, Crash
<1> QED BY <1>1, <1>2, <1>3, <1>4, <1>5, <1>6, <1>7 DEF Step

LEMMA NextType == TypeOK /\ [Next]_vars => TypeOK'
<1> SUFFICES ASSUME TypeOK, [Next]_vars PROVE TypeOK' OBVIOUS
<1>1. CASE Next
  <2>1. PICK c \in Callers :
         Call(c) \/ Step(c) \/ LoadFails(c) \/ WriteFails(c) \/ Crash(c)
    BY <1>1 DEF Next
  <2>2. CallType' BY <2>1, CallTypeStep
  <2>3. DiskType' BY <2>1, DiskTypeStep
  <2>4. CountType' BY <2>1, CountTypeStep
  <2> QED BY <2>2, <2>3, <2>4 DEF TypeOK
<1>2. CASE UNCHANGED vars
  BY <1>2 DEF TypeOK, DiskType, CallType, CountType, vars, disk, caller, ghosts
<1> QED BY <1>1, <1>2

\* The lock, the files and the calls keep their types for every set of callers.
THEOREM TypeCorrect == Spec => []TypeOK
BY InitType, NextType, PTL DEF Spec
-----------------------------------------------------------------------------
LEMMA NextExclusion == TypeOK /\ Exclusion /\ [Next]_vars => Exclusion'
<1> SUFFICES ASSUME TypeOK, Exclusion, [Next]_vars, ~stolen'
             PROVE  \A d \in Callers : pc'[d] \in Holding => lock' = d
  BY DEF Exclusion
<1> USE DEF TypeOK, DiskType, CallType, Exclusion, Holding, Goto, ghosts, disk
<1>0. NoOne \notin Callers /\ Orphan \notin Callers BY ConstantsAssumption
<1>1. ASSUME NEW c \in Callers, Call(c) \/ TimeOut(c) \/ Load(c) \/ LoadFails(c) \/ OpenTmp(c)
                                \/ FillTmp(c) \/ RenameFails(c) \/ WriteFails(c)
      PROVE  \A d \in Callers : pc'[d] \in Holding => lock' = d
  BY <1>1 DEF Call, TimeOut, Load, LoadFails, OpenTmp, FillTmp, RenameFails, WriteFails
<1>2. ASSUME NEW c \in Callers, Acquire(c)
      PROVE  \A d \in Callers : pc'[d] \in Holding => lock' = d
  BY <1>0, <1>2 DEF Acquire
<1>3. ASSUME NEW c \in Callers, ForceRemove(c)
      PROVE  \A d \in Callers : pc'[d] \in Holding => lock' = d
  BY <1>0, <1>3 DEF ForceRemove
<1>4. ASSUME NEW c \in Callers, Retry(c)
      PROVE  \A d \in Callers : pc'[d] \in Holding => lock' = d
  BY <1>0, <1>4 DEF Retry, Return
<1>5. ASSUME NEW c \in Callers, Rename(c)
      PROVE  \A d \in Callers : pc'[d] \in Holding => lock' = d
  BY <1>5 DEF Rename, SwapProgress, SwapHistory
<1>6. ASSUME NEW c \in Callers, Release(c)
      PROVE  \A d \in Callers : pc'[d] \in Holding => lock' = d
  BY <1>6 DEF Release, Return
<1>7. ASSUME NEW c \in Callers, Crash(c)
      PROVE  \A d \in Callers : pc'[d] \in Holding => lock' = d
  BY <1>7 DEF Crash, Return
<1>8. CASE UNCHANGED vars BY <1>8 DEF vars, caller
<1> QED BY <1>1, <1>2, <1>3, <1>4, <1>5, <1>6, <1>7, <1>8 DEF Next, Step

\* A call in its critical section owns the lock file until some call removes
\* the lock of a live one.
THEOREM ExclusionHolds == Spec => []Exclusion
<1>1. Init => Exclusion BY DEF Init, Exclusion, Holding
<1> QED BY <1>1, NextExclusion, TypeCorrect, PTL DEF Spec
-----------------------------------------------------------------------------
LEMMA TallyCounts ==
    ASSUME NEW p \in ProgressRecord, NEW k \in Calls
    PROVE  /\ Tally(p, k).studentId = p.studentId
           /\ Tally(p, k).completed = IF k.op = "complete" THEN p.completed + 1 ELSE p.completed
           /\ Tally(p, k).minutes = IF k.op = "practice" THEN p.minutes + 1 ELSE p.minutes
<1>1. CASE k.op = "start"
  <2>1. Tally(p, k) = [p EXCEPT !.inProgress = @ + 1] BY <1>1 DEF Tally
  <2> QED BY <1>1, <2>1 DEF ProgressRecord
<1>2. CASE k.op = "complete"
  <2>1. Tally(p, k) = [p EXCEPT !.completed = @ + 1,
                                !.inProgress = IF @ > 0 THEN @ - 1 ELSE @]
    BY <1>2, k.op # "start" DEF Tally
  <2> QED BY <1>2, <2>1 DEF ProgressRecord
<1>3. CASE k.op = "practice"
  <2>1. Tally(p, k) =
          [p EXCEPT !.mastery = IF @ + 1 < MasteryCap THEN @ + 1 ELSE MasteryCap,
                    !.minutes = @ + 1]
    BY <1>3, k.op # "start", k.op # "complete" DEF Tally
  <2> QED BY <1>3, <2>1 DEF ProgressRecord
<1> QED BY <1>1, <1>2, <1>3 DEF Calls

\* What a call takes the progress file to hold.
BasisP(c) == IF misread[c] THEN NewProgress(c) ELSE ReadProgress(progress, c)

\* What a call holds in memory, and what it has put in its temporary file, is
\* the file as it still is, or the default if the call could not read it, with
\* this one call applied: no other call can have written since.
Fresh(c) ==
    /\ (target[c] = "progress" /\ pc[c] \in {"open", "fill", "rename"}) =>
          mine[c] = Tally(BasisP(c), call[c])
    /\ pc[c] = "rename" => tmp[target[c]] = mine[c]

DataInv == NoLostUpdate /\ (~stolen => \A c \in Callers : Fresh(c))

\* The step that moves the updated progress file into place.
LEMMA SwapStep ==
    ASSUME TypeOK, Exclusion, DataInv, ~stolen,
           NEW c \in Callers, Rename(c), SwapProgress(c)
    PROVE  /\ progress' = Tally(BasisP(c), call[c])
           /\ progress' \in ProgressRecord
           /\ call[c] \in Calls
<1>1. call[c] \in Calls BY DEF TypeOK, CallType, Rename
<1>2. progress' = Tally(BasisP(c), call[c])
  BY DEF DataInv, Fresh, Rename, SwapProgress
<1>3. BasisP(c) \in ProgressRecord
  BY NewTypes, ReadProgressType DEF BasisP, TypeOK, DiskType
<1> QED BY <1>1, <1>2, <1>3, TallyType

LEMMA NextFresh ==
    ASSUME TypeOK, Exclusion, DataInv, [Next]_vars, ~stolen', ~stolen
    PROVE  \A d \in Callers : Fresh(d)'
<1> USE DEF TypeOK, CallType, DataInv, Fresh, BasisP, Goto, Drop
<1>1. ASSUME NEW c \in Callers, Call(c) \/ Acquire(c) \/ TimeOut(c)
      PROVE  \A d \in Callers : Fresh(d)'
  BY <1>1 DEF Call, Acquire, TimeOut, disk
<1>2. ASSUME NEW c \in Callers, ForceRemove(c) \/ RenameFails(c) \/ WriteFails(c)
      PROVE  \A d \in Callers : Fresh(d)'
  BY <1>2 DEF ForceRemove, RenameFails, WriteFails, disk
<1>3. ASSUME NEW c \in Callers, Retry(c)
      PROVE  \A d \in Callers : Fresh(d)'
  BY <1>3 DEF Retry, Return, disk
<1>4. ASSUME NEW c \in Callers, Release(c) \/ Crash(c)
      PROVE  \A d \in Callers : Fresh(d)'
  BY <1>4 DEF Release, Crash, Return, disk
<1>5. ASSUME NEW c \in Callers, Load(c)
      PROVE  \A d \in Callers : Fresh(d)'
  BY <1>5 DEF Load, disk, ReadProgress, NewProgress
<1>8. ASSUME NEW c \in Callers, LoadFails(c)
      PROVE  \A d \in Callers : Fresh(d)'
  BY <1>8 DEF LoadFails, disk, ReadProgress, NewProgress
<1>6. ASSUME NEW c \in Callers, OpenTmp(c) \/ FillTmp(c) \/ Rename(c)
      PROVE  \A d \in Callers : Fresh(d)'
  <2>1. \A d \in Callers \ {c} : pc'[d] = pc[d] /\ pc[d] \notin Holding
    BY <1>6 DEF OpenTmp, FillTmp, Rename, SwapProgress, SwapHistory, Exclusion, Holding
  <2>2. \A d \in Callers \ {c} : Fresh(d)' BY <2>1 DEF Holding
  <2>3. CASE OpenTmp(c) BY <2>2, <2>3 DEF OpenTmp
  <2>4. CASE FillTmp(c) BY <2>2, <2>4 DEF FillTmp, DiskType, Files
  <2>5. CASE Rename(c) BY <2>2, <2>5 DEF Rename, SwapProgress, SwapHistory
  <2> QED BY <1>6, <2>3, <2>4, <2>5
<1>7. CASE UNCHANGED vars BY <1>7 DEF vars, caller, disk, ReadProgress, NewProgress
<1> QED BY <1>1, <1>2, <1>3, <1>4, <1>5, <1>6, <1>7, <1>8 DEF Next, Step

LEMMA NextNoLostUpdate ==
    ASSUME TypeOK, Exclusion, DataInv, [Next]_vars, ~stolen', ~stolen
    PROVE  NoLostUpdate'
<1>1. CASE UNCHANGED <<progress, saved, lost>>
  BY <1>1 DEF DataInv, NoLostUpdate, ReadProgress, NewProgress
<1>2. ASSUME NEW c \in Callers, Rename(c), SwapProgress(c) PROVE NoLostUpdate'
  <2>1. /\ progress' = Tally(BasisP(c), call[c])
        /\ progress' \in ProgressRecord /\ call[c] \in Calls
    BY <1>2, SwapStep
  <2>2. NewProgress(c) \in ProgressRecord /\ ReadProgress(progress, c) \in ProgressRecord
    BY NewTypes, ReadProgressType DEF TypeOK, DiskType
  <2>3. progress' \notin {Absent, Partial} BY <2>1, FilesAssumption
  <2>4. \A d \in Callers : ReadProgress(progress, d)' = progress'
    BY <2>3 DEF ReadProgress
  <2>5. /\ saved \in [Ops -> Nat] /\ lost \in [Ops -> Nat]
        /\ saved' = [saved EXCEPT ![call[c].op] = @ + 1] /\ call[c].op \in Ops
        /\ lost' = IF misread[c] THEN saved ELSE lost
    BY <1>2, <2>1 DEF SwapProgress, TypeOK, CountType, Ops, Calls
  <2>6. /\ progress'.completed + lost'["complete"] = saved'["complete"]
        /\ progress'.minutes + lost'["practice"] = saved'["practice"]
    <3>1. CASE misread[c]
      <4>1. progress' = Tally(NewProgress(c), call[c]) /\ lost' = saved
        BY <2>1, <2>5, <3>1 DEF BasisP
      <4>2. NewProgress(c).completed = 0 /\ NewProgress(c).minutes = 0 BY DEF NewProgress
      <4> QED BY <2>1, <2>2, <2>5, <4>1, <4>2, TallyCounts DEF Ops
    <3>2. CASE ~misread[c]
      <4>1. progress' = Tally(ReadProgress(progress, c), call[c]) /\ lost' = lost
        BY <2>1, <2>5, <3>2 DEF BasisP
      <4>2. /\ ReadProgress(progress, c).completed + lost["complete"] = saved["complete"]
            /\ ReadProgress(progress, c).minutes + lost["practice"] = saved["practice"]
        BY DEF DataInv, NoLostUpdate
      <4>3. /\ ReadProgress(progress, c).completed \in Nat
            /\ ReadProgress(progress, c).minutes \in Nat
        BY <2>2 DEF ProgressRecord
      <4> QED BY <2>1, <2>2, <2>5, <4>1, <4>2, <4>3, TallyCounts DEF Ops
    <3> QED BY <3>1, <3>2
  <2> QED BY <2>3, <2>4, <2>6 DEF NoLostUpdate
<1>3. \/ UNCHANGED <<progress, saved, lost>>
      \/ \E c \in Callers : Rename(c) /\ SwapProgress(c)
  BY DEF Next, Step, Call, Acquire, TimeOut, ForceRemove, Retry, Load, LoadFails, OpenTmp,
         FillTmp, Rename, SwapHistory, RenameFails, Release, WriteFails, Crash,
         disk, ghosts, vars
<1> QED BY <1>1, <1>2, <1>3

LEMMA StolenStays == ~stolen' /\ TypeOK /\ [Next]_vars => ~stolen
BY Zenon DEF Next, Step, Call, Acquire, TimeOut, ForceRemove, Retry, Load, LoadFails, OpenTmp,
   FillTmp, Rename, SwapProgress, SwapHistory, RenameFails, Release, WriteFails, Crash,
   disk, ghosts, vars

LEMMA NextDataInv == TypeOK /\ Exclusion /\ DataInv /\ [Next]_vars => DataInv'
<1> SUFFICES ASSUME TypeOK, Exclusion, DataInv, [Next]_vars, ~stolen'
             PROVE  NoLostUpdate' /\ \A d \in Callers : Fresh(d)'
  BY DEF DataInv, NoLostUpdate
<1> QED BY StolenStays, NextFresh, NextNoLostUpdate

LEMMA InitDataInv == Init => DataInv
BY FilesAssumption DEF Init, DataInv, NoLostUpdate, Fresh, ReadProgress, NewProgress, Ops

\* No interleaving and no crash loses or repeats an update of the progress
\* file while no live lock is removed.
THEOREM NoLostUpdateHolds == Spec => []NoLostUpdate
<1>1. Spec => []DataInv
  BY InitDataInv, NextDataInv, TypeCorrect, ExclusionHolds, PTL DEF Spec
<1>2. DataInv => NoLostUpdate BY DEF DataInv
<1> QED BY <1>1, <1>2, PTL

\* While no live lock is removed, a step that resets the student's record or
\* forgets a completed lesson is the save of a call whose own read failed.
THEOREM RecordSurvivesHolds == Spec => RecordSurvives
<1> DEFINE Resets == \E c \in Callers : misread[c] /\ target[c] = "progress" /\ Rename(c)
<1>1. Spec => []DataInv
  BY InitDataInv, NextDataInv, TypeCorrect, ExclusionHolds, PTL DEF Spec
<1>2. TypeOK /\ Exclusion /\ DataInv /\ [Next]_vars =>
        [(progress # Absent /\ ~stolen') => RecordKept \/ Resets]_vars
  <2> SUFFICES ASSUME TypeOK, Exclusion, DataInv, [Next]_vars, progress # Absent, ~stolen'
               PROVE  RecordKept \/ Resets
    OBVIOUS
  <2>1. ~stolen BY StolenStays
  <2>2. progress \in ProgressRecord /\ progress # Partial
    BY <2>1 DEF TypeOK, DiskType, DataInv, NoLostUpdate
  <2>3. CASE UNCHANGED progress BY <2>2, <2>3, FilesAssumption DEF ProgressRecord, RecordKept
  <2>4. ASSUME NEW c \in Callers, Rename(c), SwapProgress(c), ~misread[c] PROVE RecordKept
    <3>1. /\ progress' = Tally(progress, call[c])
          /\ progress' \in ProgressRecord /\ call[c] \in Calls
      BY <2>1, <2>2, <2>4, SwapStep DEF ReadProgress, BasisP
    <3>2. progress' \notin {Absent, Partial} BY <3>1, FilesAssumption
    <3>3. progress.completed \in Nat BY <2>2 DEF ProgressRecord
    <3> QED BY <2>2, <3>1, <3>2, <3>3, TallyCounts DEF RecordKept
  <2>5. ASSUME NEW c \in Callers, Rename(c), SwapProgress(c), misread[c] PROVE Resets
    BY <2>5 DEF SwapProgress
  <2>6. \/ UNCHANGED progress
        \/ \E c \in Callers : Rename(c) /\ SwapProgress(c)
    BY DEF Next, Step, Call, Acquire, TimeOut, ForceRemove, Retry, Load, LoadFails, OpenTmp,
           FillTmp, Rename, SwapHistory, RenameFails, Release, WriteFails, Crash,
           disk, vars
  <2> QED BY <2>3, <2>4, <2>5, <2>6
<1> QED BY <1>1, <1>2, TypeCorrect, ExclusionHolds, PTL DEF Spec, RecordSurvives
-----------------------------------------------------------------------------
\* What a call takes the history file to hold.
BasisH(c) == IF misread[c] THEN NewHistory ELSE ReadHistory(history)

\* The contents for the history file are that file as it still is, or the
\* default if the call could not read it, with this one call applied, and a call that does not hold the lock yet is to begin
\* with the progress file.
HistoryFresh(c) ==
    /\ (target[c] = "history" /\ pc[c] \in {"open", "fill", "rename"}) =>
          mine[c] = LogLesson(BasisH(c), call[c])
    /\ pc[c] \in {"wait", "unlink", "retry"} => target[c] = "progress"

HistoryInv == HistoryFollows /\ (~stolen => \A c \in Callers : HistoryFresh(c))

Pending(l) == IF \E c \in Callers : InFlight(c, l) THEN 1 ELSE 0

LEMMA NextHistoryFresh ==
    ASSUME TypeOK, Exclusion, DataInv, HistoryInv, [Next]_vars, ~stolen', ~stolen
    PROVE  \A d \in Callers : HistoryFresh(d)'
<1> USE DEF TypeOK, CallType, HistoryInv, HistoryFresh, BasisH, Goto, Drop
<1>1. ASSUME NEW c \in Callers, Call(c) \/ Acquire(c) \/ TimeOut(c)
      PROVE  \A d \in Callers : HistoryFresh(d)'
  BY <1>1 DEF Call, Acquire, TimeOut, disk, Files
<1>2. ASSUME NEW c \in Callers, ForceRemove(c) \/ RenameFails(c) \/ WriteFails(c)
      PROVE  \A d \in Callers : HistoryFresh(d)'
  BY <1>2 DEF ForceRemove, RenameFails, WriteFails, disk
<1>3. ASSUME NEW c \in Callers, Retry(c)
      PROVE  \A d \in Callers : HistoryFresh(d)'
  BY <1>3 DEF Retry, Return, disk
<1>4. ASSUME NEW c \in Callers, Release(c) \/ Crash(c)
      PROVE  \A d \in Callers : HistoryFresh(d)'
  BY <1>4 DEF Release, Crash, Return, disk
<1>5. ASSUME NEW c \in Callers, Load(c)
      PROVE  \A d \in Callers : HistoryFresh(d)'
  BY <1>5 DEF Load, disk
<1>8. ASSUME NEW c \in Callers, LoadFails(c)
      PROVE  \A d \in Callers : HistoryFresh(d)'
  BY <1>8 DEF LoadFails, disk
<1>6. ASSUME NEW c \in Callers, OpenTmp(c) \/ FillTmp(c) \/ Rename(c)
      PROVE  \A d \in Callers : HistoryFresh(d)'
  <2>1. \A d \in Callers \ {c} : pc'[d] = pc[d] /\ target'[d] = target[d] /\ pc[d] \notin Holding
    BY <1>6 DEF OpenTmp, FillTmp, Rename, SwapProgress, SwapHistory, Exclusion, Holding
  <2>2. \A d \in Callers \ {c} : HistoryFresh(d)' BY <2>1 DEF Holding
  <2>3. CASE OpenTmp(c) BY <2>2, <2>3 DEF OpenTmp
  <2>4. CASE FillTmp(c) BY <2>2, <2>4 DEF FillTmp
  <2>5. CASE Rename(c) BY <2>2, <2>5 DEF Rename, SwapProgress, SwapHistory
  <2> QED BY <1>6, <2>3, <2>4, <2>5
<1>7. CASE UNCHANGED vars BY <1>7 DEF vars, caller, disk
<1> QED BY <1>1, <1>2, <1>3, <1>4, <1>5, <1>6, <1>7, <1>8 DEF Next, Step

\* At most one lesson start is between its two files.
LEMMA OneInFlight ==
    ASSUME Exclusion, ~stolen, NEW c \in Callers, NEW d \in Callers,
           NEW l \in Lessons, NEW m \in Lessons, InFlight(c, l), InFlight(d, m)
    PROVE  c = d /\ l = m
<1>1. c = d BY DEF Exclusion, Holding, InFlight
<1> QED BY <1>1 DEF InFlight

\* The step that moves the updated history file into place.
LEMMA HistoryStep ==
    ASSUME TypeOK, Exclusion, DataInv, HistoryInv, ~stolen,
           NEW c \in Callers, Rename(c), SwapHistory(c)
    PROVE  /\ history' = LogLesson(BasisH(c), call[c])
           /\ history' \in HistoryRecord
           /\ call[c] \in Calls /\ call[c].op # "practice"
<1>1. call[c] \in Calls /\ call[c].op # "practice"
  BY DEF TypeOK, CallType, Rename, SwapHistory
<1>2. history' = LogLesson(BasisH(c), call[c])
  BY DEF HistoryInv, HistoryFresh, DataInv, Fresh, Rename, SwapHistory
<1>3. BasisH(c) \in HistoryRecord
  BY NewTypes, ReadHistoryType DEF BasisH, TypeOK, DiskType
<1> QED BY <1>1, <1>2, <1>3, LogType

LEMMA LogCounts ==
    ASSUME NEW h \in HistoryRecord, NEW k \in Calls, k.op # "practice", NEW l \in Lessons
    PROVE  LogLesson(h, k)[l].attempts =
             IF k.op = "start" /\ k.lesson = l THEN h[l].attempts + 1 ELSE h[l].attempts
BY DEF LogLesson, HistoryRecord, LessonRecord, Calls

\* What the steps that touch neither counter nor file do to the starts that are
\* between the two files: nothing.
LEMMA QuietStep ==
    ASSUME TypeOK, HistoryInv, ~stolen, NEW c \in Callers,
           \/ Call(c) \/ Acquire(c) \/ TimeOut(c) \/ ForceRemove(c) \/ Retry(c)
           \/ Load(c) \/ LoadFails(c) \/ OpenTmp(c) \/ FillTmp(c) \/ Release(c)
    PROVE  /\ UNCHANGED <<history, started, unlogged>>
           /\ \A d \in Callers, l \in Lessons : InFlight(d, l)' <=> InFlight(d, l)
<1> USE DEF TypeOK, CallType, HistoryInv, HistoryFresh, Goto, InFlight, disk, ghosts
<1>1. CASE Call(c) BY <1>1 DEF Call
<1>2. CASE Acquire(c) BY <1>2 DEF Acquire
<1>3. CASE TimeOut(c) BY <1>3 DEF TimeOut
<1>4. CASE ForceRemove(c) BY <1>4 DEF ForceRemove
<1>5. CASE Retry(c) BY <1>5 DEF Retry, Return
<1>6. CASE Load(c) \/ LoadFails(c) BY <1>6 DEF Load, LoadFails
<1>7. CASE OpenTmp(c) BY <1>7 DEF OpenTmp
<1>8. CASE FillTmp(c) BY <1>8 DEF FillTmp
<1>9. CASE Release(c) BY <1>9 DEF Release, Return
<1> QED BY <1>1, <1>2, <1>3, <1>4, <1>5, <1>6, <1>7, <1>8, <1>9

\* A refused write or a death: what was between the two files counts as unlogged.
LEMMA InterruptStep ==
    ASSUME TypeOK, ~stolen, NEW c \in Callers, WriteFails(c) \/ Crash(c)
    PROVE  /\ UNCHANGED <<history, started>>
           /\ \A l \in Lessons :
                unlogged'[l] = IF InFlight(c, l) THEN unlogged[l] + 1 ELSE unlogged[l]
           /\ \A l \in Lessons : ~InFlight(c, l)'
           /\ \A d \in Callers \ {c}, l \in Lessons : InFlight(d, l)' <=> InFlight(d, l)
<1> USE DEF TypeOK, CallType, Goto, InFlight, disk
<1>1. \A l \in Lessons :
        unlogged'[l] = IF InFlight(c, l) THEN unlogged[l] + 1 ELSE unlogged[l]
  <2>1. Interrupt(c) BY DEF WriteFails, Crash
  <2> QED BY <2>1 DEF Interrupt
<1>2. CASE WriteFails(c) BY <1>1, <1>2 DEF WriteFails
<1>3. CASE Crash(c) BY <1>1, <1>3 DEF Crash, Return
<1> QED BY <1>2, <1>3

LEMMA NextHistoryFollows ==
    ASSUME TypeOK, Exclusion, DataInv, HistoryInv, [Next]_vars, ~stolen', ~stolen,
           NEW l \in Lessons
    PROVE  ReadHistory(history')[l].attempts + unlogged'[l] + Pending(l)' = started'[l]
<1>1. ReadHistory(history)[l].attempts + unlogged[l] + Pending(l) = started[l]
  BY DEF HistoryInv, HistoryFollows, Pending
<1>2. /\ ReadHistory(history) \in HistoryRecord /\ ReadHistory(history)[l].attempts \in Nat
      /\ unlogged[l] \in Nat /\ started[l] \in Nat
  BY ReadHistoryType DEF TypeOK, DiskType, CountType, HistoryRecord, LessonRecord
<1>3. CASE /\ UNCHANGED <<history, started, unlogged>>
           /\ \A d \in Callers, m \in Lessons : InFlight(d, m)' <=> InFlight(d, m)
  <2>1. Pending(l)' = Pending(l) BY <1>3 DEF Pending
  <2> QED BY <1>1, <1>3, <2>1
<1>4. ASSUME NEW c \in Callers, WriteFails(c) \/ Crash(c)
      PROVE  ReadHistory(history')[l].attempts + unlogged'[l] + Pending(l)' = started'[l]
  <2>1. CASE InFlight(c, l)
    <3>1. Pending(l) = 1 BY <2>1 DEF Pending
    <3>2. \A d \in Callers : ~InFlight(d, l)'
      BY <1>4, <2>1, OneInFlight, InterruptStep
    <3>3. Pending(l)' = 0 BY <3>2 DEF Pending
    <3>4. unlogged'[l] = unlogged[l] + 1 /\ UNCHANGED <<history, started>>
      BY <1>4, <2>1, InterruptStep
    <3> QED BY <1>1, <1>2, <3>1, <3>3, <3>4
  <2>2. CASE ~InFlight(c, l)
    <3>1. Pending(l)' = Pending(l) BY <1>4, <2>2, InterruptStep DEF Pending
    <3>2. unlogged'[l] = unlogged[l] /\ UNCHANGED <<history, started>>
      BY <1>4, <2>2, InterruptStep
    <3> QED BY <1>1, <3>1, <3>2
  <2> QED BY <2>1, <2>2
<1>5. ASSUME NEW c \in Callers, Rename(c), SwapProgress(c)
      PROVE  ReadHistory(history')[l].attempts + unlogged'[l] + Pending(l)' = started'[l]
  <2>1. \A d \in Callers : ~InFlight(d, l)
    BY <1>5 DEF Exclusion, Holding, InFlight, Rename, SwapProgress
  <2>2. \A d \in Callers \ {c} : ~InFlight(d, l)'
    BY <1>5, <2>1 DEF InFlight, Rename, SwapProgress, Goto, TypeOK, CallType
  <2>3. UNCHANGED <<history, unlogged>> BY <1>5 DEF Rename, SwapProgress
  <2>4. Pending(l) = 0 BY <2>1 DEF Pending
  <2>5. call[c] \in Calls BY <1>5 DEF TypeOK, CallType, Rename
  <2>6. CASE call[c].op = "start" /\ call[c].lesson = l
    <3>1. InFlight(c, l)'
      BY <1>5, <2>6 DEF InFlight, Rename, SwapProgress, Goto, TypeOK, CallType
    <3>2. Pending(l)' = 1 BY <3>1 DEF Pending
    <3>3. started'[l] = started[l] + 1
      BY <1>5, <2>6 DEF SwapProgress, TypeOK, CountType
    <3> QED BY <1>1, <1>2, <2>3, <2>4, <3>2, <3>3
  <2>7. CASE ~(call[c].op = "start" /\ call[c].lesson = l)
    <3>1. ~InFlight(c, l)' BY <1>5, <2>7 DEF InFlight, Rename
    <3>2. Pending(l)' = 0 BY <2>2, <3>1 DEF Pending
    <3>3. started'[l] = started[l]
      BY <1>5, <2>7 DEF SwapProgress, TypeOK, CountType
    <3> QED BY <1>1, <1>2, <2>3, <2>4, <3>2, <3>3
  <2> QED BY <2>6, <2>7
<1>6. ASSUME NEW c \in Callers, Rename(c), SwapHistory(c)
      PROVE  ReadHistory(history')[l].attempts + unlogged'[l] + Pending(l)' = started'[l]
  <2>1. /\ history' = LogLesson(BasisH(c), call[c])
        /\ history' \in HistoryRecord
        /\ call[c] \in Calls /\ call[c].op # "practice"
    BY <1>6, HistoryStep
  <2>2. ReadHistory(history') = history' BY <2>1, FilesAssumption DEF ReadHistory
  <2>3. /\ UNCHANGED started
        /\ unlogged'[l] = IF misread[c] THEN unlogged[l] + ReadHistory(history)[l].attempts
                          ELSE unlogged[l]
    BY <1>6 DEF Rename, SwapHistory
  <2>4. \A d \in Callers : ~InFlight(d, l)'
    BY <1>6 DEF InFlight, Rename, SwapHistory, Goto, TypeOK, CallType, Exclusion, Holding
  <2>5. Pending(l)' = 0 BY <2>4 DEF Pending
  <2>6. InFlight(c, l) <=> call[c].op = "start" /\ call[c].lesson = l
    BY <1>6 DEF InFlight, Rename, SwapHistory
  <2>7. \A d \in Callers \ {c} : ~InFlight(d, l)
    BY <1>6 DEF InFlight, Rename, Exclusion, Holding
  <2>8. Pending(l) = IF call[c].op = "start" /\ call[c].lesson = l THEN 1 ELSE 0
    BY <2>6, <2>7 DEF Pending
  <2>9. BasisH(c) \in HistoryRecord /\ BasisH(c)[l].attempts \in Nat
    BY NewTypes, ReadHistoryType
       DEF BasisH, TypeOK, DiskType, HistoryRecord, LessonRecord
  <2>10. Pending(l) \in {0, 1} BY DEF Pending
  <2>11. ReadHistory(history')[l].attempts = BasisH(c)[l].attempts + Pending(l)
    BY <2>1, <2>2, <2>8, <2>9, LogCounts
  <2>12. BasisH(c)[l].attempts =
           IF misread[c] THEN 0 ELSE ReadHistory(history)[l].attempts
    BY DEF BasisH, NewHistory
  <2>13. CASE misread[c]
    <3>1. unlogged'[l] = unlogged[l] + ReadHistory(history)[l].attempts BY <2>3, <2>13
    <3>2. ReadHistory(history')[l].attempts = Pending(l) BY <2>10, <2>11, <2>12, <2>13
    <3>3. started'[l] = started[l] BY <2>3
    <3> QED BY <1>1, <1>2, <2>5, <2>10, <3>1, <3>2, <3>3
  <2>14. CASE ~misread[c]
    <3>1. unlogged'[l] = unlogged[l] BY <2>3, <2>14
    <3>2. ReadHistory(history')[l].attempts = ReadHistory(history)[l].attempts + Pending(l)
      BY <2>11, <2>12, <2>14
    <3>3. started'[l] = started[l] BY <2>3
    <3> QED BY <1>1, <1>2, <2>5, <2>10, <3>1, <3>2, <3>3
  <2> QED BY <2>13, <2>14
<1>7. ASSUME NEW c \in Callers, RenameFails(c)
      PROVE  FALSE
  BY <1>7, FilesAssumption
     DEF RenameFails, DataInv, Fresh, TypeOK, CallType, Files
<1>8. CASE UNCHANGED vars
  BY <1>3, <1>8 DEF vars, disk, caller, ghosts, InFlight
<1>9. ASSUME NEW c \in Callers, Step(c) \/ Call(c) \/ LoadFails(c)
      PROVE  ReadHistory(history')[l].attempts + unlogged'[l] + Pending(l)' = started'[l]
  <2>1. CASE Rename(c) BY <1>5, <1>6, <2>1 DEF Rename
  <2>2. CASE ~Rename(c) BY <1>3, <1>7, <1>9, <2>2, QuietStep DEF Step
  <2> QED BY <2>1, <2>2
<1> QED BY <1>4, <1>8, <1>9 DEF Next

LEMMA NextHistoryInv == TypeOK /\ Exclusion /\ DataInv /\ HistoryInv /\ [Next]_vars => HistoryInv'
<1> SUFFICES ASSUME TypeOK, Exclusion, DataInv, HistoryInv, [Next]_vars, ~stolen'
             PROVE  /\ \A d \in Callers : HistoryFresh(d)'
                    /\ \A l \in Lessons :
                         ReadHistory(history')[l].attempts + unlogged'[l] + Pending(l)' = started'[l]
  BY DEF HistoryInv, HistoryFollows, Pending
<1> QED BY StolenStays, NextHistoryFresh, NextHistoryFollows

LEMMA InitHistoryInv == Init => HistoryInv
BY DEF Init, HistoryInv, HistoryFollows, HistoryFresh, InFlight, ReadHistory, NewHistory

\* The two files disagree by nothing but the start under way and the starts
\* that faults interrupted, while no live lock is removed.
THEOREM HistoryFollowsHolds == Spec => []HistoryFollows
<1>1. Spec => []DataInv
  BY InitDataInv, NextDataInv, TypeCorrect, ExclusionHolds, PTL DEF Spec
<1>2. Spec => []HistoryInv
  BY <1>1, InitHistoryInv, NextHistoryInv, TypeCorrect, ExclusionHolds, PTL DEF Spec
<1>3. HistoryInv => HistoryFollows BY DEF HistoryInv
<1> QED BY <1>2, <1>3, PTL
=============================================================================
