------------------------- MODULE GuardianLog_proofs -------------------------
(***************************************************************************)
(* What the Guardian promises, for every set of invocations, requests and  *)
(* configurations and every bound: the log is written ahead of the         *)
(* answers, its chain verifies as far as the code lets it, a consent token *)
(* opens one decision, and what is allowed preserves agency.               *)
(***************************************************************************)
EXTENDS GuardianLog, TLAPS

Busy == {"last", "append", "reply"}

LEMMA AppendProperties ==
    ASSUME NEW S, NEW s \in Seq(S), NEW e \in S
    PROVE  /\ Append(s, e) \in Seq(S)
           /\ Len(s) \in Nat /\ DOMAIN s = 1 .. Len(s)
           /\ DOMAIN Append(s, e) = 1 .. Len(s) + 1
           /\ Len(Append(s, e)) = Len(s) + 1
           /\ Append(s, e)[Len(s) + 1] = e
           /\ \A k \in 1 .. Len(s) : Append(s, e)[k] = s[k]
OBVIOUS

LEMMA LogEntries ==
    ASSUME TypeOK
    PROVE  /\ Len(log) \in Nat /\ DOMAIN log = 1 .. Len(log)
           /\ \A k \in DOMAIN log : log[k] \in EntryRecord
BY DEF TypeOK

LEMMA DecisionKinds ==
    ASSUME NEW q, NEW c, NEW used, NEW now
    PROVE  Decision(q.action, q.ctx, c, used, now) \in Kinds \cup {"throws"}
BY DEF Decision, LoveKind, Kinds

LEMMA ScansType == \A seen \in Scans : seen \subseteq DOMAIN log
BY DEF Scans

SameVerdict(e, f) ==
    /\ e.id = f.id /\ e.timestamp = f.timestamp /\ e.request = f.request
    /\ e.kind = f.kind /\ e.bounds = f.bounds

\* The table keeps of an entry all but a value that is undefined.
LEMMA StoredEntry ==
    ASSUME NEW e \in EntryRecord
    PROVE  /\ Stored(e) \in EntryRecord /\ SameVerdict(Stored(e), e)
           /\ Stored(e).previous = e.previous /\ Stored(e).hash = e.hash
           /\ e.nextNonce = "uuid" => Stored(e) = e
BY DEF Stored, EntryRecord, NonceForms, SameVerdict

\* The conditional put leaves the log as it was or adds the entry at its end.
LEMMA PutStep ==
    ASSUME TypeOK, NEW i \in Invocations, pc[i] = "append", Put(i)
    PROVE  /\ log' \in Seq(EntryRecord)
           /\ DOMAIN log \subseteq DOMAIN log'
           /\ InTable(entry[i].id) => log' = log
           /\ ~InTable(entry[i].id) => log' = Append(log, Stored(entry[i]))
<1>1. /\ entry[i] \in EntryRecord /\ log \in Seq(EntryRecord)
      /\ Stored(entry[i]) \in EntryRecord
  BY StoredEntry DEF TypeOK
<1>2. CASE InTable(entry[i].id) BY <1>1, <1>2 DEF Put
<1>3. CASE ~InTable(entry[i].id)
  <2>1. log' = Append(log, Stored(entry[i])) BY <1>3 DEF Put
  <2> QED BY <1>1, <1>3, <2>1, AppendProperties
<1> QED BY <1>2, <1>3

LEMMA PutEntries ==
    ASSUME TypeOK, NEW i \in Invocations, pc[i] = "append", Put(i)
    PROVE  /\ Len(log) \in Nat /\ DOMAIN log = 1 .. Len(log)
           /\ \A k \in DOMAIN log : k \in DOMAIN log' /\ log'[k] = log[k]
           /\ \A k \in DOMAIN log' \ DOMAIN log :
                k = Len(log) + 1 /\ log'[k] = Stored(entry[i]) /\ ~InTable(entry[i].id)
           /\ \E k \in DOMAIN log' : log'[k].id = entry[i].id
<1>1. /\ entry[i] \in EntryRecord /\ log \in Seq(EntryRecord)
      /\ Stored(entry[i]) \in EntryRecord
  BY StoredEntry DEF TypeOK
<1>2. CASE InTable(entry[i].id) BY <1>1, <1>2, PutStep DEF InTable
<1>3. CASE ~InTable(entry[i].id)
  <2>1. log' = Append(log, Stored(entry[i])) BY <1>3, PutStep
  <2>2. /\ Len(log) \in Nat /\ DOMAIN log = 1 .. Len(log)
        /\ DOMAIN log' = 1 .. Len(log) + 1
        /\ log'[Len(log) + 1] = Stored(entry[i])
        /\ \A k \in 1 .. Len(log) : log'[k] = log[k]
    BY <1>1, <2>1, AppendProperties
  <2>3. Len(log) + 1 \in DOMAIN log' BY <2>2
  <2>4. Stored(entry[i]).id = entry[i].id BY <1>1, StoredEntry DEF SameVerdict
  <2> QED BY <1>3, <2>2, <2>3, <2>4
<1> QED BY <1>2, <1>3

LEMMA InitType == Init => TypeOK
<1> SUFFICES ASSUME Init PROVE TypeOK OBVIOUS
<1>1. log \in Seq(EntryRecord) /\ DOMAIN log = {} BY DEF Init
<1>2. nextId \in 1 .. MaxEntries + 1 BY LogAssumption DEF Init
<1> QED BY <1>1, <1>2 DEF Init, TypeOK

LEMMA FinishType ==
    ASSUME TypeOK, NEW i \in Invocations, Finish(i), UNCHANGED log
    PROVE  /\ pc' \in [Invocations -> {"idle", "nonces", "decide", "last", "append", "reply"}]
           /\ request' \in [Invocations -> Requests \cup {Undefined}]
           /\ cfg' \in [Invocations -> Configs \cup {Undefined}]
           /\ scan' \in [Invocations -> SUBSET DOMAIN log']
           /\ entry' \in [Invocations -> EntryRecord \cup {Undefined}]
           /\ \A j \in Invocations :
                /\ pc'[j] # "idle" => request'[j] \in Requests /\ cfg'[j] \in Configs
                /\ pc'[j] \in Busy => entry'[j] \in EntryRecord
BY DEF TypeOK, Finish, Goto, Busy

\* Finalizing an entry gives it a predecessor and a hash, and nothing else.
LEMMA FinalizedEntry ==
    ASSUME TypeOK, NEW i \in Invocations, entry[i] \in EntryRecord,
           NEW h \in Hashes, Finalize(i, h)
    PROVE  /\ entry' \in [Invocations -> EntryRecord \cup {Undefined}]
           /\ entry'[i] \in EntryRecord /\ entry'[i].previous = h
           /\ SameVerdict(entry'[i], entry[i])
           /\ \A j \in Invocations \ {i} : entry'[j] = entry[j]
<1> DEFINE d == Digest(entry[i])
<1>1. d \in Hashes BY DEF Digest, EntryRecord, Hashes
<1>2. entry' = [entry EXCEPT ![i].previous = h, ![i].hash = d] BY DEF Finalize
<1> HIDE DEF d
<1> QED BY <1>1, <1>2 DEF TypeOK, EntryRecord, SameVerdict

LEMMA InvocationType ==
    ASSUME TypeOK, NEW i \in Invocations, Invocation(i)
    PROVE  TypeOK'
<1> USE DEF TypeOK, Goto
<1>1. CASE Receive(i)
  <2>1. orderly' \in BOOLEAN BY <1>1, Zenon DEF Receive
  <2> QED BY <1>1, <2>1 DEF Receive
<1>2. CASE ReadNonces(i)
  <2>1. orderly' \in BOOLEAN BY <1>2, Zenon DEF ReadNonces
  <2>2. scan' \in [Invocations -> SUBSET DOMAIN log'] BY <1>2, ScansType DEF ReadNonces
  <2> QED BY <1>2, <2>1, <2>2 DEF ReadNonces
<1>3. CASE Decide(i)
  <2> DEFINE e == [id |-> nextId, timestamp |-> clock, previous |-> Genesis,
                   hash |-> Genesis, request |-> request[i], kind |-> Verdict(i),
                   nextNonce |-> IF Verdict(i) = "ALLOW" THEN "uuid" ELSE "undefined",
                   alpha |-> cfg[i].alpha, bounds |-> cfg[i].bounds]
  <2>1. nextId \in Ids /\ nextId + 1 \in 1 .. MaxEntries + 1
    BY <1>3, LogAssumption DEF Decide, Ids
  <2>2. Verdict(i) \in Kinds BY <1>3, DecisionKinds DEF Decide, Verdict
  <2>3. request[i] \in Requests /\ cfg[i] \in Configs BY <1>3 DEF Decide
  <2>4. e \in EntryRecord BY <2>1, <2>2, <2>3 DEF EntryRecord, Hashes, NonceForms
  <2>5. entry' = [entry EXCEPT ![i] = e] BY <1>3 DEF Decide
  <2> HIDE DEF e
  <2> QED BY <1>3, <2>1, <2>4, <2>5 DEF Decide
<1>4. CASE DecideThrows(i) BY <1>4, FinishType DEF DecideThrows, Busy
<1>5. CASE ReadLast(i)
  <2>1. orderly' \in BOOLEAN BY <1>5, Zenon DEF ReadLast
  <2>2. PICK seen \in Scans :
          \/ Finalize(i, Genesis)
          \/ \E k \in LastOf(seen) : Finalize(i, HashOf(k))
    BY <1>5 DEF ReadLast
  <2>3. entry[i] \in EntryRecord BY <1>5 DEF ReadLast
  <2>4. \A k \in LastOf(seen) : HashOf(k) \in Hashes
    <3>1. \A k \in LastOf(seen) : k \in DOMAIN log BY ScansType DEF LastOf
    <3> QED BY <3>1, LogEntries DEF EntryRecord, HashOf
  <2>5. PICK h \in Hashes : Finalize(i, h) BY <2>2, <2>4 DEF Hashes
  <2>6. /\ entry' \in [Invocations -> EntryRecord \cup {Undefined}]
        /\ entry'[i] \in EntryRecord
        /\ \A j \in Invocations \ {i} : entry'[j] = entry[j]
    BY <2>3, <2>5, FinalizedEntry
  <2> QED BY <1>5, <2>1, <2>6 DEF ReadLast
<1>6. CASE AppendEntry(i) BY <1>6, PutStep DEF AppendEntry
<1>7. CASE AppendUnacknowledged(i) BY <1>7, PutStep DEF AppendUnacknowledged, local
<1>8. CASE AppendFails(i) BY <1>8, FinishType DEF AppendFails, Busy
<1>9. CASE Reply(i)
  <2>1. [id |-> entry[i].id, kind |-> entry[i].kind] \in [id : Ids, kind : Kinds]
    BY <1>9 DEF Reply, EntryRecord
  <2> QED BY <1>9, <2>1, FinishType DEF Reply, Busy
<1>10. CASE Lost(i) BY <1>10, FinishType DEF Lost, Busy
<1> QED BY <1>1, <1>2, <1>3, <1>4, <1>5, <1>6, <1>7, <1>8, <1>9, <1>10 DEF Invocation

LEMMA NextType == TypeOK /\ [Next]_vars => TypeOK'
<1> SUFFICES ASSUME TypeOK, [Next]_vars PROVE TypeOK' OBVIOUS
<1>1. CASE Tick BY <1>1 DEF TypeOK, Tick, local
<1>2. CASE Redeploy BY <1>2 DEF TypeOK, Redeploy, local
<1>3. CASE UNCHANGED vars BY <1>3 DEF TypeOK, vars, local
<1> QED BY <1>1, <1>2, <1>3, InvocationType DEF Next

\* The table, the answers and the invocations keep their types.
THEOREM TypeCorrect == Spec => []TypeOK
BY InitType, NextType, PTL DEF Spec
-----------------------------------------------------------------------------
(* Written ahead. *)

\* An entry has an id of its own from the decision on; what is in the table under
\* that id is the entry itself, and it is there before the answer.
IdInv ==
    /\ \A k \in DOMAIN log : log[k].id < nextId
    /\ \A j, k \in DOMAIN log : log[j].id = log[k].id => j = k
    /\ \A i \in Invocations : pc[i] \in Busy => entry[i].id < nextId
    /\ \A i, j \in Invocations :
          (pc[i] \in Busy /\ pc[j] \in Busy /\ entry[i].id = entry[j].id) => i = j
    /\ \A i \in Invocations : pc[i] = "last" => ~InTable(entry[i].id)
    /\ \A i \in Invocations, k \in DOMAIN log :
          (pc[i] \in {"append", "reply"} /\ log[k].id = entry[i].id) =>
             log[k].kind = entry[i].kind
    /\ \A i \in Invocations : pc[i] = "reply" => InTable(entry[i].id)

\* A step that leaves the log and the ids alone, and adds no invocation to those
\* that have an entry.
LEMMA SameIds ==
    ASSUME IdInv, UNCHANGED <<log, nextId>>,
           \A i \in Invocations : \/ pc'[i] \notin Busy
                                  \/ pc'[i] = pc[i] /\ entry'[i] = entry[i]
    PROVE  IdInv'
BY DEF IdInv, InTable, Busy

LEMMA PutIds ==
    ASSUME TypeOK, IdInv, NEW i \in Invocations, pc[i] = "append", Put(i),
           UNCHANGED <<nextId, entry>>, pc'[i] \in {"append", "reply"},
           \A j \in Invocations \ {i} : pc'[j] = pc[j]
    PROVE  IdInv'
<1> USE PutEntries DEF IdInv, Busy
<1>0. Stored(entry[i]).id = entry[i].id BY StoredEntry DEF TypeOK, SameVerdict
<1>1. \A k \in DOMAIN log' : log'[k].id < nextId' BY <1>0
<1>2. \A j, k \in DOMAIN log' : log'[j].id = log'[k].id => j = k BY <1>0 DEF InTable
<1>3. \A j \in Invocations : pc'[j] \in Busy => entry'[j].id < nextId' OBVIOUS
<1>4. \A j, k \in Invocations :
        (pc'[j] \in Busy /\ pc'[k] \in Busy /\ entry'[j].id = entry'[k].id) => j = k
  OBVIOUS
<1>5. \A j \in Invocations : pc'[j] = "last" => ~InTable(entry[j].id)'
  BY <1>0 DEF InTable
<1>6. \A j \in Invocations, k \in DOMAIN log' :
        (pc'[j] \in {"append", "reply"} /\ log'[k].id = entry'[j].id) =>
           log'[k].kind = entry'[j].kind
  BY StoredEntry DEF TypeOK, SameVerdict
<1>7. \A j \in Invocations : pc'[j] = "reply" => InTable(entry[j].id)' BY DEF InTable
<1> QED BY <1>1, <1>2, <1>3, <1>4, <1>5, <1>6, <1>7

LEMMA InvocationIds ==
    ASSUME TypeOK, IdInv, NEW i \in Invocations, Invocation(i)
    PROVE  IdInv'
<1> USE DEF Goto, Busy
<1>1. CASE Receive(i) \/ ReadNonces(i)
  BY <1>1, SameIds DEF Receive, ReadNonces, TypeOK
<1>2. CASE DecideThrows(i) \/ AppendFails(i) \/ Reply(i) \/ Lost(i)
  BY <1>2, SameIds DEF DecideThrows, AppendFails, Reply, Lost, Finish, TypeOK
<1>3. CASE Decide(i)
  <2>1. /\ nextId \in Nat /\ nextId' = nextId + 1 /\ log' = log
        /\ pc' = [pc EXCEPT ![i] = "last"]
        /\ entry'[i].id = nextId
        /\ \A j \in Invocations \ {i} : entry'[j] = entry[j]
    BY <1>3 DEF Decide, TypeOK
  <2>2. \A j \in Invocations \ {i} : pc'[j] = pc[j] BY <2>1 DEF TypeOK
  <2>3. pc'[i] = "last" BY <2>1 DEF TypeOK
  <2>4. \A k \in DOMAIN log : log[k].id \in Nat BY LogEntries DEF EntryRecord, Ids
  <2>5. \A j \in Invocations : pc[j] \in Busy => entry[j].id \in Nat
    BY DEF TypeOK, EntryRecord, Ids
  <2> QED BY <2>1, <2>2, <2>3, <2>4, <2>5 DEF IdInv, InTable
<1>4. CASE ReadLast(i)
  <2>1. /\ entry[i] \in EntryRecord
        /\ pc' = [pc EXCEPT ![i] = "append"] /\ pc[i] = "last"
        /\ UNCHANGED <<log, nextId>>
    BY <1>4 DEF ReadLast, TypeOK
  <2>2. /\ entry'[i].id = entry[i].id
        /\ \A j \in Invocations \ {i} : entry'[j] = entry[j]
    BY <1>4 DEF ReadLast, Finalize, TypeOK, EntryRecord
  <2> QED BY <2>1, <2>2 DEF IdInv, InTable, TypeOK
<1>5. CASE AppendEntry(i) BY <1>5, PutIds DEF AppendEntry, TypeOK
<1>6. CASE AppendUnacknowledged(i) BY <1>6, PutIds DEF AppendUnacknowledged, TypeOK, local
<1> QED BY <1>1, <1>2, <1>3, <1>4, <1>5, <1>6 DEF Invocation

LEMMA NextIds == TypeOK /\ IdInv /\ [Next]_vars => IdInv'
<1> SUFFICES ASSUME TypeOK, IdInv, [Next]_vars PROVE IdInv' OBVIOUS
<1>1. CASE Tick BY <1>1, SameIds DEF Tick, local
<1>2. CASE Redeploy BY <1>2, SameIds DEF Redeploy, local
<1>3. CASE UNCHANGED vars BY <1>3, SameIds DEF vars, local
<1> QED BY <1>1, <1>2, <1>3, InvocationIds DEF Next

LEMMA IdsHold == Spec => []IdInv
<1>1. Init => IdInv BY DEF Init, IdInv, Busy
<1> QED BY <1>1, NextIds, TypeCorrect, PTL DEF Spec

Recorded == {[id |-> log[k].id, kind |-> log[k].kind] : k \in DOMAIN log}

LEMMA PutRefines ==
    ASSUME TypeOK, IdInv, NEW i \in Invocations, pc[i] = "append", Put(i), UNCHANGED answers
    PROVE  Abstract!Next \/ UNCHANGED <<Recorded, answers>>
<1>1. entry[i] \in EntryRecord BY DEF TypeOK
<1>2. CASE InTable(entry[i].id) BY <1>2, PutStep DEF Recorded
<1>3. CASE ~InTable(entry[i].id)
  <2>1. \A r \in Recorded : r.id # entry[i].id BY <1>3 DEF Recorded, InTable
  <2>2. Recorded' = Recorded \cup {[id |-> entry[i].id, kind |-> entry[i].kind]}
    <3>1. \E k \in DOMAIN log' \ DOMAIN log : log'[k] = Stored(entry[i])
      BY <1>3, PutEntries DEF InTable
    <3>2. Stored(entry[i]).id = entry[i].id /\ Stored(entry[i]).kind = entry[i].kind
      BY <1>1, StoredEntry DEF SameVerdict
    <3> QED BY <3>1, <3>2, PutEntries DEF Recorded
  <2>3. entry[i].id \in Ids /\ entry[i].kind \in Kinds BY <1>1 DEF EntryRecord
  <2>4. \E id \in Ids, kind \in Kinds : Abstract!Record(id, kind)
    BY <2>1, <2>2, <2>3 DEF Abstract!Record, Recorded
  <2> QED BY <2>4, Zenon DEF Abstract!Next
<1> QED BY <1>2, <1>3

LEMMA StepRefines ==
    ASSUME TypeOK, IdInv, [Next]_vars
    PROVE  Abstract!Next \/ UNCHANGED <<Recorded, answers>>
<1>1. CASE UNCHANGED <<log, answers>> BY <1>1 DEF Recorded
<1>2. ASSUME NEW i \in Invocations, AppendEntry(i) \/ AppendUnacknowledged(i)
      PROVE  Abstract!Next \/ UNCHANGED <<Recorded, answers>>
  BY <1>2, PutRefines DEF AppendEntry, AppendUnacknowledged
<1>3. ASSUME NEW i \in Invocations, Reply(i)
      PROVE  Abstract!Next \/ UNCHANGED <<Recorded, answers>>
  <2> DEFINE r == [id |-> entry[i].id, kind |-> entry[i].kind]
  <2>1. r \in Recorded BY <1>3 DEF Reply, IdInv, InTable, Recorded
  <2>2. answers' = answers \cup {r} /\ Recorded' = Recorded BY <1>3 DEF Reply, Recorded
  <2> QED BY <2>1, <2>2 DEF Abstract!Next, Abstract!Answer, Recorded
<1>4. ASSUME NEW i \in Invocations,
             \/ Receive(i) \/ ReadNonces(i) \/ Decide(i) \/ DecideThrows(i) \/ ReadLast(i)
             \/ AppendFails(i) \/ Lost(i)
      PROVE  UNCHANGED <<log, answers>>
  BY <1>4 DEF Receive, ReadNonces, Decide, DecideThrows, ReadLast, AppendFails, Lost
<1> QED BY <1>1, <1>2, <1>3, <1>4 DEF Next, Invocation, Tick, Redeploy, vars

\* No answer before its record, no record changed, one record per decision: the
\* service implements the write-ahead log, whatever its scans miss and whatever
\* is lost, refused or sent twice.
THEOREM ImplementsWriteAheadLogHolds == Spec => ImplementsWriteAheadLog
<1>1. Init => Abstract!Init
  <2>1. ASSUME Init PROVE DOMAIN log = {} /\ answers = {} BY <2>1 DEF Init
  <2> QED BY <2>1 DEF Abstract!Init
<1>2. TypeOK /\ IdInv /\ [Next]_vars => [Abstract!Next]_<<Recorded, answers>>
  BY StepRefines
<1> QED BY <1>1, <1>2, TypeCorrect, IdsHold, PTL
        DEF Spec, ImplementsWriteAheadLog, Abstract!Spec, Recorded
-----------------------------------------------------------------------------
(* What is allowed. *)

\* Where the entries of the next state come from.
LEMMA LogSources ==
    ASSUME TypeOK, [Next]_vars, NEW k \in DOMAIN log'
    PROVE  \/ k \in DOMAIN log /\ log'[k] = log[k]
           \/ \E i \in Invocations : pc[i] = "append" /\ SameVerdict(log'[k], entry[i])
<1>1. CASE UNCHANGED log BY <1>1
<1>2. ASSUME NEW i \in Invocations, AppendEntry(i) \/ AppendUnacknowledged(i)
      PROVE  \/ k \in DOMAIN log /\ log'[k] = log[k]
             \/ pc[i] = "append" /\ SameVerdict(log'[k], entry[i])
  <2>1. pc[i] = "append" /\ Put(i) BY <1>2 DEF AppendEntry, AppendUnacknowledged
  <2>2. SameVerdict(Stored(entry[i]), entry[i]) BY <2>1, StoredEntry DEF TypeOK
  <2> QED BY <2>1, <2>2, PutEntries
<1>3. ASSUME NEW i \in Invocations,
             \/ Receive(i) \/ ReadNonces(i) \/ Decide(i) \/ DecideThrows(i) \/ ReadLast(i)
             \/ AppendFails(i) \/ Reply(i) \/ Lost(i)
      PROVE  UNCHANGED log
  BY <1>3 DEF Receive, ReadNonces, Decide, DecideThrows, ReadLast, AppendFails, Reply, Lost
<1> QED BY <1>1, <1>2, <1>3 DEF Next, Invocation, Tick, Redeploy, vars

LEMMA EntrySources ==
    ASSUME TypeOK, [Next]_vars, NEW i \in Invocations, pc'[i] \in Busy
    PROVE  \/ pc[i] \in Busy /\ SameVerdict(entry'[i], entry[i])
           \/ Decide(i)
<1>1. CASE pc'[i] = pc[i] /\ entry'[i] = entry[i] BY <1>1 DEF SameVerdict
<1>2. CASE Tick \/ Redeploy \/ UNCHANGED vars
  BY <1>1, <1>2 DEF Tick, Redeploy, vars, local
<1>3. ASSUME NEW j \in Invocations, Invocation(j), j # i
      PROVE  pc'[i] = pc[i] /\ entry'[i] = entry[i]
  BY <1>3 DEF Invocation, Receive, ReadNonces, Decide, DecideThrows, ReadLast, AppendEntry,
              AppendUnacknowledged, AppendFails, Reply, Lost, Finish, Goto, TypeOK, local,
              Finalize
<1>4. CASE ReadLast(i)
  <2>1. PICK h, d : entry' = [entry EXCEPT ![i].previous = h, ![i].hash = d]
    BY <1>4, Zenon DEF ReadLast, Finalize
  <2>2. entry[i] \in EntryRecord /\ pc[i] = "last" BY <1>4 DEF ReadLast, TypeOK
  <2> QED BY <2>1, <2>2 DEF TypeOK, EntryRecord, SameVerdict, Busy
<1>5. CASE AppendEntry(i) \/ AppendUnacknowledged(i)
  BY <1>5 DEF AppendEntry, AppendUnacknowledged, local, SameVerdict, Busy
<1>6. CASE \/ Receive(i) \/ ReadNonces(i) \/ DecideThrows(i) \/ AppendFails(i)
           \/ Reply(i) \/ Lost(i)
  BY <1>6 DEF Receive, ReadNonces, DecideThrows, AppendFails, Reply, Lost, Finish, Goto,
              TypeOK, Busy
<1> QED BY <1>1, <1>2, <1>3, <1>4, <1>5, <1>6 DEF Next, Invocation

Justified(e) ==
    e.kind = "ALLOW" =>
        /\ e.request.ctx.envelope # Undefined
        /\ Violations(e.request.ctx.envelope, e.bounds) = {}
        /\ ~Forbidden(e.request.ctx)

AllowInv ==
    /\ \A k \in DOMAIN log : Justified(log[k])
    /\ \A i \in Invocations : pc[i] \in Busy => Justified(entry[i])

LEMMA DecisionJustified ==
    ASSUME NEW q, NEW c, NEW used, NEW now,
           Decision(q.action, q.ctx, c, used, now) = "ALLOW"
    PROVE  /\ q.ctx.envelope # Undefined
           /\ Violations(q.ctx.envelope, c.bounds) = {} /\ ~Forbidden(q.ctx)
BY Zenon DEF Decision, LoveKind

LEMMA DecidedEntry ==
    ASSUME TypeOK, NEW i \in Invocations, Decide(i)
    PROVE  /\ entry'[i].id = nextId /\ entry'[i].timestamp = clock
           /\ entry'[i].request = request[i] /\ entry'[i].bounds = cfg[i].bounds
           /\ entry'[i].kind = Verdict(i) /\ Verdict(i) # "throws"
BY DEF Decide, TypeOK

LEMMA NextAllow == TypeOK /\ AllowInv /\ [Next]_vars => AllowInv'
<1> SUFFICES ASSUME TypeOK, AllowInv, [Next]_vars PROVE AllowInv' OBVIOUS
<1>0. ASSUME NEW e, NEW f, SameVerdict(e, f), Justified(f) PROVE Justified(e)
  BY <1>0 DEF SameVerdict, Justified
<1>1. ASSUME NEW k \in DOMAIN log' PROVE Justified(log'[k])
  <2>1. CASE k \in DOMAIN log /\ log'[k] = log[k] BY <2>1 DEF AllowInv
  <2>2. ASSUME NEW i \in Invocations, pc[i] = "append", SameVerdict(log'[k], entry[i])
        PROVE  Justified(log'[k])
    BY <1>0, <2>2 DEF AllowInv, Busy
  <2> QED BY <2>1, <2>2, LogSources
<1>2. ASSUME NEW i \in Invocations, pc'[i] \in Busy PROVE Justified(entry'[i])
  <2>1. CASE pc[i] \in Busy /\ SameVerdict(entry'[i], entry[i])
    BY <2>1 DEF AllowInv, Justified, SameVerdict
  <2>2. CASE Decide(i)
    <3> DEFINE q == request[i]
    <3>1. /\ entry'[i].request = q /\ entry'[i].bounds = cfg[i].bounds
          /\ entry'[i].kind = Decision(q.action, q.ctx, cfg[i], UsedNonces(i), clock)
      BY <2>2, DecidedEntry DEF Verdict
    <3> HIDE DEF q
    <3>2. entry'[i].kind = "ALLOW" =>
            /\ q.ctx.envelope # Undefined
            /\ Violations(q.ctx.envelope, cfg[i].bounds) = {} /\ ~Forbidden(q.ctx)
      BY <3>1, DecisionJustified
    <3> QED BY <3>1, <3>2 DEF Justified
  <2> QED BY <1>2, <2>1, <2>2, EntrySources
<1> QED BY <1>1, <1>2 DEF AllowInv

\* Within the bounds on every dimension measured, and no worse than doing nothing.
LEMMA JustifiedPreserves ==
    ASSUME NEW q \in Requests, NEW bounds \in Bounds, NEW d \in Dimensions,
           q.ctx.envelope # Undefined,
           Violations(q.ctx.envelope, bounds) = {}, ~Forbidden(q.ctx)
    PROVE  /\ NoWorse(d, q.ctx.envelope, bounds)
           /\ (/\ q.ctx.counterfactual # Undefined
               /\ q.ctx.loveScore # Undefined /\ q.ctx.counterfactualLove # Undefined
               /\ q.ctx.loveScore > q.ctx.counterfactualLove) =>
                 NoWorse(d, q.ctx.envelope, q.ctx.counterfactual)
<1> DEFINE env == q.ctx.envelope
           cf == q.ctx.counterfactual
<1>1. env[d] \in Int \cup {Undefined} BY RequestAssumption DEF Envelope
<1>2. bounds[d] \in Int /\ Undefined \notin Int BY DecisionAssumption DEF Bounds
<1>3. NoWorse(d, env, bounds)
  <2>1. IF d \in Better THEN ~Less(env[d], bounds[d]) ELSE ~Less(bounds[d], env[d])
    BY DEF Violations
  <2> QED BY <1>1, <1>2, <2>1 DEF NoWorse, Less, Better
<1>4. ASSUME cf # Undefined, q.ctx.loveScore # Undefined, q.ctx.counterfactualLove # Undefined,
             q.ctx.loveScore > q.ctx.counterfactualLove
      PROVE  NoWorse(d, env, cf)
  <2>1. cf[d] \in Int \cup {Undefined} BY <1>4, RequestAssumption DEF Envelope
  <2>2. Worse(env, cf) = {} BY <1>4 DEF Forbidden, Less
  <2>3. IF d \in Better THEN ~Less(env[d], cf[d]) ELSE ~Less(cf[d], env[d])
    BY <2>2 DEF Worse
  <2> QED BY <1>1, <1>2, <2>1, <2>3 DEF NoWorse, Less, Better
<1> QED BY <1>3, <1>4

\* Whoever is allowed to act preserves the host's agency as far as it is measured,
\* for every request, every margin and every bound, also when they change.
THEOREM AllowPreservesAgencyHolds == Spec => []AllowPreservesAgency
<1>1. Init => AllowInv BY DEF Init, AllowInv, Busy
<1>2. TypeOK /\ AllowInv => AllowPreservesAgency
  <2> SUFFICES ASSUME TypeOK, AllowInv PROVE AllowPreservesAgency OBVIOUS
  <2>1. \A k \in DOMAIN log : log[k].request \in Requests /\ log[k].bounds \in Bounds
    BY LogEntries, ConfigAssumption DEF EntryRecord
  <2> QED BY <2>1, JustifiedPreserves DEF AllowPreservesAgency, AllowInv, Justified
<1> QED BY <1>1, <1>2, NextAllow, TypeCorrect, PTL DEF Spec
-----------------------------------------------------------------------------
(* The chain. *)

\* The hash an entry at place k links to.
PreviousAt(k) == IF k = 1 THEN Genesis ELSE log[k - 1].hash

\* Orderly invocations come one at a time, see the whole table, and each decides
\* later than every entry before it.
OrderlyInv ==
    orderly =>
      /\ \A i, j \in Invocations : (pc[i] # "idle" /\ pc[j] # "idle") => i = j
      /\ \A k \in DOMAIN log : log[k].timestamp <= clock
      /\ \A j, k \in DOMAIN log : j < k => log[j].timestamp < log[k].timestamp
      /\ \A k \in DOMAIN log : log[k].previous = PreviousAt(k)
      /\ \A i \in Invocations : pc[i] \in {"nonces", "decide"} =>
            \A k \in DOMAIN log : log[k].timestamp < clock
      /\ \A i \in Invocations : pc[i] = "decide" => scan[i] = DOMAIN log
      /\ \A i \in Invocations : pc[i] \in Busy => entry[i].timestamp <= clock
      /\ \A i \in Invocations : (pc[i] \in Busy /\ ~InTable(entry[i].id)) =>
            \A k \in DOMAIN log : log[k].timestamp < entry[i].timestamp
      /\ \A i \in Invocations : (pc[i] = "append" /\ ~InTable(entry[i].id)) =>
            entry[i].previous = PreviousAt(Len(log) + 1)

\* Disorder is remembered.
LEMMA StaysOrderly == TypeOK /\ [Next]_vars /\ orderly' => orderly
<1> SUFFICES ASSUME TypeOK, [Next]_vars, orderly' PROVE orderly OBVIOUS
<1>1. ASSUME NEW i \in Invocations, Receive(i) \/ ReadNonces(i) \/ ReadLast(i)
      PROVE  orderly
  BY <1>1, Zenon DEF Receive, ReadNonces, ReadLast
<1>2. ASSUME NEW i \in Invocations,
             \/ Decide(i) \/ DecideThrows(i) \/ AppendEntry(i) \/ AppendUnacknowledged(i)
             \/ AppendFails(i) \/ Reply(i) \/ Lost(i)
      PROVE  orderly
  BY <1>2 DEF Decide, DecideThrows, AppendEntry, AppendUnacknowledged, AppendFails, Reply, Lost
<1> QED BY <1>1, <1>2 DEF Next, Invocation, Tick, Redeploy, vars

\* A scan of the whole of an increasing log ends with the last arrival.
LEMMA LastOfAll ==
    ASSUME TypeOK, \A j, k \in DOMAIN log : j < k => log[j].timestamp < log[k].timestamp
    PROVE  /\ LastOf(DOMAIN log) = {} => Len(log) = 0
           /\ \A k \in LastOf(DOMAIN log) : k = Len(log) /\ k \in DOMAIN log
<1>1. /\ Len(log) \in Nat /\ DOMAIN log = 1 .. Len(log)
      /\ \A k \in DOMAIN log : log[k].timestamp \in Nat
  BY LogEntries DEF EntryRecord
<1>2. Len(log) # 0 => Len(log) \in LastOf(DOMAIN log) BY <1>1 DEF LastOf
<1>3. ASSUME NEW k \in LastOf(DOMAIN log) PROVE k = Len(log) /\ k \in DOMAIN log
  <2>1. k \in 1 .. Len(log) /\ \A j \in 1 .. Len(log) : log[j].timestamp <= log[k].timestamp
    BY <1>1, <1>3 DEF LastOf
  <2>2. k \in DOMAIN log BY <1>1, <2>1
  <2>3. CASE k < Len(log)
    <3>1. Len(log) \in DOMAIN log BY <1>1, <2>2, <2>3
    <3> QED BY <1>1, <2>1, <2>2, <2>3, <3>1
  <2>4. CASE ~(k < Len(log))
    <3>1. \A m, n \in Nat : (m \in 1 .. n /\ ~(m < n)) => m = n OBVIOUS
    <3>2. k \in Nat BY <1>1, <2>1
    <3> QED BY <1>1, <2>1, <2>2, <2>4, <3>1, <3>2, Zenon
  <2> QED BY <2>3, <2>4
<1> QED BY <1>2, <1>3

\* A step that leaves the log alone and after which no invocation is further than
\* it was.
LEMMA SameOrder ==
    ASSUME TypeOK, OrderlyInv, orderly, UNCHANGED log, clock' \in Nat, clock <= clock',
           \A i \in Invocations :
              \/ pc'[i] = "idle"
              \/ pc'[i] = pc[i] /\ entry'[i] = entry[i] /\ scan'[i] = scan[i]
    PROVE  OrderlyInv'
<1>1. /\ clock \in Nat
      /\ \A k \in DOMAIN log : log[k].timestamp \in Nat
      /\ \A i \in Invocations : pc[i] \in Busy => entry[i].timestamp \in Nat
  BY LogEntries DEF TypeOK, EntryRecord, Busy
<1> QED BY <1>1 DEF OrderlyInv, PreviousAt, InTable, Busy

LEMMA PutOrder ==
    ASSUME TypeOK, OrderlyInv, orderly, NEW i \in Invocations, pc[i] = "append", Put(i),
           UNCHANGED <<clock, entry, scan>>, pc'[i] \in {"append", "reply"},
           \A j \in Invocations \ {i} : pc'[j] = pc[j]
    PROVE  OrderlyInv'
<1>1. \A j \in Invocations \ {i} : pc'[j] = "idle" BY DEF OrderlyInv
<1>2. /\ Len(log) \in Nat /\ DOMAIN log = 1 .. Len(log)
      /\ entry[i].timestamp \in Nat /\ clock \in Nat
      /\ \A k \in DOMAIN log : log[k].timestamp \in Nat
  BY LogEntries DEF TypeOK, EntryRecord
<1>3. InTable(entry[i].id)' BY PutEntries DEF InTable
<1>4. CASE InTable(entry[i].id)
  <2>1. log' = log BY <1>4, PutStep
  <2> QED BY <1>1, <1>2, <1>3, <2>1 DEF OrderlyInv, PreviousAt, InTable, Busy
<1>5. CASE ~InTable(entry[i].id)
  <2>0. /\ Stored(entry[i]).timestamp = entry[i].timestamp
        /\ Stored(entry[i]).previous = entry[i].previous
    BY StoredEntry DEF TypeOK, SameVerdict
  <2>1. /\ entry[i].timestamp <= clock /\ entry[i].previous = PreviousAt(Len(log) + 1)
        /\ \A k \in DOMAIN log : log[k].timestamp < entry[i].timestamp
    BY <1>5 DEF OrderlyInv, Busy
  <2>2. \A k \in DOMAIN log' : log'[k].timestamp <= clock'
    BY <2>0, <2>1, PutEntries DEF OrderlyInv
  <2>3. \A j, k \in DOMAIN log' : j < k => log'[j].timestamp < log'[k].timestamp
    <3> SUFFICES ASSUME NEW j \in DOMAIN log', NEW k \in DOMAIN log', j < k
                 PROVE  log'[j].timestamp < log'[k].timestamp
      OBVIOUS
    <3>1. j \in DOMAIN log
      <4>1. log' = Append(log, Stored(entry[i])) /\ Stored(entry[i]) \in EntryRecord
        BY <1>5, PutStep, StoredEntry DEF TypeOK
      <4>2. DOMAIN log' = 1 .. Len(log) + 1
        BY <4>1, AppendProperties DEF TypeOK
      <4> QED BY <1>2, <4>2
    <3>2. CASE k \in DOMAIN log BY <3>1, <3>2, PutEntries DEF OrderlyInv
    <3>3. CASE k \notin DOMAIN log BY <2>0, <2>1, <3>1, <3>3, PutEntries
    <3> QED BY <3>2, <3>3
  <2>4. \A k \in DOMAIN log' : log'[k].previous = PreviousAt(k)'
    <3> SUFFICES ASSUME NEW k \in DOMAIN log' PROVE log'[k].previous = PreviousAt(k)' OBVIOUS
    <3>1. CASE k \in DOMAIN log
      <4>1. log'[k].previous = PreviousAt(k) BY <3>1, PutEntries DEF OrderlyInv
      <4>2. k # 1 => k - 1 \in DOMAIN log BY <1>2, <3>1
      <4> QED BY <4>1, <4>2, PutEntries DEF PreviousAt
    <3>2. CASE k \notin DOMAIN log
      <4>1. k = Len(log) + 1 /\ log'[k].previous = entry[i].previous BY <2>0, <3>2, PutEntries
      <4>2. k # 1 => k - 1 \in DOMAIN log BY <1>2, <4>1
      <4> QED BY <2>1, <4>1, <4>2, PutEntries DEF PreviousAt
    <3> QED BY <3>1, <3>2
  <2> QED BY <1>1, <1>2, <1>3, <2>1, <2>2, <2>3, <2>4 DEF OrderlyInv, Busy
<1> QED BY <1>4, <1>5

LEMMA InvocationOrder ==
    ASSUME TypeOK, IdInv, OrderlyInv, orderly, orderly', NEW i \in Invocations, Invocation(i)
    PROVE  OrderlyInv'
<1> USE DEF Goto, Busy
<1>1. CASE Receive(i)
  <2>1. /\ \A k \in DOMAIN log : log[k].timestamp < clock
        /\ \A j \in Invocations : pc[j] = "idle"
    BY <1>1, Zenon DEF Receive
  <2>2. /\ pc'[i] = "nonces" /\ \A j \in Invocations \ {i} : pc'[j] = "idle"
        /\ UNCHANGED <<log, clock, scan, entry>>
    BY <1>1, <2>1 DEF Receive, TypeOK
  <2> QED BY <2>1, <2>2 DEF OrderlyInv, PreviousAt
<1>2. CASE ReadNonces(i)
  <2>1. scan' = [scan EXCEPT ![i] = DOMAIN log] BY <1>2, Zenon DEF ReadNonces
  <2>2. scan'[i] = DOMAIN log BY <2>1 DEF TypeOK
  <2>3. /\ pc[i] = "nonces" /\ pc'[i] = "decide"
        /\ \A j \in Invocations \ {i} : pc'[j] = pc[j]
        /\ UNCHANGED <<log, clock, entry>>
    BY <1>2 DEF ReadNonces, TypeOK
  <2>4. \A j \in Invocations \ {i} : pc'[j] = "idle" BY <2>3 DEF OrderlyInv
  <2> QED BY <2>2, <2>3, <2>4 DEF OrderlyInv, PreviousAt
<1>3. CASE Decide(i)
  <2>1. /\ pc[i] = "decide" /\ pc'[i] = "last"
        /\ \A j \in Invocations \ {i} : pc'[j] = pc[j]
        /\ UNCHANGED <<log, clock, scan>>
    BY <1>3 DEF Decide, TypeOK
  <2>2. \A j \in Invocations \ {i} : pc'[j] = "idle" BY <2>1 DEF OrderlyInv
  <2>3. entry'[i].timestamp = clock BY <1>3, DecidedEntry
  <2>4. clock \in Nat BY DEF TypeOK
  <2> QED BY <2>1, <2>2, <2>3, <2>4 DEF OrderlyInv, PreviousAt
<1>4. CASE DecideThrows(i) \/ AppendFails(i) \/ Reply(i) \/ Lost(i)
  <2>1. UNCHANGED <<log, clock>>
    BY <1>4 DEF DecideThrows, AppendFails, Reply, Lost
  <2>2. \A j \in Invocations :
          \/ pc'[j] = "idle"
          \/ pc'[j] = pc[j] /\ entry'[j] = entry[j] /\ scan'[j] = scan[j]
    BY <1>4 DEF DecideThrows, AppendFails, Reply, Lost, Finish, TypeOK
  <2> QED BY <2>1, <2>2, SameOrder DEF TypeOK
<1>5. CASE ReadLast(i)
  <2>1. \/ LastOf(DOMAIN log) = {} /\ Finalize(i, Genesis)
        \/ \E k \in LastOf(DOMAIN log) : Finalize(i, HashOf(k))
    BY <1>5, Zenon DEF ReadLast
  <2>2. /\ LastOf(DOMAIN log) = {} => Len(log) = 0
        /\ \A k \in LastOf(DOMAIN log) : k = Len(log) /\ k \in DOMAIN log
    BY LastOfAll DEF OrderlyInv
  <2>3. /\ pc[i] = "last" /\ pc'[i] = "append" /\ entry[i] \in EntryRecord
        /\ \A j \in Invocations \ {i} : pc'[j] = pc[j]
        /\ UNCHANGED <<log, clock, scan>>
    BY <1>5 DEF ReadLast, TypeOK
  <2>4. \A j \in Invocations \ {i} : pc'[j] = "idle" BY <2>3 DEF OrderlyInv
  <2>5. PICK h \in Hashes : h = PreviousAt(Len(log) + 1) /\ Finalize(i, h)
    <3>1. Len(log) \in Nat /\ DOMAIN log = 1 .. Len(log) BY LogEntries
    <3>2. CASE Finalize(i, Genesis) /\ Len(log) = 0 BY <3>2 DEF PreviousAt, Hashes
    <3>3. CASE Len(log) \in DOMAIN log /\ Finalize(i, log[Len(log)].hash)
      <4>1. log[Len(log)].hash \in Hashes BY <3>3, LogEntries DEF EntryRecord
      <4>2. PreviousAt(Len(log) + 1) = log[Len(log)].hash BY <3>1, <3>3 DEF PreviousAt
      <4> QED BY <3>3, <4>1, <4>2
    <3> QED BY <2>1, <2>2, <3>2, <3>3 DEF HashOf
  <2>6. /\ entry'[i].id = entry[i].id /\ entry'[i].timestamp = entry[i].timestamp
        /\ entry'[i].previous = PreviousAt(Len(log) + 1)
    BY <2>3, <2>5, FinalizedEntry DEF SameVerdict
  <2> QED BY <2>3, <2>4, <2>6 DEF OrderlyInv, PreviousAt, InTable
<1>6. CASE AppendEntry(i) BY <1>6, PutOrder DEF AppendEntry, TypeOK
<1>7. CASE AppendUnacknowledged(i) BY <1>7, PutOrder DEF AppendUnacknowledged, TypeOK, local
<1> QED BY <1>1, <1>2, <1>3, <1>4, <1>5, <1>6, <1>7 DEF Invocation

LEMMA NextOrder == TypeOK /\ IdInv /\ OrderlyInv /\ [Next]_vars => OrderlyInv'
<1> SUFFICES ASSUME TypeOK, IdInv, OrderlyInv, [Next]_vars, orderly' PROVE OrderlyInv'
  BY DEF OrderlyInv
<1>1. orderly BY StaysOrderly
<1>2. CASE Tick \/ Redeploy \/ UNCHANGED vars
  BY <1>1, <1>2, SameOrder DEF Tick, Redeploy, vars, local, TypeOK
<1> QED BY <1>1, <1>2, InvocationOrder DEF Next

LEMMA OrderHolds == Spec => []OrderlyInv
<1>1. Init => OrderlyInv
  <2> SUFFICES ASSUME Init PROVE OrderlyInv OBVIOUS
  <2>1. DOMAIN log = {} /\ \A i \in Invocations : pc[i] = "idle" BY DEF Init
  <2> QED BY <2>1 DEF OrderlyInv, Busy
<1> QED BY <1>1, NextOrder, TypeCorrect, IdsHold, PTL DEF Spec

\* An entry that allows carries a nonce for the next request, and from the moment it
\* is finalized its hash is that of what the table will store.
HashInv ==
    /\ \A k \in DOMAIN log : log[k].kind = "ALLOW" => Recomputes(k)
    /\ \A i \in Invocations :
          (pc[i] \in Busy /\ entry[i].kind = "ALLOW") => entry[i].nextNonce = "uuid"
    /\ \A i \in Invocations :
          pc[i] \in {"append", "reply"} => entry[i].hash = Digest(entry[i])

\* A step that leaves the log alone and adds no invocation to those that have an entry.
LEMMA SameHashes ==
    ASSUME HashInv, UNCHANGED log,
           \A i \in Invocations : \/ pc'[i] \notin Busy
                                  \/ pc'[i] = pc[i] /\ entry'[i] = entry[i]
    PROVE  HashInv'
BY DEF HashInv, Recomputes, Busy

LEMMA PutHashes ==
    ASSUME TypeOK, HashInv, NEW i \in Invocations, pc[i] = "append", Put(i),
           UNCHANGED entry, pc'[i] \in {"append", "reply"},
           \A j \in Invocations \ {i} : pc'[j] = pc[j]
    PROVE  HashInv'
<1>1. ASSUME NEW k \in DOMAIN log', log'[k].kind = "ALLOW" PROVE Recomputes(k)'
  <2>1. CASE k \in DOMAIN log
    <3>1. log'[k] = log[k] BY <2>1, PutEntries
    <3> QED BY <1>1, <2>1, <3>1 DEF HashInv, Recomputes
  <2>2. CASE k \notin DOMAIN log
    <3>1. log'[k] = Stored(entry[i]) /\ entry[i] \in EntryRecord
      BY <2>2, PutEntries DEF TypeOK
    <3>2. entry[i].kind = "ALLOW" BY <1>1, <3>1, StoredEntry DEF SameVerdict
    <3>3. entry[i].nextNonce = "uuid" /\ entry[i].hash = Digest(entry[i])
      BY <3>2 DEF HashInv, Busy
    <3>4. log'[k] = entry[i] BY <3>1, <3>3, StoredEntry
    <3> QED BY <3>3, <3>4 DEF Recomputes, Digest
  <2> QED BY <2>1, <2>2
<1> QED BY <1>1 DEF HashInv, Busy

LEMMA InvocationHashes ==
    ASSUME TypeOK, HashInv, NEW i \in Invocations, Invocation(i)
    PROVE  HashInv'
<1> USE DEF Goto, Busy
<1>1. CASE Receive(i) \/ ReadNonces(i)
  BY <1>1, SameHashes DEF Receive, ReadNonces, TypeOK
<1>2. CASE DecideThrows(i) \/ AppendFails(i) \/ Reply(i) \/ Lost(i)
  BY <1>2, SameHashes DEF DecideThrows, AppendFails, Reply, Lost, Finish, TypeOK
<1>3. CASE Decide(i)
  <2>1. /\ log' = log /\ pc' = [pc EXCEPT ![i] = "last"]
        /\ entry'[i].kind = Verdict(i)
        /\ entry'[i].nextNonce = IF Verdict(i) = "ALLOW" THEN "uuid" ELSE "undefined"
        /\ \A j \in Invocations \ {i} : entry'[j] = entry[j]
    BY <1>3 DEF Decide, TypeOK
  <2>2. pc'[i] = "last" /\ \A j \in Invocations \ {i} : pc'[j] = pc[j] BY <2>1 DEF TypeOK
  <2> QED BY <2>1, <2>2 DEF HashInv, Recomputes
<1>4. CASE ReadLast(i)
  <2>1. /\ entry[i] \in EntryRecord /\ log' = log
        /\ pc[i] = "last" /\ pc'[i] = "append"
        /\ \A j \in Invocations \ {i} : pc'[j] = pc[j]
    BY <1>4 DEF ReadLast, TypeOK
  <2>2. PICK h : Finalize(i, h) BY <1>4, Zenon DEF ReadLast
  <2>3. /\ entry'[i].hash = Digest(entry[i])
        /\ entry'[i].id = entry[i].id /\ entry'[i].nextNonce = entry[i].nextNonce
        /\ entry'[i].kind = entry[i].kind
        /\ \A j \in Invocations \ {i} : entry'[j] = entry[j]
    <3> DEFINE d == Digest(entry[i])
    <3>1. entry' = [entry EXCEPT ![i].previous = h, ![i].hash = d] BY <2>2 DEF Finalize
    <3> HIDE DEF d
    <3>2. /\ entry'[i].hash = d
          /\ entry'[i].id = entry[i].id /\ entry'[i].nextNonce = entry[i].nextNonce
          /\ entry'[i].kind = entry[i].kind
          /\ \A j \in Invocations \ {i} : entry'[j] = entry[j]
      BY <2>1, <3>1 DEF TypeOK, EntryRecord
    <3> QED BY <3>2 DEF d
  <2> QED BY <2>1, <2>3 DEF HashInv, Recomputes, Digest
<1>5. CASE AppendEntry(i) BY <1>5, PutHashes DEF AppendEntry, TypeOK
<1>6. CASE AppendUnacknowledged(i)
  BY <1>6, PutHashes DEF AppendUnacknowledged, TypeOK, local
<1> QED BY <1>1, <1>2, <1>3, <1>4, <1>5, <1>6 DEF Invocation

LEMMA NextHashes == TypeOK /\ HashInv /\ [Next]_vars => HashInv'
<1> SUFFICES ASSUME TypeOK, HashInv, [Next]_vars PROVE HashInv' OBVIOUS
<1>1. CASE Tick \/ Redeploy \/ UNCHANGED vars
  BY <1>1, SameHashes DEF Tick, Redeploy, vars, local
<1> QED BY <1>1, InvocationHashes DEF Next

LEMMA HashesHold == Spec => []HashInv
<1>1. Init => HashInv
  <2> SUFFICES ASSUME Init PROVE HashInv OBVIOUS
  <2>1. DOMAIN log = {} /\ \A i \in Invocations : pc[i] = "idle" BY DEF Init
  <2> QED BY <2>1 DEF HashInv, Busy
<1> QED BY <1>1, NextHashes, TypeCorrect, PTL DEF Spec

\* While invocations come one at a time, at distinct times, over whole scans, every
\* entry links to the one before it, whatever is lost, refused or put twice; and every
\* entry that allows keeps the hash verifyChain computes again.
THEOREM OrderlyChainVerifiesHolds == Spec => []OrderlyChainVerifies
<1>1. TypeOK /\ OrderlyInv => (orderly => ChainLinks)
  <2> SUFFICES ASSUME TypeOK, OrderlyInv, orderly, NEW k \in DOMAIN log PROVE Linked(k)
    BY DEF ChainLinks
  <2>1. /\ Len(log) \in Nat /\ DOMAIN log = 1 .. Len(log)
        /\ \A j \in DOMAIN log : log[j].timestamp \in Nat
    BY LogEntries DEF EntryRecord
  <2>2. \A j \in DOMAIN log : Before(j) = 1 .. j - 1
    <3> SUFFICES ASSUME NEW j \in DOMAIN log PROVE Before(j) = 1 .. j - 1 OBVIOUS
    <3>1. \A m \in DOMAIN log : m \in Before(j) <=> m < j
      BY <2>1 DEF Before, OrderlyInv
    <3>2. \A m \in Before(j) : m \in DOMAIN log BY DEF Before
    <3>3. \A m : m \in Before(j) <=> m \in 1 .. j - 1 BY <2>1, <3>1, <3>2
    <3> QED BY <3>3
  <2>3. log[k].previous = PreviousAt(k) BY DEF OrderlyInv
  <2>4. CASE k = 1
    <3>1. Before(k) = {} BY <2>2, <2>4
    <3> QED BY <2>3, <2>4, <3>1 DEF Linked, PreviousAt
  <2>5. CASE k # 1
    <3>1. k - 1 \in DOMAIN log /\ k - 1 \in 1 .. k - 1 BY <2>1, <2>5
    <3>2. k - 1 \in Before(k) /\ Before(k) = Before(k - 1) \cup {k - 1}
      BY <2>1, <2>2, <3>1
    <3> QED BY <2>3, <2>5, <3>2 DEF Linked, PreviousAt
  <2> QED BY <2>4, <2>5
<1>2. HashInv /\ (orderly => ChainLinks) => OrderlyChainVerifies
  BY DEF HashInv, ChainLinks, OrderlyChainVerifies
<1> QED BY <1>1, <1>2, TypeCorrect, OrderHolds, HashesHold, PTL
-----------------------------------------------------------------------------
(* Consent. *)

\* Entry e accepts no nonce that the entry at place j already carries, unless its
\* token is dated after that entry.
Unused(e, j) ==
    (/\ NeedsConsent(e.request.action) /\ e.kind # "DENY"
     /\ Token(e.request).iat <= log[j].timestamp) =>
        NonceOf(log[j].request) \cap NonceOf(e.request) = {}

\* Every entry, from its decision on, against those that were there before it.
NonceInv ==
    orderly =>
      /\ \A j, k \in DOMAIN log : j < k => Unused(log[k], j)
      /\ \A i \in Invocations, j \in DOMAIN log :
            (pc[i] \in Busy /\ ~InTable(entry[i].id)) => Unused(entry[i], j)

\* What is not refused for want of consent has a valid one.
LEMMA ConsentWasValid ==
    ASSUME NEW q, NEW c, NEW used, NEW now, NeedsConsent(q.action),
           Decision(q.action, q.ctx, c, used, now) \notin {"DENY", "throws"}
    PROVE  ValidConsent(q.action, q.ctx.token, used, now, c)
BY Zenon DEF Decision, ConsentFails

\* A nonce that the service has forgotten, or never seen, is not that of a token
\* issued by then: such a token has expired, or lives too long.
LEMMA DecidedUnused ==
    ASSUME TypeOK, OrderlyInv, orderly, NEW i \in Invocations, Decide(i), NEW j \in DOMAIN log
    PROVE  Unused(entry'[i], j)
<1> DEFINE q == request[i]
           t == Token(q)
           age == cfg[i].maxAge
<1>1. /\ entry'[i].request = q
      /\ entry'[i].kind = Decision(q.action, q.ctx, cfg[i], UsedNonces(i), clock)
      /\ entry'[i].kind # "throws"
  BY DecidedEntry DEF Verdict
<1>2. pc[i] = "decide" /\ scan[i] = DOMAIN log /\ q \in Requests /\ cfg[i] \in Configs
  BY DEF Decide, OrderlyInv, TypeOK
<1> SUFFICES ASSUME NeedsConsent(q.action), entry'[i].kind # "DENY",
                    t.iat <= log[j].timestamp,
                    NEW x, x \in NonceOf(log[j].request), x \in NonceOf(q)
             PROVE  FALSE
  BY <1>1 DEF Unused
<1>3. ValidConsent(q.action, t, UsedNonces(i), clock, cfg[i])
  BY <1>1, ConsentWasValid DEF Token
<1>4. /\ t # Undefined /\ t.jws = "token" /\ t.nonce \notin UsedNonces(i)
      /\ t.exp > clock /\ t.exp - t.iat <= age
  BY <1>3, Zenon DEF ValidConsent
<1>5. x = t.nonce BY DEF NonceOf
<1>6. ~(log[j].timestamp >= clock - 2 * age) BY <1>2, <1>4, <1>5 DEF UsedNonces
<1>7. /\ t.iat \in Int /\ t.exp \in Int /\ age \in Nat
      /\ clock \in Nat /\ log[j].timestamp \in Nat
  <2>1. t.iat \in Int /\ t.exp \in Int BY <1>2, <1>4, RequestAssumption DEF Token
  <2>2. age \in Nat BY <1>2, ConfigAssumption
  <2>3. clock \in Nat /\ log[j].timestamp \in Nat BY LogEntries DEF TypeOK, EntryRecord
  <2> QED BY <2>1, <2>2, <2>3
<1> HIDE DEF t, age
<1> QED BY <1>4, <1>6, <1>7

\* An entry of the table is the same after a step.
LEMMA SameBefore ==
    ASSUME TypeOK, [Next]_vars, NEW k \in DOMAIN log
    PROVE  k \in DOMAIN log' /\ log'[k] = log[k]
<1>1. CASE UNCHANGED log BY <1>1
<1>2. ASSUME NEW i \in Invocations, AppendEntry(i) \/ AppendUnacknowledged(i)
      PROVE  k \in DOMAIN log' /\ log'[k] = log[k]
  <2>1. pc[i] = "append" /\ Put(i) BY <1>2 DEF AppendEntry, AppendUnacknowledged
  <2> QED BY <2>1, PutEntries
<1>3. ASSUME NEW i \in Invocations,
             \/ Receive(i) \/ ReadNonces(i) \/ Decide(i) \/ DecideThrows(i) \/ ReadLast(i)
             \/ AppendFails(i) \/ Reply(i) \/ Lost(i)
      PROVE  UNCHANGED log
  BY <1>3 DEF Receive, ReadNonces, Decide, DecideThrows, ReadLast, AppendFails, Reply, Lost
<1> QED BY <1>1, <1>2, <1>3 DEF Next, Invocation, Tick, Redeploy, vars

LEMMA NewEntry ==
    ASSUME TypeOK, [Next]_vars, NEW k \in DOMAIN log', k \notin DOMAIN log
    PROVE  \E i \in Invocations : /\ pc[i] = "append" /\ pc'[i] # "idle"
                                  /\ ~InTable(entry[i].id) /\ InTable(entry[i].id)'
                                  /\ k = Len(log) + 1 /\ SameVerdict(log'[k], entry[i])
                                  /\ UNCHANGED orderly
<1>1. PICK i \in Invocations : AppendEntry(i) \/ AppendUnacknowledged(i)
  <2>1. ~UNCHANGED log OBVIOUS
  <2>2. ASSUME NEW i \in Invocations,
               \/ Receive(i) \/ ReadNonces(i) \/ Decide(i) \/ DecideThrows(i) \/ ReadLast(i)
               \/ AppendFails(i) \/ Reply(i) \/ Lost(i)
        PROVE  UNCHANGED log
    BY <2>2 DEF Receive, ReadNonces, Decide, DecideThrows, ReadLast, AppendFails, Reply, Lost
  <2> QED BY <2>1, <2>2 DEF Next, Invocation, Tick, Redeploy, vars
<1>2. /\ pc[i] = "append" /\ Put(i) /\ UNCHANGED <<entry, orderly>>
      /\ pc'[i] # "idle"
  BY <1>1 DEF AppendEntry, AppendUnacknowledged, Goto, local, TypeOK
<1>3. SameVerdict(Stored(entry[i]), entry[i]) BY <1>2, StoredEntry DEF TypeOK
<1> QED BY <1>2, <1>3, PutEntries DEF InTable

LEMMA NextNonces == TypeOK /\ IdInv /\ OrderlyInv /\ NonceInv /\ [Next]_vars => NonceInv'
<1> SUFFICES ASSUME TypeOK, IdInv, OrderlyInv, NonceInv, [Next]_vars, orderly'
             PROVE  NonceInv'
  BY DEF NonceInv
<1>0. orderly BY StaysOrderly
<1>1. Len(log) \in Nat /\ DOMAIN log = 1 .. Len(log) BY LogEntries
<1>2. ASSUME NEW e, NEW j \in DOMAIN log, Unused(e, j) PROVE Unused(e, j)'
  BY <1>2, SameBefore DEF Unused
<1>3. ASSUME NEW j \in DOMAIN log', NEW k \in DOMAIN log', j < k
      PROVE  Unused(log[k], j)'
  <2>1. CASE k \in DOMAIN log
    <3>1. j \in DOMAIN log
      <4>1. j \in Nat /\ j >= 1
        <5>1. log' \in Seq(EntryRecord) BY NextType DEF TypeOK
        <5> QED BY <5>1
      <4> QED BY <1>1, <1>3, <2>1, <4>1
    <3>2. Unused(log[k], j) BY <1>0, <1>3, <2>1, <3>1 DEF NonceInv
    <3>3. log'[k] = log[k] BY <2>1, SameBefore
    <3> QED BY <1>2, <3>1, <3>2, <3>3 DEF Unused
  <2>2. CASE k \notin DOMAIN log
    <3>1. PICK i \in Invocations : /\ pc[i] = "append" /\ ~InTable(entry[i].id)
                                   /\ k = Len(log) + 1 /\ SameVerdict(log'[k], entry[i])
      BY <2>2, NewEntry
    <3>2. j \in DOMAIN log
      <4>1. CASE j \notin DOMAIN log
        <5>1. j = Len(log) + 1 BY <4>1, NewEntry
        <5> QED BY <1>1, <1>3, <3>1, <5>1
      <4> QED BY <4>1
    <3>3. Unused(entry[i], j) BY <1>0, <3>1, <3>2 DEF NonceInv, Busy
    <3>5. log'[j] = log[j] BY <3>2, SameBefore
    <3> QED BY <3>1, <3>3, <3>5 DEF Unused, SameVerdict
  <2> QED BY <2>1, <2>2
<1>4. ASSUME NEW i \in Invocations, NEW j \in DOMAIN log', pc'[i] \in Busy,
             ~InTable(entry[i].id)'
      PROVE  Unused(entry[i], j)'
  <2>1. CASE Decide(i)
    <3>1. UNCHANGED log BY <2>1 DEF Decide
    <3>2. Unused(entry'[i], j) BY <1>0, <2>1, <3>1, DecidedUnused
    <3> QED BY <3>1, <3>2 DEF Unused
  <2>2. CASE pc[i] \in Busy /\ SameVerdict(entry'[i], entry[i])
    <3>1. entry'[i].id = entry[i].id BY <2>2 DEF SameVerdict
    <3>2. ~InTable(entry[i].id) BY <1>4, <3>1, SameBefore DEF InTable
    <3>3. j \in DOMAIN log
      <4>1. CASE j \notin DOMAIN log
        <5>1. PICK m \in Invocations : pc[m] = "append" /\ InTable(entry[m].id)'
          BY <4>1, NewEntry
        <5>2. m = i BY <1>0, <2>2, <5>1 DEF OrderlyInv, Busy
        <5> QED BY <1>4, <5>1, <5>2
      <4> QED BY <4>1
    <3>4. Unused(entry[i], j) BY <1>0, <2>2, <3>2, <3>3 DEF NonceInv
    <3>5. log'[j] = log[j] BY <3>3, SameBefore
    <3> QED BY <2>2, <3>4, <3>5 DEF Unused, SameVerdict
  <2> QED BY <1>4, <2>1, <2>2, EntrySources
<1> QED BY <1>3, <1>4 DEF NonceInv

\* With orderly invocations a consent token opens one decision, however long the
\* service remembers nonces and however long tokens may live, now and later.
THEOREM NonceUsedOnceHolds == Spec => []NonceUsedOnce
<1>1. Init => NonceInv
  <2> SUFFICES ASSUME Init PROVE NonceInv OBVIOUS
  <2>1. DOMAIN log = {} /\ \A i \in Invocations : pc[i] = "idle" BY DEF Init
  <2> QED BY <2>1 DEF NonceInv, Busy
<1>2. NonceInv => NonceUsedOnce
  BY DEF NonceInv, NonceUsedOnce, Unused, Accepted
<1> QED BY <1>1, <1>2, NextNonces, TypeCorrect, IdsHold, OrderHolds, PTL DEF Spec
=============================================================================
