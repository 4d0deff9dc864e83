--------------------- MODULE ReferenceCollection_proofs ---------------------
(***************************************************************************)
(* What holds of a reference collection for any number of calls of         *)
(* acquire: one object at a time, counted by its own references, disposed  *)
(* with the last of them, and never while another call waits for it.       *)
(***************************************************************************)
EXTENDS ReferenceCollection, SequenceTheorems, FiniteSetTheorems, TLAPS

(* Jobs. *)

JobRecord == [kind : {"join", "adopt", "store", "got", "deliver"},
              calls : Seq(Calls) \ {<<>>}]

Kind(i) == jobs[i].kind

\* The object that job i is about.
For(i) == object[Head(jobs[i].calls)]

\* The first h jobs are taken off the queue and those of fresh join it.
Moved(h, fresh) ==
    /\ h \in {0, 1} /\ h <= Len(jobs)
    /\ fresh \in Seq(JobRecord) /\ jobs' \in Seq(JobRecord)
    /\ Len(jobs') = Len(jobs) - h + Len(fresh)
    /\ \A i \in 1 .. Len(jobs) - h : jobs'[i] = jobs[i + h]
    /\ \A m \in 1 .. Len(fresh) : jobs'[Len(jobs) - h + m] = fresh[m]

LEMMA Pushed ==
    ASSUME jobs \in Seq(JobRecord), NEW e \in JobRecord, jobs' = Append(jobs, e)
    PROVE  Moved(0, <<e>>)
<1>1. /\ Len(jobs) \in Nat /\ jobs' \in Seq(JobRecord) /\ Len(jobs') = Len(jobs) + 1
      /\ \A i \in 1 .. Len(jobs) : jobs'[i] = jobs[i]
      /\ jobs'[Len(jobs) + 1] = e
  BY AppendProperties
<1>2. <<e>> \in Seq(JobRecord) /\ Len(<<e>>) = 1 /\ <<e>>[1] = e OBVIOUS
<1> QED BY <1>1, <1>2 DEF Moved

LEMMA Popped ==
    ASSUME jobs \in Seq(JobRecord), jobs # <<>>, NEW fresh \in Seq(JobRecord),
           jobs' = Tail(jobs) \o fresh
    PROVE  Moved(1, fresh)
<1>1. /\ Len(jobs) \in Nat \ {0} /\ Tail(jobs) \in Seq(JobRecord)
      /\ Len(Tail(jobs)) = Len(jobs) - 1
      /\ \A i \in 1 .. Len(Tail(jobs)) : Tail(jobs)[i] = jobs[i + 1]
  BY HeadTailProperties, EmptySeq, LenProperties
<1>2. /\ Len(fresh) \in Nat /\ jobs' \in Seq(JobRecord)
      /\ Len(jobs') = Len(Tail(jobs)) + Len(fresh)
      /\ \A i \in 1 .. Len(Tail(jobs)) + Len(fresh) :
            jobs'[i] = IF i <= Len(Tail(jobs)) THEN Tail(jobs)[i]
                       ELSE fresh[i - Len(Tail(jobs))]
  BY <1>1, ConcatProperties, LenProperties
<1>3. ASSUME NEW i \in 1 .. Len(jobs) - 1 PROVE jobs'[i] = jobs[i + 1]
  BY <1>1, <1>2
<1>4. ASSUME NEW m \in 1 .. Len(fresh) PROVE jobs'[Len(jobs) - 1 + m] = fresh[m]
  <2>1. /\ Len(jobs) - 1 + m \in 1 .. Len(Tail(jobs)) + Len(fresh)
        /\ ~ Len(jobs) - 1 + m <= Len(Tail(jobs))
        /\ Len(jobs) - 1 + m - Len(Tail(jobs)) = m
    BY <1>1, <1>2
  <2> QED BY <1>2, <2>1
<1> QED BY <1>1, <1>2, <1>3, <1>4 DEF Moved

LEMMA Replaced ==
    ASSUME jobs \in Seq(JobRecord), jobs # <<>>, NEW e \in JobRecord,
           jobs' = Append(Tail(jobs), e)
    PROVE  Moved(1, <<e>>)
<1>1. Append(Tail(jobs), e) = Tail(jobs) \o <<e>>
  BY HeadTailProperties, AppendIsConcat
<1>2. <<e>> \in Seq(JobRecord) OBVIOUS
<1> QED BY <1>1, <1>2, Popped

LEMMA Dropped ==
    ASSUME jobs \in Seq(JobRecord), jobs # <<>>, jobs' = Tail(jobs)
    PROVE  Moved(1, <<>>)
<1>1. Tail(jobs) \o <<>> = Tail(jobs) BY HeadTailProperties, ConcatEmptySeq
<1>2. <<>> \in Seq(JobRecord) OBVIOUS
<1> QED BY <1>1, <1>2, Popped

LEMMA Kept ==
    ASSUME jobs \in Seq(JobRecord), UNCHANGED jobs
    PROVE  Moved(0, <<>>)
BY LenProperties DEF Moved

\* Every job there is now was there or is fresh, and those there were are there
\* still unless they were taken off.
LEMMA Sources ==
    ASSUME jobs \in Seq(JobRecord), NEW h, NEW fresh, Moved(h, fresh)
    PROVE  /\ DOMAIN jobs' = 1 .. Len(jobs') /\ DOMAIN jobs = 1 .. Len(jobs)
           /\ DOMAIN fresh = 1 .. Len(fresh)
           /\ Len(jobs) \in Nat /\ Len(jobs') \in Nat /\ Len(fresh) \in Nat
           /\ \A i \in DOMAIN jobs' :
                 \/ i + h \in DOMAIN jobs /\ jobs'[i] = jobs[i + h]
                 \/ /\ i - (Len(jobs) - h) \in DOMAIN fresh
                    /\ jobs'[i] = fresh[i - (Len(jobs) - h)]
           /\ \A j \in DOMAIN jobs : j > h => j - h \in DOMAIN jobs' /\ jobs'[j - h] = jobs[j]
           /\ \A m \in DOMAIN fresh : /\ m + (Len(jobs) - h) \in DOMAIN jobs'
                                      /\ jobs'[m + (Len(jobs) - h)] = fresh[m]
<1>1. /\ DOMAIN jobs' = 1 .. Len(jobs') /\ DOMAIN jobs = 1 .. Len(jobs)
      /\ DOMAIN fresh = 1 .. Len(fresh)
      /\ Len(jobs) \in Nat /\ Len(jobs') \in Nat /\ Len(fresh) \in Nat
  BY LenProperties DEF Moved
<1>2. ASSUME NEW i \in DOMAIN jobs'
      PROVE  \/ i + h \in DOMAIN jobs /\ jobs'[i] = jobs[i + h]
             \/ /\ i - (Len(jobs) - h) \in DOMAIN fresh
                /\ jobs'[i] = fresh[i - (Len(jobs) - h)]
  <2>1. CASE i <= Len(jobs) - h
    <3>1. i \in 1 .. Len(jobs) - h /\ i + h \in 1 .. Len(jobs) BY <1>1, <2>1 DEF Moved
    <3> QED BY <1>1, <3>1 DEF Moved
  <2>2. CASE i > Len(jobs) - h
    <3>1. i - (Len(jobs) - h) \in 1 .. Len(fresh)
          /\ Len(jobs) - h + (i - (Len(jobs) - h)) = i
      BY <1>1, <2>2 DEF Moved
    <3> QED BY <1>1, <3>1 DEF Moved
  <2> QED BY <1>1, <2>1, <2>2 DEF Moved
<1>3. ASSUME NEW j \in DOMAIN jobs, j > h
      PROVE  j - h \in DOMAIN jobs' /\ jobs'[j - h] = jobs[j]
  <2>1. j - h \in 1 .. Len(jobs) - h /\ j - h + h = j BY <1>1, <1>3 DEF Moved
  <2> QED BY <1>1, <2>1 DEF Moved
<1>4. ASSUME NEW m \in DOMAIN fresh
      PROVE  /\ m + (Len(jobs) - h) \in DOMAIN jobs'
             /\ jobs'[m + (Len(jobs) - h)] = fresh[m]
  BY <1>1 DEF Moved
<1> QED BY <1>1, <1>2, <1>3, <1>4
-----------------------------------------------------------------------------
(* Types. *)

Types ==
    /\ state \in [Objects -> {"absent", "loading", "loaded", "failed", "live", "disposed"}]
    /\ {pending, stored, owner} \subseteq Objects \cup {None}
    /\ pending # None => stored = None /\ state[pending] \in {"loading", "loaded", "failed"}
    /\ owner = None <=> attached = {}
    /\ attached \subseteq {r \in Calls : status[r] \in {"waiting", "held"}}
    /\ status \in [Calls -> {"free", "waiting", "held", "released", "refused"}]
    /\ object \in [Calls -> Objects \cup {None}]
    /\ waiters \in Seq(Calls) /\ gap \in BOOLEAN
    /\ jobs \in Seq(JobRecord)

\* Each waiting call is at one place, and nothing else is there.
Placed ==
    /\ \A r \in Calls : status[r] = "waiting" =>
          \E i \in Places : \E k \in DOMAIN Queue(i) : Queue(i)[k] = r
    /\ \A i \in Places : \A k \in DOMAIN Queue(i) :
          Queue(i)[k] \in Calls /\ status[Queue(i)[k]] = "waiting"
    /\ \A i, j \in Places : \A k \in DOMAIN Queue(i), l \in DOMAIN Queue(j) :
          Queue(i)[k] = Queue(j)[l] => i = j /\ k = l

LEMMA TypeParts == TypeOK <=> Types /\ Placed
<1>1. ASSUME TypeOK PROVE Types /\ Placed
  <2>1. Types BY <1>1 DEF TypeOK, Types, JobRecord
  <2>2. {r \in Calls : status[r] = "waiting"} = UNION {ToSet(Queue(i)) : i \in Places}
    BY <1>1 DEF TypeOK
  <2>3. ASSUME NEW r \in Calls, status[r] = "waiting"
        PROVE  \E i \in Places : \E k \in DOMAIN Queue(i) : Queue(i)[k] = r
    <3>1. PICK i \in Places : r \in ToSet(Queue(i)) BY <2>2, <2>3
    <3> QED BY <3>1 DEF ToSet
  <2>4. ASSUME NEW i \in Places, NEW k \in DOMAIN Queue(i)
        PROVE  Queue(i)[k] \in Calls /\ status[Queue(i)[k]] = "waiting"
    <3>1. Queue(i)[k] \in ToSet(Queue(i)) BY DEF ToSet
    <3> QED BY <2>2, <3>1
  <2>5. \A i, j \in Places : \A k \in DOMAIN Queue(i), l \in DOMAIN Queue(j) :
           Queue(i)[k] = Queue(j)[l] => i = j /\ k = l
    BY <1>1 DEF TypeOK
  <2> QED BY <2>1, <2>3, <2>4, <2>5, Zenon DEF Placed
<1>2. ASSUME Types, Placed PROVE TypeOK
  <2>1. ASSUME NEW r \in Calls, status[r] = "waiting"
        PROVE  r \in UNION {ToSet(Queue(i)) : i \in Places}
    <3>1. PICK i \in Places : \E k \in DOMAIN Queue(i) : Queue(i)[k] = r
      BY <1>2, <2>1, Zenon DEF Placed
    <3>2. r \in ToSet(Queue(i)) BY <3>1 DEF ToSet
    <3> QED BY <3>2
  <2>2. ASSUME NEW i \in Places, NEW r \in ToSet(Queue(i))
        PROVE  r \in Calls /\ status[r] = "waiting"
    <3>1. PICK k \in DOMAIN Queue(i) : Queue(i)[k] = r BY DEF ToSet
    <3> QED BY <1>2, <3>1, Zenon DEF Placed
  <2>3. {r \in Calls : status[r] = "waiting"} = UNION {ToSet(Queue(i)) : i \in Places}
    BY <2>1, <2>2
  <2>4. \A i, j \in Places : \A k \in DOMAIN Queue(i), l \in DOMAIN Queue(j) :
           Queue(i)[k] = Queue(j)[l] => i = j /\ k = l
    BY <1>2, Zenon DEF Placed
  <2> QED BY <1>2, <2>3, <2>4 DEF TypeOK, Types, JobRecord
<1> QED BY <1>1, <1>2

\* The first job, when it is of this kind and for these calls.
LEMMA FirstJob ==
    ASSUME Types, NEW kind, NEW rs, Runs(kind, rs)
    PROVE  /\ 1 \in DOMAIN jobs /\ jobs # <<>>
           /\ Kind(1) = kind /\ jobs[1].calls = rs /\ Queue(1) = rs /\ 1 \in Places
           /\ rs \in Seq(Calls) \ {<<>>} /\ Len(rs) \in Nat \ {0}
           /\ DOMAIN rs = 1 .. Len(rs) /\ 1 \in DOMAIN rs /\ Head(rs) = rs[1]
           /\ Awaited = For(1) /\ For(1) = object[rs[1]]
<1>1. jobs \in Seq(JobRecord) /\ jobs # <<>> BY DEF Types, Runs
<1>2. /\ Len(jobs) \in Nat \ {0} /\ DOMAIN jobs = 1 .. Len(jobs)
      /\ Head(jobs) = jobs[1] /\ Head(jobs) \in JobRecord
  BY <1>1, EmptySeq, LenProperties, HeadTailProperties
<1>3. Head(jobs).kind = kind /\ Head(jobs).calls = rs BY DEF Runs, Job
<1>4. rs \in Seq(Calls) \ {<<>>} BY <1>2, <1>3 DEF JobRecord
<1>5. Len(rs) \in Nat \ {0} /\ DOMAIN rs = 1 .. Len(rs) /\ Head(rs) = rs[1]
  BY <1>4, EmptySeq, LenProperties
<1> QED BY <1>1, <1>2, <1>3, <1>4, <1>5 DEF Kind, Queue, Places, Awaited, For

\* The calls of fresh come from the jobs taken off, or waited nowhere.
LEMMA Requeued ==
    ASSUME Types, Placed, NEW h, NEW fresh, Moved(h, fresh), UNCHANGED waiters,
           NEW taken, h = 0 => taken = {}, h = 1 => taken = ToSet(jobs[1].calls),
           \A m \in DOMAIN fresh : \A k \in DOMAIN fresh[m].calls :
              /\ fresh[m].calls[k] \in Calls /\ status'[fresh[m].calls[k]] = "waiting"
              /\ fresh[m].calls[k] \in taken \/ status[fresh[m].calls[k]] # "waiting",
           \A m, n \in DOMAIN fresh :
              \A k \in DOMAIN fresh[m].calls, l \in DOMAIN fresh[n].calls :
                 fresh[m].calls[k] = fresh[n].calls[l] => m = n /\ k = l,
           \A r \in Calls : status[r] = "waiting" /\ r \notin taken => status'[r] = "waiting",
           \A r \in Calls : status'[r] = "waiting" =>
              \/ status[r] = "waiting" /\ r \notin taken
              \/ \E m \in DOMAIN fresh : \E k \in DOMAIN fresh[m].calls : fresh[m].calls[k] = r
    PROVE  Placed'
<1> DEFINE d == Len(jobs) - h
           Was(i) == IF i = 0 THEN 0 ELSE i + h
           Kept0(i) == i = 0 \/ i <= d
<1>1. /\ DOMAIN jobs' = 1 .. Len(jobs') /\ DOMAIN jobs = 1 .. Len(jobs)
      /\ DOMAIN fresh = 1 .. Len(fresh)
      /\ Len(jobs) \in Nat /\ Len(jobs') \in Nat /\ Len(fresh) \in Nat
  BY Sources DEF Types
<1>2. h \in {0, 1} /\ d \in Nat /\ Len(jobs') = d + Len(fresh) BY <1>1 DEF Moved
<1>3. ASSUME NEW i \in Places', Kept0(i)
      PROVE  /\ Was(i) \in Places /\ Queue(i)' = Queue(Was(i))
             /\ \A k \in DOMAIN Queue(i)' : Queue(i)'[k] \notin taken
  <2>1. CASE i = 0
    <3>1. Was(i) = 0 /\ 0 \in Places /\ Queue(i)' = Queue(0) BY <1>1, <2>1 DEF Queue, Places
    <3>2. ASSUME h = 1, NEW k \in DOMAIN Queue(0), Queue(0)[k] \in ToSet(jobs[1].calls)
          PROVE  FALSE
      <4>1. 1 \in Places /\ Queue(1) = jobs[1].calls BY <1>1, <1>2, <3>2 DEF Places, Queue
      <4>2. PICK l \in DOMAIN Queue(1) : Queue(0)[k] = Queue(1)[l]
        BY <3>2, <4>1 DEF ToSet
      <4> QED BY <3>1, <4>1, <4>2 DEF Placed
    <3> QED BY <3>1, <3>2, <1>2
  <2>2. CASE i # 0
    <3>1. i \in 1 .. d /\ i + h \in 1 .. Len(jobs) BY <1>1, <1>2, <1>3, <2>2 DEF Places
    <3>2. jobs'[i] = jobs[i + h] BY <3>1 DEF Moved
    <3>3. Was(i) = i + h /\ Was(i) \in Places /\ Queue(i)' = Queue(i + h)
      BY <1>1, <1>2, <2>2, <3>1, <3>2 DEF Queue, Places
    <3>4. ASSUME h = 1, NEW k \in DOMAIN Queue(i + h), Queue(i + h)[k] \in ToSet(jobs[1].calls)
          PROVE  FALSE
      <4>1. 1 \in Places /\ Queue(1) = jobs[1].calls BY <1>1, <1>2, <3>4 DEF Places, Queue
      <4>2. PICK l \in DOMAIN Queue(1) : Queue(i + h)[k] = Queue(1)[l]
        BY <3>4, <4>1 DEF ToSet
      <4>3. i + h = 1 BY <3>3, <4>1, <4>2 DEF Placed
      <4> QED BY <3>1, <3>4, <4>3
    <3> QED BY <3>3, <3>4, <1>2
  <2> QED BY <2>1, <2>2
<1>4. ASSUME NEW i \in Places', ~Kept0(i)
      PROVE  i - d \in DOMAIN fresh /\ Queue(i)' = fresh[i - d].calls
  <2> HIDE DEF d
  <2>0. i \in 0 .. Len(jobs') /\ i # 0 /\ ~(i <= d) BY <1>4 DEF Places
  <2>1. i - d \in 1 .. Len(fresh) /\ d + (i - d) = i BY <1>1, <1>2, <2>0
  <2>2. jobs'[i] = fresh[i - d] BY <2>1 DEF Moved, d
  <2> QED BY <1>1, <2>0, <2>1, <2>2 DEF Queue
<1>5. ASSUME NEW r \in Calls, status'[r] = "waiting"
      PROVE  \E i \in Places' : \E k \in DOMAIN Queue(i)' : Queue(i)'[k] = r
  <2>1. CASE status[r] = "waiting" /\ r \notin taken
    <3>1. PICK j \in Places : \E k \in DOMAIN Queue(j) : Queue(j)[k] = r
      BY <2>1, Zenon DEF Placed
    <3>2. CASE j = 0
      <4>1. 0 \in Places' /\ Queue(0)' = Queue(0) BY <1>1 DEF Places, Queue
      <4> QED BY <3>1, <3>2, <4>1
    <3>3. CASE j # 0
      <4>1. j > h
        <5>1. ASSUME h = 1, j = 1 PROVE FALSE
          <6>1. r \in ToSet(jobs[1].calls) BY <3>1, <5>1 DEF ToSet, Queue
          <6> QED BY <2>1, <5>1, <6>1
        <5> QED BY <1>1, <1>2, <3>3, <5>1 DEF Places
      <4>2. j - h \in 1 .. d /\ j - h + h = j BY <1>1, <1>2, <4>1 DEF Places
      <4>3. jobs'[j - h] = jobs[(j - h) + h] BY <4>2 DEF Moved
      <4>4. j - h \in Places' /\ Queue(j - h)' = Queue(j)
        BY <1>1, <1>2, <3>3, <4>2, <4>3 DEF Places, Queue
      <4> QED BY <3>1, <4>4
    <3> QED BY <3>2, <3>3
  <2>2. ASSUME NEW m \in DOMAIN fresh, NEW k \in DOMAIN fresh[m].calls, fresh[m].calls[k] = r
        PROVE  \E i \in Places' : \E l \in DOMAIN Queue(i)' : Queue(i)'[l] = r
    <3>1. jobs'[d + m] = fresh[m] /\ d + m \in Places' /\ d + m # 0
      BY <1>1, <1>2 DEF Moved, Places
    <3>2. PICK i \in Places' : i = d + m BY <3>1
    <3>3. Queue(i)' = fresh[m].calls BY <3>1, <3>2 DEF Queue
    <3> QED BY <2>2, <3>3
  <2> QED BY <1>5, <2>1, <2>2
<1>6. ASSUME NEW i \in Places', NEW k \in DOMAIN Queue(i)'
      PROVE  Queue(i)'[k] \in Calls /\ status'[Queue(i)'[k]] = "waiting"
  <2>1. CASE Kept0(i)
    <3>1. Queue(i)'[k] \in Calls /\ status[Queue(i)'[k]] = "waiting" /\ Queue(i)'[k] \notin taken
      BY <1>3, <2>1 DEF Placed
    <3> QED BY <3>1
  <2>2. CASE ~Kept0(i) BY <1>4, <2>2
  <2> QED BY <2>1, <2>2
<1>7. ASSUME NEW i \in Places', NEW j \in Places',
             NEW k \in DOMAIN Queue(i)', NEW l \in DOMAIN Queue(j)',
             Queue(i)'[k] = Queue(j)'[l]
      PROVE  i = j /\ k = l
  <2>1. CASE Kept0(i) /\ Kept0(j)
    <3>1. /\ Was(i) \in Places /\ Was(j) \in Places
          /\ Queue(i)' = Queue(Was(i)) /\ Queue(j)' = Queue(Was(j))
      BY <1>3, <2>1
    <3>2. Was(i) = Was(j) /\ k = l BY <1>7, <3>1 DEF Placed
    <3>3. i = j BY <1>1, <1>2, <3>2 DEF Places
    <3> QED BY <3>2, <3>3
  <2>2. ASSUME NEW a \in Places', NEW b \in Places', Kept0(a), ~Kept0(b),
               NEW u \in DOMAIN Queue(a)', NEW v \in DOMAIN Queue(b)'
        PROVE  Queue(a)'[u] # Queue(b)'[v]
    <3>1. /\ Was(a) \in Places /\ Queue(a)' = Queue(Was(a)) /\ Queue(a)'[u] \notin taken
      BY <1>3, <2>2
    <3>2. status[Queue(a)'[u]] = "waiting" BY <3>1 DEF Placed
    <3>3. Queue(b)'[v] \in taken \/ status[Queue(b)'[v]] # "waiting" BY <1>4, <2>2
    <3> QED BY <3>1, <3>2, <3>3
  <2>3. CASE ~Kept0(i) /\ ~Kept0(j)
    <3>1. /\ i - d \in DOMAIN fresh /\ j - d \in DOMAIN fresh
          /\ Queue(i)' = fresh[i - d].calls /\ Queue(j)' = fresh[j - d].calls
      BY <1>4, <2>3
    <3>2. i - d = j - d /\ k = l BY <1>7, <3>1
    <3> QED BY <1>1, <1>2, <3>2 DEF Places
  <2> QED BY <1>7, <2>1, <2>2, <2>3
<1> QED BY <1>5, <1>6, <1>7, Zenon DEF Placed
-----------------------------------------------------------------------------
(* The queue.  Whatever clients do, the calls of a job are for one object, *)
(* and an object that is being made has no job but those on its way.       *)

\* A call is for an object that was made.
Bound ==
    \A r \in Calls : status[r] # "free" => object[r] \in Objects /\ state[object[r]] # "absent"

\* The calls of a job are for one object, those on the promise for the one pending.
Together ==
    /\ \A i \in DOMAIN jobs : \A k \in DOMAIN jobs[i].calls : object[jobs[i].calls[k]] = For(i)
    /\ \A k \in DOMAIN waiters : object[waiters[k]] = pending

Making ==
    /\ waiters # <<>> <=> pending # None /\ state[pending] = "loading"
    /\ \A p \in Objects : state[p] \in {"loading", "loaded"} => p = pending
    /\ \A i \in DOMAIN jobs : Kind(i) = "store" => For(i) = pending /\ pending # None

\* Until its factory returns an object has only calls that are joining; then one
\* job is to store it, and those that came late are behind that job.
Phases ==
    /\ (pending # None /\ state[pending] = "loading") =>
          \A i \in DOMAIN jobs : For(i) = pending => Kind(i) = "join"
    /\ (pending # None /\ state[pending] # "loading") =>
          \E s \in DOMAIN jobs :
             /\ Kind(s) = "store"
             /\ \A i \in DOMAIN jobs : Kind(i) = "store" => i = s
             /\ \A i \in DOMAIN jobs : For(i) = pending =>
                   Kind(i) \in {"join", "adopt", "store"} /\ (Kind(i) = "adopt" => i > s)

Alive ==
    /\ \A r \in attached : state[object[r]] \in {"live", "disposed"}
    /\ stored # None => state[stored] \in {"live", "disposed"}
    /\ owner # None => state[owner] \in {"live", "disposed"}

QueueInv == Types /\ Placed /\ Bound /\ Together /\ Making /\ Phases /\ Alive

LEMMA InitQueue == Init => QueueInv
<1> SUFFICES ASSUME Init PROVE QueueInv OBVIOUS
<1>1. Len(jobs) = 0 /\ Len(waiters) = 0 /\ DOMAIN jobs = {} /\ DOMAIN waiters = {}
  BY DEF Init
<1>2. Types
  <2>1. jobs \in Seq(JobRecord) /\ waiters \in Seq(Calls) BY DEF Init
  <2>2. {pending, stored, owner} \subseteq Objects \cup {None} BY DEF Init
  <2>3. /\ pending # None => stored = None /\ state[pending] \in {"loading", "loaded", "failed"}
        /\ owner = None <=> attached = {}
        /\ attached \subseteq {r \in Calls : status[r] \in {"waiting", "held"}}
    BY DEF Init
  <2>4. state \in [Objects -> {"absent", "loading", "loaded", "failed", "live", "disposed"}]
    BY DEF Init
  <2>5. status \in [Calls -> {"free", "waiting", "held", "released", "refused"}] BY DEF Init
  <2>6. object \in [Calls -> Objects \cup {None}] /\ gap \in BOOLEAN BY DEF Init
  <2> QED BY <2>1, <2>2, <2>3, <2>4, <2>5, <2>6 DEF Types
<1>3. Placed BY <1>1 DEF Init, Placed, Places, Queue
<1>4. Bound /\ Together /\ Making /\ Phases /\ Alive
  BY <1>1 DEF Init, Bound, Together, Making, Phases, Alive, None
<1> QED BY <1>2, <1>3, <1>4 DEF QueueInv

\* A job now and one before.
Same(i, j) == jobs'[i] = jobs[j] /\ For(i)' = For(j)

\* Where calls that wait keep their object, so do the jobs that stay.
LEMMA Follow ==
    ASSUME QueueInv, NEW h, NEW fresh, Moved(h, fresh),
           \A r \in Calls : status[r] = "waiting" => object'[r] = object[r]
    PROVE  /\ DOMAIN jobs' = 1 .. Len(jobs') /\ DOMAIN jobs = 1 .. Len(jobs)
           /\ DOMAIN fresh = 1 .. Len(fresh)
           /\ Len(jobs) \in Nat /\ Len(jobs') \in Nat /\ Len(fresh) \in Nat
           /\ h \in {0, 1} /\ h <= Len(jobs) /\ Len(jobs') = Len(jobs) - h + Len(fresh)
           /\ \A i \in DOMAIN jobs' :
                 \/ i + h \in DOMAIN jobs /\ Same(i, i + h)
                 \/ /\ i > Len(jobs) - h /\ i - (Len(jobs) - h) \in DOMAIN fresh
                    /\ jobs'[i] = fresh[i - (Len(jobs) - h)]
           /\ \A j \in DOMAIN jobs : j > h => j - h \in DOMAIN jobs' /\ Same(j - h, j)
           /\ \A m \in DOMAIN fresh : /\ m + (Len(jobs) - h) \in DOMAIN jobs'
                                      /\ jobs'[m + (Len(jobs) - h)] = fresh[m]
<1>1. /\ DOMAIN jobs' = 1 .. Len(jobs') /\ DOMAIN jobs = 1 .. Len(jobs)
      /\ DOMAIN fresh = 1 .. Len(fresh)
      /\ Len(jobs) \in Nat /\ Len(jobs') \in Nat /\ Len(fresh) \in Nat
      /\ h \in {0, 1} /\ h <= Len(jobs) /\ Len(jobs') = Len(jobs) - h + Len(fresh)
  BY Sources DEF QueueInv, Types, Moved
<1>2. ASSUME NEW j \in DOMAIN jobs
      PROVE  /\ object'[Head(jobs[j].calls)] = object[Head(jobs[j].calls)]
             /\ 1 \in DOMAIN jobs[j].calls /\ Head(jobs[j].calls) = jobs[j].calls[1]
  <2>1. jobs[j] \in JobRecord BY <1>1, ElementOfSeq DEF QueueInv, Types
  <2>2. jobs[j].calls \in Seq(Calls) /\ jobs[j].calls # <<>> BY <2>1 DEF JobRecord
  <2>3. 1 \in DOMAIN jobs[j].calls /\ Head(jobs[j].calls) = jobs[j].calls[1]
    BY <2>2, EmptySeq, LenProperties
  <2>4. j \in Places /\ Queue(j) = jobs[j].calls BY <1>1 DEF Places, Queue
  <2>5. jobs[j].calls[1] \in Calls /\ status[jobs[j].calls[1]] = "waiting"
    BY <2>3, <2>4 DEF QueueInv, Placed
  <2> QED BY <2>3, <2>5
<1>3. \A i \in DOMAIN jobs', j \in DOMAIN jobs : jobs'[i] = jobs[j] => Same(i, j)
  BY <1>2 DEF Same, For
<1>4. ASSUME NEW i \in DOMAIN jobs'
      PROVE  \/ i + h \in DOMAIN jobs /\ Same(i, i + h)
             \/ /\ i > Len(jobs) - h /\ i - (Len(jobs) - h) \in DOMAIN fresh
                /\ jobs'[i] = fresh[i - (Len(jobs) - h)]
  <2>1. \/ i + h \in DOMAIN jobs /\ jobs'[i] = jobs[i + h]
        \/ /\ i - (Len(jobs) - h) \in DOMAIN fresh
           /\ jobs'[i] = fresh[i - (Len(jobs) - h)]
    BY Sources DEF QueueInv, Types
  <2>2. CASE i + h \in DOMAIN jobs /\ jobs'[i] = jobs[i + h] BY <1>3, <2>2
  <2>3. CASE i - (Len(jobs) - h) \in DOMAIN fresh /\ jobs'[i] = fresh[i - (Len(jobs) - h)]
    BY <1>1, <2>3
  <2> QED BY <2>1, <2>2, <2>3
<1>5. \A j \in DOMAIN jobs : j > h => j - h \in DOMAIN jobs' /\ Same(j - h, j)
  BY <1>3, Sources DEF QueueInv, Types
<1>6. \A m \in DOMAIN fresh : /\ m + (Len(jobs) - h) \in DOMAIN jobs'
                              /\ jobs'[m + (Len(jobs) - h)] = fresh[m]
  BY Sources DEF QueueInv, Types
<1> QED BY <1>1, <1>4, <1>5, <1>6

\* Of a queue whose jobs that are new are each for one object, so are all.
LEMMA Alike ==
    ASSUME QueueInv, NEW h, NEW fresh, Moved(h, fresh),
           \A r \in Calls : status[r] = "waiting" => object'[r] = object[r],
           \A m \in DOMAIN fresh : \A k \in DOMAIN fresh[m].calls :
              object'[fresh[m].calls[k]] = object'[Head(fresh[m].calls)]
    PROVE  \A i \in DOMAIN jobs' : \A k \in DOMAIN jobs'[i].calls :
              object'[jobs'[i].calls[k]] = For(i)'
<1> SUFFICES ASSUME NEW i \in DOMAIN jobs', NEW k \in DOMAIN jobs'[i].calls
             PROVE  object'[jobs'[i].calls[k]] = For(i)'
  OBVIOUS
<1>1. CASE i + h \in DOMAIN jobs /\ Same(i, i + h)
  <2>1. PICK j \in DOMAIN jobs : j = i + h BY <1>1
  <2>2. jobs'[i] = jobs[j] /\ For(i)' = For(j) BY <1>1, <2>1 DEF Same
  <2>3. j \in Places /\ Queue(j) = jobs[j].calls BY Follow DEF Places, Queue
  <2>4. jobs[j].calls[k] \in Calls /\ status[jobs[j].calls[k]] = "waiting"
    BY <2>2, <2>3 DEF QueueInv, Placed
  <2>5. object[jobs[j].calls[k]] = For(j) BY <2>2 DEF QueueInv, Together
  <2> QED BY <2>2, <2>4, <2>5
<1>2. CASE i - (Len(jobs) - h) \in DOMAIN fresh /\ jobs'[i] = fresh[i - (Len(jobs) - h)]
  BY <1>2 DEF For
<1> QED BY <1>1, <1>2, Follow
LEMMA Called ==
    ASSUME Types, NEW r \in Calls, Calling(r)
    PROVE  /\ status[r] = "free" /\ status'[r] = "waiting" /\ r \notin attached
           /\ \A q \in Calls : q # r => status'[q] = status[q]
           /\ status' \in [Calls -> {"free", "waiting", "held", "released", "refused"}]
BY DEF Types, Calling

\* The objects of calls when call r is bound to object p.
LEMMA Rebound ==
    ASSUME Types, NEW r \in Calls, NEW p \in Objects,
           object' = [object EXCEPT ![r] = p]
    PROVE  /\ object' \in [Calls -> Objects \cup {None}] /\ object'[r] = p
           /\ \A q \in Calls : q # r => object'[q] = object[q]
BY DEF Types

\* A single job for a single call.
LEMMA Single ==
    ASSUME NEW kind \in {"join", "adopt", "store", "got", "deliver"}, NEW r \in Calls
    PROVE  /\ Job(kind, <<r>>) \in JobRecord /\ <<Job(kind, <<r>>)>> \in Seq(JobRecord)
           /\ DOMAIN <<Job(kind, <<r>>)>> = {1}
           /\ <<Job(kind, <<r>>)>>[1].kind = kind /\ <<Job(kind, <<r>>)>>[1].calls = <<r>>
           /\ DOMAIN <<r>> = {1} /\ Head(<<r>>) = r /\ <<r>>[1] = r
<1>1. <<r>> \in Seq(Calls) /\ <<r>> # <<>> OBVIOUS
<1>2. Job(kind, <<r>>) \in JobRecord BY <1>1 DEF Job, JobRecord
<1> QED BY <1>1, <1>2 DEF Job

\* A call of acquire queues a job for itself.
LEMMA QueuedNew ==
    ASSUME Types, Placed, UNCHANGED waiters, NEW e, Moved(0, <<e>>),
           NEW r \in Calls, e.calls = <<r>>, status[r] # "waiting", status'[r] = "waiting",
           \A q \in Calls : q # r => status'[q] = status[q]
    PROVE  Placed'
<1> DEFINE fresh == <<e>>
           taken == {}
<1>1. /\ DOMAIN fresh = {1} /\ fresh[1] = e /\ 1 \in DOMAIN fresh[1].calls
      /\ \A k \in DOMAIN fresh[1].calls : k = 1 /\ fresh[1].calls[k] = r
  OBVIOUS
<1>2. Moved(0, fresh) OBVIOUS
<1> HIDE DEF fresh
<1>3. (0 = 0 => taken = {}) /\ (0 = 1 => taken = ToSet(jobs[1].calls)) OBVIOUS
<1>4. \A m \in DOMAIN fresh : \A k \in DOMAIN fresh[m].calls :
         /\ fresh[m].calls[k] \in Calls /\ status'[fresh[m].calls[k]] = "waiting"
         /\ fresh[m].calls[k] \in taken \/ status[fresh[m].calls[k]] # "waiting"
  BY <1>1
<1>5. \A m, n \in DOMAIN fresh :
         \A k \in DOMAIN fresh[m].calls, l \in DOMAIN fresh[n].calls :
            fresh[m].calls[k] = fresh[n].calls[l] => m = n /\ k = l
  BY <1>1
<1>6. \A q \in Calls : status[q] = "waiting" /\ q \notin taken => status'[q] = "waiting"
  OBVIOUS
<1>7. \A q \in Calls : status'[q] = "waiting" =>
         \/ status[q] = "waiting" /\ q \notin taken
         \/ \E m \in DOMAIN fresh : \E k \in DOMAIN fresh[m].calls : fresh[m].calls[k] = q
  BY <1>1
<1> HIDE DEF taken
<1> QED BY <1>2, <1>3, <1>4, <1>5, <1>6, <1>7, Requeued

\* The first job makes way for one for the same calls.
LEMMA QueuedAgain ==
    ASSUME Types, Placed, UNCHANGED <<waiters, status>>, NEW e, Moved(1, <<e>>),
           1 \in DOMAIN jobs, e.calls = jobs[1].calls
    PROVE  Placed'
<1> DEFINE fresh == <<e>>
           taken == ToSet(jobs[1].calls)
<1>0. 1 \in Places /\ Queue(1) = jobs[1].calls
  BY LenProperties DEF Types, Places, Queue
<1>1. DOMAIN fresh = {1} /\ fresh[1].calls = jobs[1].calls OBVIOUS
<1>2. Moved(1, fresh) OBVIOUS
<1>3. (1 = 0 => taken = {}) /\ (1 = 1 => taken = ToSet(jobs[1].calls)) OBVIOUS
<1>4. \A m \in DOMAIN fresh : \A k \in DOMAIN fresh[m].calls :
         /\ fresh[m].calls[k] \in Calls /\ status'[fresh[m].calls[k]] = "waiting"
         /\ fresh[m].calls[k] \in taken \/ status[fresh[m].calls[k]] # "waiting"
  BY <1>0, <1>1 DEF Placed, ToSet
<1>5. \A m, n \in DOMAIN fresh :
         \A k \in DOMAIN fresh[m].calls, l \in DOMAIN fresh[n].calls :
            fresh[m].calls[k] = fresh[n].calls[l] => m = n /\ k = l
  BY <1>0, <1>1 DEF Placed
<1>6. \A q \in Calls : status[q] = "waiting" /\ q \notin taken => status'[q] = "waiting"
  OBVIOUS
<1>7. \A q \in Calls : status'[q] = "waiting" =>
         \/ status[q] = "waiting" /\ q \notin taken
         \/ \E m \in DOMAIN fresh : \E k \in DOMAIN fresh[m].calls : fresh[m].calls[k] = q
  BY <1>1 DEF ToSet
<1> HIDE DEF fresh, taken
<1> QED BY <1>2, <1>3, <1>4, <1>5, <1>6, <1>7, Requeued

LEMMA NoneApart == None \notin Objects
BY DEF None, Objects

LEMMA AcquireStoredQueue ==
    ASSUME QueueInv, NEW r \in Calls, AcquireStored(r)
    PROVE  QueueInv'
<1> DEFINE fresh == <<Job("deliver", <<r>>)>>
<1>0. Types /\ stored \in Objects /\ pending = None /\ waiters = <<>>
  BY DEF QueueInv, Types, AcquireStored, Making
<1>1. /\ status[r] = "free" /\ status'[r] = "waiting" /\ r \notin attached
      /\ \A q \in Calls : q # r => status'[q] = status[q]
      /\ status' \in [Calls -> {"free", "waiting", "held", "released", "refused"}]
  BY <1>0, Called DEF AcquireStored
<1>2. /\ object' \in [Calls -> Objects \cup {None}] /\ object'[r] = stored
      /\ \A q \in Calls : q # r => object'[q] = object[q]
  BY <1>0, Rebound DEF AcquireStored
<1>3. /\ fresh \in Seq(JobRecord) /\ DOMAIN fresh = {1} /\ fresh[1].kind = "deliver"
      /\ fresh[1].calls = <<r>> /\ DOMAIN <<r>> = {1} /\ Head(<<r>>) = r /\ <<r>>[1] = r
  BY Single
<1>4. Moved(0, fresh)
  BY <1>0, Pushed, Single DEF AcquireStored, Types
<1>5. Types'
  <2>1. jobs' \in Seq(JobRecord) BY <1>4 DEF Moved
  <2>2. /\ {pending, stored, owner}' \subseteq Objects \cup {None}
        /\ owner' # None /\ attached' = attached \cup {r}
    BY <1>0, NoneApart DEF AcquireStored, Attach, Types
  <2>3. attached' \subseteq {q \in Calls : status'[q] \in {"waiting", "held"}}
    BY <1>0, <1>1, <2>2 DEF Types
  <2> QED BY <1>0, <1>1, <1>2, <2>1, <2>2, <2>3 DEF Types, AcquireStored
<1>6. Placed'
  BY <1>0, <1>1, <1>3, <1>4, QueuedNew DEF QueueInv, AcquireStored
<1>7. /\ \A q \in Calls : status[q] = "waiting" => object'[q] = object[q]
      /\ \A m \in DOMAIN fresh : \A k \in DOMAIN fresh[m].calls :
            object'[fresh[m].calls[k]] = object'[Head(fresh[m].calls)]
  BY <1>1, <1>2, <1>3
<1>8. Together' BY <1>0, <1>4, <1>7, Alike DEF Together, AcquireStored
<1>9. \A i \in DOMAIN jobs' : Kind(i)' # "store"
  BY <1>0, <1>3, <1>4, <1>7, Follow DEF QueueInv, Making, Kind, Same
<1>10. Making' /\ Phases'
  BY <1>0, <1>9 DEF QueueInv, Making, Phases, AcquireStored
<1>11. Bound' BY <1>0, <1>1, <1>2 DEF QueueInv, Bound, Alive, AcquireStored
<1>12. Alive'
  BY <1>0, <1>1, <1>2 DEF QueueInv, Alive, AcquireStored, Attach, Types
<1> QED BY <1>5, <1>6, <1>8, <1>10, <1>11, <1>12 DEF QueueInv
\* Each job is for an object that was made, on behalf of calls that wait.
LEMMA JobCalls ==
    ASSUME QueueInv
    PROVE  \A i \in DOMAIN jobs :
              /\ For(i) \in Objects /\ state[For(i)] # "absent"
              /\ jobs[i].calls \in Seq(Calls) /\ 1 \in DOMAIN jobs[i].calls
              /\ Head(jobs[i].calls) = jobs[i].calls[1]
              /\ \A k \in DOMAIN jobs[i].calls :
                    /\ jobs[i].calls[k] \in Calls /\ status[jobs[i].calls[k]] = "waiting"
                    /\ object[jobs[i].calls[k]] = For(i)
<1> SUFFICES ASSUME NEW i \in DOMAIN jobs
             PROVE  /\ For(i) \in Objects /\ state[For(i)] # "absent"
                    /\ jobs[i].calls \in Seq(Calls) /\ 1 \in DOMAIN jobs[i].calls
                    /\ Head(jobs[i].calls) = jobs[i].calls[1]
                    /\ \A k \in DOMAIN jobs[i].calls :
                          /\ jobs[i].calls[k] \in Calls /\ status[jobs[i].calls[k]] = "waiting"
                          /\ object[jobs[i].calls[k]] = For(i)
  OBVIOUS
<1>1. jobs[i] \in JobRecord /\ i \in Places /\ Queue(i) = jobs[i].calls
  BY LenProperties, ElementOfSeq DEF QueueInv, Types, Places, Queue
<1>2. jobs[i].calls \in Seq(Calls) /\ jobs[i].calls # <<>> BY <1>1 DEF JobRecord
<1>3. 1 \in DOMAIN jobs[i].calls /\ Head(jobs[i].calls) = jobs[i].calls[1]
  BY <1>2, EmptySeq, LenProperties
<1>4. \A k \in DOMAIN jobs[i].calls :
         jobs[i].calls[k] \in Calls /\ status[jobs[i].calls[k]] = "waiting"
  BY <1>1 DEF QueueInv, Placed
<1>5. \A k \in DOMAIN jobs[i].calls : object[jobs[i].calls[k]] = For(i)
  BY DEF QueueInv, Together
<1>6. For(i) \in Objects /\ state[For(i)] # "absent"
  BY <1>3, <1>4 DEF QueueInv, Bound, For
<1> QED BY <1>2, <1>3, <1>4, <1>5, <1>6

\* Where one job joins the queue the others keep their places.
LEMMA Joined ==
    ASSUME QueueInv, NEW e, Moved(0, <<e>>),
           \A r \in Calls : status[r] = "waiting" => object'[r] = object[r]
    PROVE  /\ \A i \in DOMAIN jobs :
                 /\ i \in DOMAIN jobs' /\ jobs'[i] = jobs[i]
                 /\ Kind(i)' = Kind(i) /\ For(i)' = For(i)
           /\ \A i \in DOMAIN jobs' : i \in DOMAIN jobs \/ (i = Len(jobs) + 1 /\ jobs'[i] = e)
<1> DEFINE fresh == <<e>>
<1>1. DOMAIN fresh = {1} /\ fresh[1] = e OBVIOUS
<1>2. Moved(0, fresh) OBVIOUS
<1> HIDE DEF fresh
<1>3. /\ DOMAIN jobs' = 1 .. Len(jobs') /\ DOMAIN jobs = 1 .. Len(jobs) /\ Len(jobs) \in Nat
      /\ \A i \in DOMAIN jobs' :
            \/ i + 0 \in DOMAIN jobs /\ Same(i, i + 0)
            \/ i - (Len(jobs) - 0) \in DOMAIN fresh /\ jobs'[i] = fresh[i - (Len(jobs) - 0)]
      /\ \A j \in DOMAIN jobs : j > 0 => j - 0 \in DOMAIN jobs' /\ Same(j - 0, j)
  BY <1>2, Follow
<1>4. ASSUME NEW i \in DOMAIN jobs PROVE i \in DOMAIN jobs' /\ Same(i, i)
  <2>1. i > 0 /\ i - 0 = i BY <1>3
  <2> QED BY <1>3, <2>1
<1>5. ASSUME NEW i \in DOMAIN jobs'
      PROVE  i \in DOMAIN jobs \/ (i = Len(jobs) + 1 /\ jobs'[i] = e)
  <2>1. i + 0 = i /\ i - (Len(jobs) - 0) = i - Len(jobs) BY <1>3
  <2>2. CASE i + 0 \in DOMAIN jobs BY <2>1, <2>2
  <2>3. CASE i - (Len(jobs) - 0) \in DOMAIN fresh /\ jobs'[i] = fresh[i - (Len(jobs) - 0)]
    BY <1>1, <1>3, <2>1, <2>3
  <2> QED BY <1>3, <2>2, <2>3
<1> QED BY <1>4, <1>5 DEF Same, Kind

\* Where the first job is taken off the others move up.
LEMMA Advanced ==
    ASSUME QueueInv, NEW fresh, Moved(1, fresh),
           \A r \in Calls : status[r] = "waiting" => object'[r] = object[r]
    PROVE  /\ Len(jobs) \in Nat \ {0} /\ DOMAIN jobs = 1 .. Len(jobs)
           /\ Len(jobs') \in Nat /\ DOMAIN jobs' = 1 .. Len(jobs')
           /\ \A i \in DOMAIN jobs : i # 1 =>
                 /\ i - 1 \in DOMAIN jobs' /\ jobs'[i - 1] = jobs[i]
                 /\ Kind(i - 1)' = Kind(i) /\ For(i - 1)' = For(i)
           /\ \A i \in DOMAIN jobs' :
                 \/ /\ i + 1 \in DOMAIN jobs /\ jobs'[i] = jobs[i + 1]
                    /\ Kind(i)' = Kind(i + 1) /\ For(i)' = For(i + 1)
                 \/ /\ i >= Len(jobs)
                    /\ \E m \in DOMAIN fresh : i = m + (Len(jobs) - 1) /\ jobs'[i] = fresh[m]
           /\ \A m \in DOMAIN fresh : /\ m + (Len(jobs) - 1) \in DOMAIN jobs'
                                      /\ jobs'[m + (Len(jobs) - 1)] = fresh[m]
<1>1. /\ DOMAIN jobs' = 1 .. Len(jobs') /\ DOMAIN jobs = 1 .. Len(jobs)
      /\ DOMAIN fresh = 1 .. Len(fresh)
      /\ Len(jobs) \in Nat /\ Len(jobs') \in Nat /\ Len(fresh) \in Nat /\ 1 <= Len(jobs)
      /\ \A i \in DOMAIN jobs' :
            \/ i + 1 \in DOMAIN jobs /\ Same(i, i + 1)
            \/ i > Len(jobs) - 1 /\ i - (Len(jobs) - 1) \in DOMAIN fresh
               /\ jobs'[i] = fresh[i - (Len(jobs) - 1)]
      /\ \A j \in DOMAIN jobs : j > 1 => j - 1 \in DOMAIN jobs' /\ Same(j - 1, j)
      /\ \A m \in DOMAIN fresh : /\ m + (Len(jobs) - 1) \in DOMAIN jobs'
                                 /\ jobs'[m + (Len(jobs) - 1)] = fresh[m]
  BY Follow
<1>2. ASSUME NEW i \in DOMAIN jobs, i # 1
      PROVE  /\ i - 1 \in DOMAIN jobs' /\ jobs'[i - 1] = jobs[i]
             /\ Kind(i - 1)' = Kind(i) /\ For(i - 1)' = For(i)
  <2>1. i > 1 BY <1>1, <1>2
  <2>2. PICK j \in DOMAIN jobs' : j = i - 1 /\ Same(j, i) BY <1>1, <2>1
  <2> QED BY <2>2 DEF Same, Kind
<1>3. ASSUME NEW i \in DOMAIN jobs'
      PROVE  \/ /\ i + 1 \in DOMAIN jobs /\ jobs'[i] = jobs[i + 1]
                /\ Kind(i)' = Kind(i + 1) /\ For(i)' = For(i + 1)
             \/ /\ i >= Len(jobs)
                /\ \E m \in DOMAIN fresh : i = m + (Len(jobs) - 1) /\ jobs'[i] = fresh[m]
  <2>1. CASE i + 1 \in DOMAIN jobs /\ Same(i, i + 1) BY <2>1 DEF Same, Kind
  <2>2. CASE i > Len(jobs) - 1 /\ i - (Len(jobs) - 1) \in DOMAIN fresh
             /\ jobs'[i] = fresh[i - (Len(jobs) - 1)]
    <3>1. PICK m \in DOMAIN fresh : m = i - (Len(jobs) - 1) BY <2>2
    <3>2. i = m + (Len(jobs) - 1) /\ i >= Len(jobs) BY <1>1, <2>2, <3>1
    <3> QED BY <2>2, <3>1, <3>2
  <2> QED BY <1>1, <2>1, <2>2
<1> QED BY <1>1, <1>2, <1>3

LEMMA AcquirePendingQueue ==
    ASSUME QueueInv, NEW r \in Calls, AcquirePending(r)
    PROVE  QueueInv'
<1> DEFINE fresh == <<Job("join", <<r>>)>>
<1>0. Types /\ pending \in Objects
  BY DEF QueueInv, Types, AcquirePending
<1>1. /\ status[r] = "free" /\ status'[r] = "waiting" /\ r \notin attached
      /\ \A q \in Calls : q # r => status'[q] = status[q]
      /\ status' \in [Calls -> {"free", "waiting", "held", "released", "refused"}]
  BY <1>0, Called DEF AcquirePending
<1>2. /\ object' \in [Calls -> Objects \cup {None}] /\ object'[r] = pending
      /\ \A q \in Calls : q # r => object'[q] = object[q]
  BY <1>0, Rebound DEF AcquirePending
<1>3. /\ fresh \in Seq(JobRecord) /\ DOMAIN fresh = {1} /\ fresh[1].kind = "join"
      /\ fresh[1].calls = <<r>> /\ DOMAIN <<r>> = {1} /\ Head(<<r>>) = r /\ <<r>>[1] = r
  BY Single
<1>4. Moved(0, fresh)
  BY <1>0, Pushed, Single DEF AcquirePending, Types
<1>5. Types'
  <2>1. jobs' \in Seq(JobRecord) BY <1>4 DEF Moved
  <2>2. attached' \subseteq {q \in Calls : status'[q] \in {"waiting", "held"}}
    BY <1>0, <1>1 DEF Types, AcquirePending, collection
  <2> QED BY <1>0, <1>1, <1>2, <2>1, <2>2 DEF Types, AcquirePending, collection
<1>6. Placed'
  BY <1>0, <1>1, <1>3, <1>4, QueuedNew DEF QueueInv, AcquirePending
<1>7. /\ \A q \in Calls : status[q] = "waiting" => object'[q] = object[q]
      /\ \A m \in DOMAIN fresh : \A k \in DOMAIN fresh[m].calls :
            object'[fresh[m].calls[k]] = object'[Head(fresh[m].calls)]
  BY <1>1, <1>2, <1>3
<1>8. Together'
  <2>1. \A k \in DOMAIN waiters : waiters[k] \in Calls /\ status[waiters[k]] = "waiting"
    BY LenProperties DEF QueueInv, Types, Placed, Places, Queue
  <2>2. \A k \in DOMAIN waiters : object'[waiters[k]] = pending
    BY <2>1, <1>7 DEF QueueInv, Together
  <2> QED BY <1>0, <1>4, <1>7, <2>2, Alike DEF Together, AcquirePending, collection
<1>9. \A i \in DOMAIN jobs' :
         \/ i \in DOMAIN jobs /\ Kind(i)' = Kind(i) /\ For(i)' = For(i)
         \/ Kind(i)' = "join"
  BY <1>4, <1>7, Joined DEF Kind, Job
<1>10. \A i \in DOMAIN jobs : i \in DOMAIN jobs' /\ Kind(i)' = Kind(i)
  BY <1>4, <1>7, Joined
<1>11. Making' BY <1>9 DEF QueueInv, Making, AcquirePending, collection
<1>12. Phases' BY <1>9, <1>10 DEF QueueInv, Phases, AcquirePending, collection
<1>13. Bound'
  <2>1. state[pending] # "absent" BY <1>0, NoneApart DEF Types
  <2> QED BY <1>0, <1>1, <1>2, <2>1 DEF QueueInv, Bound, AcquirePending
<1>14. Alive'
  BY <1>0, <1>1, <1>2 DEF QueueInv, Alive, AcquirePending, collection, Types
<1> QED BY <1>5, <1>6, <1>8, <1>11, <1>12, <1>13, <1>14 DEF QueueInv

LEMMA AcquireNewQueue ==
    ASSUME QueueInv, NEW r \in Calls, AcquireNew(r)
    PROVE  QueueInv'
<1>0. Types /\ waiters = <<>> /\ pending = None
  BY DEF QueueInv, AcquireNew, Making
<1>1. /\ status[r] = "free" /\ status'[r] = "waiting" /\ r \notin attached
      /\ \A q \in Calls : q # r => status'[q] = status[q]
      /\ status' \in [Calls -> {"free", "waiting", "held", "released", "refused"}]
  BY <1>0, Called DEF AcquireNew
<1>2. PICK p \in Objects : /\ state[p] = "absent"
                           /\ state' = [state EXCEPT ![p] = "loading"]
                           /\ pending' = p
                           /\ object' = [object EXCEPT ![r] = p]
  BY DEF AcquireNew
<1>3. /\ object' \in [Calls -> Objects \cup {None}] /\ object'[r] = p
      /\ \A q \in Calls : q # r => object'[q] = object[q]
  BY <1>0, <1>2, Rebound
<1>4. /\ state'[p] = "loading" /\ \A o \in Objects : o # p => state'[o] = state[o]
      /\ state' \in [Objects -> {"absent", "loading", "loaded", "failed", "live", "disposed"}]
  BY <1>0, <1>2 DEF Types
<1>5. /\ waiters' = <<r>> /\ waiters' \in Seq(Calls) /\ DOMAIN waiters' = {1}
      /\ waiters'[1] = r /\ waiters' # <<>>
  BY DEF AcquireNew
<1>6. Types'
  <2>1. attached' \subseteq {q \in Calls : status'[q] \in {"waiting", "held"}}
    BY <1>0, <1>1 DEF Types, AcquireNew
  <2> QED BY <1>0, <1>1, <1>2, <1>3, <1>4, <1>5, <2>1, NoneApart DEF Types, AcquireNew
<1>7. Moved(0, <<>>) BY <1>0, Kept DEF Types, AcquireNew
<1>8. \A q \in Calls : status[q] = "waiting" => object'[q] = object[q] BY <1>1, <1>3
<1>9. jobs' = jobs /\ Len(jobs) \in Nat /\ DOMAIN jobs = 1 .. Len(jobs)
  BY <1>0, LenProperties DEF Types, AcquireNew
<1>10. Placed'
  <2>1. /\ Queue(0)' = <<r>> /\ Places' = Places /\ 0 \in Places /\ DOMAIN Queue(0) = {}
        /\ \A i \in Places : i # 0 => Queue(i)' = Queue(i)
    BY <1>0, <1>5, <1>9 DEF Queue, Places
  <2>2. ASSUME NEW q \in Calls, status'[q] = "waiting"
        PROVE  \E i \in Places : \E k \in DOMAIN Queue(i)' : Queue(i)'[k] = q
    <3>1. CASE q = r BY <1>5, <2>1, <3>1
    <3>2. CASE q # r
      <4>1. PICK i \in Places : \E k \in DOMAIN Queue(i) : Queue(i)[k] = q
        BY <1>1, <2>2, <3>2, Zenon DEF QueueInv, Placed
      <4> QED BY <2>1, <4>1
    <3> QED BY <3>1, <3>2
  <2>3. ASSUME NEW i \in Places, NEW k \in DOMAIN Queue(i)'
        PROVE  /\ Queue(i)'[k] \in Calls /\ status'[Queue(i)'[k]] = "waiting"
               /\ i # 0 => Queue(i)'[k] # r
    <3>1. CASE i = 0 BY <1>1, <1>5, <2>1, <3>1
    <3>2. CASE i # 0
      <4>1. Queue(i)[k] \in Calls /\ status[Queue(i)[k]] = "waiting"
        BY <2>1, <3>2, <2>3 DEF QueueInv, Placed
      <4> QED BY <1>1, <2>1, <3>2, <4>1
    <3> QED BY <3>1, <3>2
  <2>4. ASSUME NEW i \in Places, NEW j \in Places,
               NEW k \in DOMAIN Queue(i)', NEW l \in DOMAIN Queue(j)',
               Queue(i)'[k] = Queue(j)'[l]
        PROVE  i = j /\ k = l
    <3>1. CASE i = 0 /\ j = 0 BY <1>5, <2>1, <3>1
    <3>2. CASE i # 0 /\ j # 0 BY <2>1, <2>4, <3>2 DEF QueueInv, Placed
    <3>3. i = 0 <=> j = 0
      <4>1. \A m \in DOMAIN Queue(0)' : Queue(0)'[m] = r BY <1>5, <2>1
      <4> QED BY <2>3, <2>4, <4>1
    <3> QED BY <3>1, <3>2, <3>3
  <2> QED BY <2>1, <2>2, <2>3, <2>4, Zenon DEF Placed
<1>11. \A i \in DOMAIN jobs' :
          /\ i \in DOMAIN jobs /\ Kind(i)' = Kind(i) /\ For(i)' = For(i)
          /\ For(i)' # p /\ Kind(i)' # "store"
  <2>1. \A i \in DOMAIN jobs : For(i) # p /\ Kind(i) # "store"
    BY <1>0, <1>2, JobCalls DEF QueueInv, Making
  <2>2. \A i \in DOMAIN jobs : For(i)' = For(i) BY <1>8, <1>9, JobCalls DEF For
  <2> QED BY <1>9, <2>1, <2>2 DEF Kind
<1>12. Together'
  <2>1. \A i \in DOMAIN jobs' : \A k \in DOMAIN jobs'[i].calls :
              object'[jobs'[i].calls[k]] = For(i)'
    BY <1>7, <1>8, Alike
  <2> QED BY <1>2, <1>3, <1>5, <2>1 DEF Together
<1>13. Making' BY <1>0, <1>2, <1>4, <1>5, <1>11, NoneApart DEF QueueInv, Making
<1>14. Phases' BY <1>2, <1>4, <1>11 DEF Phases
<1>15. Bound' BY <1>1, <1>2, <1>3, <1>4 DEF QueueInv, Bound
<1>16. Alive'
  BY <1>0, <1>1, <1>2, <1>3, <1>4 DEF QueueInv, Alive, AcquireNew, Types
<1> QED BY <1>6, <1>10, <1>12, <1>13, <1>14, <1>15, <1>16 DEF QueueInv
\* A job for calls that are given.
LEMMA Several ==
    ASSUME NEW kind \in {"join", "adopt", "store", "got", "deliver"},
           NEW rs \in Seq(Calls), rs # <<>>
    PROVE  /\ Job(kind, rs) \in JobRecord
           /\ Job(kind, rs).kind = kind /\ Job(kind, rs).calls = rs
           /\ DOMAIN rs = 1 .. Len(rs) /\ 1 \in DOMAIN rs /\ Head(rs) = rs[1]
BY EmptySeq, LenProperties DEF Job, JobRecord

LEMMA FactoryReturnsQueue ==
    ASSUME QueueInv, NEW outcome \in {"loaded", "failed"}, FactoryReturns(outcome)
    PROVE  QueueInv'
<1> DEFINE e == Job("store", waiters)
<1>0. /\ Types /\ pending \in Objects /\ state[pending] = "loading"
      /\ waiters # <<>> /\ waiters \in Seq(Calls)
      /\ UNCHANGED <<pending, stored, owner, attached, status, object, gap>>
  BY DEF QueueInv, Types, Making, FactoryReturns, collection
<1>1. /\ e \in JobRecord /\ e.kind = "store" /\ e.calls = waiters
      /\ DOMAIN waiters = 1 .. Len(waiters) /\ 1 \in DOMAIN waiters
      /\ Head(waiters) = waiters[1]
  BY <1>0, Several
<1>2. Moved(0, <<e>>) BY <1>0, <1>1, Pushed DEF Types, FactoryReturns
<1> HIDE DEF e
<1>3. /\ \A i \in DOMAIN jobs :
            /\ i \in DOMAIN jobs' /\ jobs'[i] = jobs[i]
            /\ Kind(i)' = Kind(i) /\ For(i)' = For(i)
      /\ \A i \in DOMAIN jobs' : i \in DOMAIN jobs \/ (i = Len(jobs) + 1 /\ jobs'[i] = e)
  BY <1>0, <1>2, Joined
<1>4. /\ Len(jobs) \in Nat /\ DOMAIN jobs = 1 .. Len(jobs) /\ Len(jobs') = Len(jobs) + 1
      /\ DOMAIN jobs' = 1 .. Len(jobs') /\ jobs'[Len(jobs) + 1] = e
  <2>1. Len(<<e>>) = 1 /\ <<e>>[1] = e OBVIOUS
  <2>2. Len(jobs) \in Nat /\ DOMAIN jobs = 1 .. Len(jobs) BY <1>0, LenProperties DEF Types
  <2>3. jobs' \in Seq(JobRecord) /\ Len(jobs') = Len(jobs) + 1 /\ jobs'[Len(jobs) + 1] = e
    BY <1>2, <2>1, <2>2 DEF Moved
  <2> QED BY <2>2, <2>3, LenProperties
<1>5. /\ state'[pending] = outcome /\ \A p \in Objects : p # pending => state'[p] = state[p]
      /\ state' \in [Objects -> {"absent", "loading", "loaded", "failed", "live", "disposed"}]
  BY <1>0 DEF Types, FactoryReturns
<1>6. Types'
  <2>1. jobs' \in Seq(JobRecord) /\ waiters' \in Seq(Calls) BY <1>2 DEF Moved, FactoryReturns
  <2> QED BY <1>0, <1>5, <2>1 DEF Types
<1>7. Placed'
  <2> DEFINE Was(i) == IF i = Len(jobs) + 1 THEN 0 ELSE i
  <2>1. ASSUME NEW i \in Places', i # 0
        PROVE  Was(i) \in Places /\ Queue(i)' = Queue(Was(i))
    <3>1. CASE i = Len(jobs) + 1 BY <1>1, <1>4, <3>1 DEF Places, Queue
    <3>2. CASE i # Len(jobs) + 1
      <4>1. i \in DOMAIN jobs /\ Was(i) = i BY <1>4, <2>1, <3>2 DEF Places
      <4> QED BY <1>3, <1>4, <2>1, <4>1 DEF Places, Queue
    <3> QED BY <3>1, <3>2
  <2>2. DOMAIN Queue(0)' = {} BY DEF Queue, FactoryReturns
  <2>3. ASSUME NEW q \in Calls, status'[q] = "waiting"
        PROVE  \E i \in Places' : \E k \in DOMAIN Queue(i)' : Queue(i)'[k] = q
    <3>1. PICK j \in Places : \E k \in DOMAIN Queue(j) : Queue(j)[k] = q
      BY <1>0, <2>3, Zenon DEF QueueInv, Placed
    <3>2. PICK i \in Places' : i # 0 /\ Was(i) = j
      <4>1. CASE j = 0 BY <1>4, <4>1 DEF Places
      <4>2. CASE j # 0 BY <1>4, <4>2 DEF Places
      <4> QED BY <4>1, <4>2
    <3> QED BY <2>1, <3>1, <3>2
  <2>4. \A i \in Places' : \A k \in DOMAIN Queue(i)' :
           Queue(i)'[k] \in Calls /\ status'[Queue(i)'[k]] = "waiting"
    BY <1>0, <2>1, <2>2 DEF QueueInv, Placed
  <2>5. ASSUME NEW i \in Places', NEW j \in Places',
               NEW k \in DOMAIN Queue(i)', NEW l \in DOMAIN Queue(j)',
               Queue(i)'[k] = Queue(j)'[l]
        PROVE  i = j /\ k = l
    <3>1. /\ i # 0 /\ j # 0 /\ Was(i) \in Places /\ Was(j) \in Places
          /\ Queue(i)' = Queue(Was(i)) /\ Queue(j)' = Queue(Was(j))
      BY <2>1, <2>2, <2>5
    <3>2. Was(i) = Was(j) /\ k = l BY <2>5, <3>1 DEF QueueInv, Placed
    <3> QED BY <3>1, <3>2
  <2> QED BY <2>3, <2>4, <2>5, Zenon DEF Placed
<1>s. PICK s \in DOMAIN jobs' : s = Len(jobs) + 1 BY <1>4
<1>8. For(s)' = pending /\ Kind(s)' = "store"
  BY <1>0, <1>1, <1>4, <1>s DEF QueueInv, Together, For, Kind
<1>9. Together'
  <2>1. ASSUME NEW i \in DOMAIN jobs', NEW k \in DOMAIN jobs'[i].calls
        PROVE  object'[jobs'[i].calls[k]] = For(i)'
    <3>1. CASE i \in DOMAIN jobs BY <1>0, <1>3, <3>1 DEF QueueInv, Together
    <3>2. CASE i = Len(jobs) + 1 /\ jobs'[i] = e
      BY <1>0, <1>1, <1>8, <1>s, <3>2 DEF QueueInv, Together
    <3> QED BY <1>3, <3>1, <3>2
  <2>2. DOMAIN waiters' = {} BY DEF FactoryReturns
  <2> QED BY <2>1, <2>2 DEF Together
<1>10. \A i \in DOMAIN jobs : Kind(i) # "store" /\ (For(i) = pending => Kind(i) = "join")
  BY <1>0, NoneApart DEF QueueInv, Making, Phases
<1>11. Making'
  BY <1>0, <1>3, <1>5, <1>8, <1>10, <1>s, NoneApart DEF QueueInv, Making, FactoryReturns
<1>12. Phases'
  <2>1. \A i \in DOMAIN jobs' :
           i = s \/ (i \in DOMAIN jobs /\ Kind(i)' = Kind(i) /\ For(i)' = For(i))
    BY <1>3, <1>s
  <2> QED BY <1>0, <1>5, <1>8, <1>10, <2>1 DEF Phases
<1>13. Bound' BY <1>0, <1>5 DEF QueueInv, Bound
<1>14. Alive'
  <2>1. \A q \in attached : object[q] \in Objects
    BY <1>0 DEF QueueInv, Bound, Types
  <2> QED BY <1>0, <1>5, <2>1 DEF QueueInv, Alive, Types
<1> QED BY <1>6, <1>7, <1>9, <1>11, <1>12, <1>13, <1>14 DEF QueueInv
\* The first job and what runs with it.
LEMMA Running ==
    ASSUME QueueInv, NEW kind, NEW rs, Runs(kind, rs)
    PROVE  /\ Types /\ jobs \in Seq(JobRecord) /\ jobs # <<>>
           /\ 1 \in DOMAIN jobs /\ 1 \in Places /\ Queue(1) = rs /\ jobs[1].calls = rs
           /\ Kind(1) = kind /\ Awaited = For(1) /\ For(1) \in Objects /\ state[For(1)] # "absent"
           /\ rs \in Seq(Calls) /\ rs # <<>> /\ DOMAIN rs = 1 .. Len(rs) /\ Len(rs) \in Nat \ {0}
           /\ 1 \in DOMAIN rs /\ Head(rs) = rs[1]
           /\ \A k \in DOMAIN rs :
                 rs[k] \in Calls /\ status[rs[k]] = "waiting" /\ object[rs[k]] = For(1)
<1>1. Types BY DEF QueueInv
<1>2. /\ 1 \in DOMAIN jobs /\ jobs # <<>> /\ Kind(1) = kind /\ jobs[1].calls = rs
      /\ Queue(1) = rs /\ 1 \in Places /\ rs \in Seq(Calls) \ {<<>>} /\ Len(rs) \in Nat \ {0}
      /\ DOMAIN rs = 1 .. Len(rs) /\ 1 \in DOMAIN rs /\ Head(rs) = rs[1] /\ Awaited = For(1)
  BY <1>1, FirstJob
<1>3. /\ For(1) \in Objects /\ state[For(1)] # "absent"
      /\ \A k \in DOMAIN rs :
            rs[k] \in Calls /\ status[rs[k]] = "waiting" /\ object[rs[k]] = For(1)
  BY <1>2, JobCalls
<1> QED BY <1>1, <1>2, <1>3 DEF Types

\* The first job is replaced, for calls whose object is not being made.
LEMMA PassedOn ==
    ASSUME QueueInv, NEW e \in JobRecord, Moved(1, <<e>>), 1 \in DOMAIN jobs,
           e.calls = jobs[1].calls, Kind(1) # "store", e.kind \in {"adopt", "got"},
           UNCHANGED <<state, collection, status, object, waiters, gap>>,
           pending # None /\ For(1) = pending => e.kind = "adopt" /\ state[pending] # "loading"
    PROVE  QueueInv'
<1> USE DEF collection
<1>1. Types' BY DEF QueueInv, Types, Moved
<1>2. Placed' BY QueuedAgain DEF QueueInv
<1>3. /\ \A k \in DOMAIN e.calls : object'[e.calls[k]] = object'[Head(e.calls)]
      /\ object'[Head(e.calls)] = For(1)
  BY JobCalls DEF For
<1> DEFINE fresh == <<e>>
<1>4. DOMAIN fresh = {1} /\ fresh[1] = e /\ Moved(1, fresh) OBVIOUS
<1> HIDE DEF fresh
<1>5. Together'
  <2>1. \A i \in DOMAIN jobs' : \A k \in DOMAIN jobs'[i].calls :
              object'[jobs'[i].calls[k]] = For(i)'
    BY <1>3, <1>4, Alike
  <2> QED BY <2>1 DEF QueueInv, Together
<1>6. /\ Len(jobs) \in Nat \ {0} /\ DOMAIN jobs = 1 .. Len(jobs) /\ DOMAIN jobs' = 1 .. Len(jobs')
      /\ \A i \in DOMAIN jobs : i # 1 =>
            /\ i - 1 \in DOMAIN jobs' /\ Kind(i - 1)' = Kind(i) /\ For(i - 1)' = For(i)
      /\ \A i \in DOMAIN jobs' :
            \/ i + 1 \in DOMAIN jobs /\ Kind(i)' = Kind(i + 1) /\ For(i)' = For(i + 1)
            \/ i >= Len(jobs) /\ \E m \in DOMAIN fresh : i = m + (Len(jobs) - 1) /\ jobs'[i] = fresh[m]
  BY <1>4, Advanced
<1>7. \A i \in DOMAIN jobs' :
            \/ i + 1 \in DOMAIN jobs /\ Kind(i)' = Kind(i + 1) /\ For(i)' = For(i + 1)
            \/ i >= Len(jobs) /\ Kind(i)' = e.kind /\ For(i)' = For(1)
  BY <1>3, <1>4, <1>6 DEF Kind, For
<1>8. Making' BY <1>7 DEF QueueInv, Making
<1>9. Phases'
  <2>1. CASE pending # None /\ state[pending] = "loading"
    BY <1>7, <2>1 DEF QueueInv, Phases
  <2>2. CASE pending # None /\ state[pending] # "loading"
    <3>1. PICK s \in DOMAIN jobs :
             /\ Kind(s) = "store"
             /\ \A i \in DOMAIN jobs : Kind(i) = "store" => i = s
             /\ \A i \in DOMAIN jobs : For(i) = pending =>
                   Kind(i) \in {"join", "adopt", "store"} /\ (Kind(i) = "adopt" => i > s)
      BY <2>2 DEF QueueInv, Phases
    <3>2. s # 1 BY <3>1
    <3>3. PICK t \in DOMAIN jobs' : t = s - 1 /\ Kind(t)' = "store"
      BY <1>6, <3>1, <3>2
    <3>4. ASSUME NEW i \in DOMAIN jobs', Kind(i)' = "store" PROVE i = t
      BY <1>6, <1>7, <3>1, <3>3, <3>4
    <3>5. ASSUME NEW i \in DOMAIN jobs', For(i)' = pending
          PROVE  Kind(i)' \in {"join", "adopt", "store"} /\ (Kind(i)' = "adopt" => i > t)
      <4>1. CASE i + 1 \in DOMAIN jobs /\ Kind(i)' = Kind(i + 1) /\ For(i)' = For(i + 1)
        <5>1. Kind(i + 1) \in {"join", "adopt", "store"} /\ (Kind(i + 1) = "adopt" => i + 1 > s)
          BY <3>1, <3>5, <4>1
        <5> QED BY <1>6, <3>3, <4>1, <5>1
      <4>2. CASE i >= Len(jobs) /\ Kind(i)' = e.kind /\ For(i)' = For(1)
        BY <1>6, <2>2, <3>1, <3>3, <3>5, <4>2
      <4> QED BY <1>7, <4>1, <4>2
    <3> QED BY <2>2, <3>3, <3>4, <3>5 DEF Phases
  <2> QED BY <2>1, <2>2 DEF Phases
<1>10. Bound' /\ Alive' BY DEF QueueInv, Bound, Alive
<1> QED BY <1>1, <1>2, <1>5, <1>8, <1>9, <1>10 DEF QueueInv

LEMMA AdoptQueue ==
    ASSUME QueueInv, NEW r, Adopt(r)
    PROVE  QueueInv'
<1>1. /\ jobs \in Seq(JobRecord) /\ jobs # <<>> /\ 1 \in DOMAIN jobs /\ jobs[1].calls = <<r>>
      /\ Kind(1) = "adopt" /\ <<r>> \in Seq(Calls) /\ <<r>> # <<>>
  BY Running DEF Adopt
<1>2. Job("got", <<r>>) \in JobRecord /\ Job("got", <<r>>).kind = "got"
      /\ Job("got", <<r>>).calls = <<r>>
  BY <1>1, Several
<1>3. Moved(1, <<Job("got", <<r>>)>>) BY <1>1, <1>2, Replaced DEF Adopt
<1>4. pending # None => For(1) # pending
  <2>1. DOMAIN jobs = 1 .. Len(jobs) /\ Len(jobs) \in Nat BY <1>1, LenProperties
  <2> QED BY <1>1, <2>1 DEF QueueInv, Phases
<1> QED BY <1>1, <1>2, <1>3, <1>4, PassedOn DEF Adopt

LEMMA JoinQueue ==
    ASSUME QueueInv, NEW r, Join(r)
    PROVE  QueueInv'
<1>1. /\ jobs \in Seq(JobRecord) /\ jobs # <<>> /\ 1 \in DOMAIN jobs /\ jobs[1].calls = <<r>>
      /\ Kind(1) = "join" /\ <<r>> \in Seq(Calls) /\ <<r>> # <<>> /\ Awaited = For(1)
      /\ r \in Calls /\ status[r] = "waiting" /\ object[r] = For(1) /\ For(1) \in Objects
      /\ Types /\ 1 \in Places /\ Queue(1) = <<r>>
      /\ UNCHANGED <<state, collection, status, object, gap>>
  BY Running DEF Join
<1>2. CASE state[Awaited] # "loading"
  <2>1. Job("adopt", <<r>>) \in JobRecord /\ Job("adopt", <<r>>).kind = "adopt"
        /\ Job("adopt", <<r>>).calls = <<r>>
    BY <1>1, Several
  <2>2. Moved(1, <<Job("adopt", <<r>>)>>) BY <1>1, <1>2, <2>1, Replaced DEF Join
  <2>3. UNCHANGED waiters BY <1>1, <1>2 DEF Join
  <2> QED BY <1>1, <1>2, <2>1, <2>2, <2>3, PassedOn
<1>3. CASE state[Awaited] = "loading"
  <2>1. /\ For(1) = pending /\ pending # None /\ state[pending] = "loading"
        /\ waiters' = Append(waiters, r) /\ jobs' = Tail(jobs)
    BY <1>1, <1>3, NoneApart DEF QueueInv, Making, Join
  <2>2. Moved(1, <<>>) BY <1>1, <2>1, Dropped
  <2>3. /\ waiters \in Seq(Calls) /\ Len(waiters) \in Nat /\ DOMAIN waiters = 1 .. Len(waiters)
        /\ waiters' \in Seq(Calls) /\ DOMAIN waiters' = 1 .. Len(waiters) + 1
        /\ \A k \in DOMAIN waiters : waiters'[k] = waiters[k]
        /\ waiters'[Len(waiters) + 1] = r /\ waiters' # <<>>
    BY <1>1, <2>1, AppendProperties, LenProperties, EmptySeq DEF Types
  <2>4. Types' BY <1>1, <2>2, <2>3 DEF Types, Moved, collection
  <2>5. /\ Len(jobs) \in Nat \ {0} /\ DOMAIN jobs = 1 .. Len(jobs)
        /\ Len(jobs') \in Nat /\ DOMAIN jobs' = 1 .. Len(jobs')
        /\ \A i \in DOMAIN jobs : i # 1 => i - 1 \in DOMAIN jobs' /\ jobs'[i - 1] = jobs[i]
        /\ \A i \in DOMAIN jobs' : /\ i + 1 \in DOMAIN jobs /\ jobs'[i] = jobs[i + 1]
                                   /\ Kind(i)' = Kind(i + 1) /\ For(i)' = For(i + 1)
    BY <1>1, <2>2, Advanced
  <2>6. Placed'
    <3>1. ASSUME NEW i \in Places', i # 0
          PROVE  i + 1 \in Places /\ Queue(i)' = Queue(i + 1)
      BY <2>5, <3>1 DEF Places, Queue
    <3>2. /\ 0 \in Places' /\ 0 \in Places /\ Queue(0)' = waiters' /\ Queue(0) = waiters
      BY <2>5 DEF Places, Queue
    <3>3. ASSUME NEW q \in Calls, status'[q] = "waiting"
          PROVE  \E i \in Places' : \E k \in DOMAIN Queue(i)' : Queue(i)'[k] = q
      <4>1. CASE q = r BY <2>3, <3>2, <4>1
      <4>2. CASE q # r
        <5>1. PICK j \in Places : \E k \in DOMAIN Queue(j) : Queue(j)[k] = q
          BY <1>1, <3>3, Zenon DEF QueueInv, Placed
        <5>2. CASE j = 0 BY <2>3, <3>2, <5>1, <5>2
        <5>3. CASE j # 0
          <6>1. j # 1 BY <1>1, <4>2, <5>1
          <6>2. PICK i \in Places' : i # 0 /\ i + 1 = j BY <2>5, <5>3, <6>1 DEF Places
          <6> QED BY <3>1, <5>1, <6>2
        <5> QED BY <5>2, <5>3
      <4> QED BY <4>1, <4>2
    <3>4. ASSUME NEW i \in Places', NEW k \in DOMAIN Queue(i)'
          PROVE  Queue(i)'[k] \in Calls /\ status'[Queue(i)'[k]] = "waiting"
      <4>1. CASE i # 0 BY <1>1, <3>1, <4>1 DEF QueueInv, Placed
      <4>2. CASE i = 0 /\ k \in DOMAIN waiters
        BY <1>1, <2>3, <3>2, <4>2 DEF QueueInv, Placed
      <4>3. CASE i = 0 /\ k \notin DOMAIN waiters BY <1>1, <2>3, <3>2, <4>3
      <4> QED BY <4>1, <4>2, <4>3
    <3>5. \A j \in Places : \A k \in DOMAIN Queue(j) : Queue(j)[k] = r => j = 1
      BY <1>1 DEF QueueInv, Placed
    <3>6. ASSUME NEW i \in Places', NEW j \in Places',
                 NEW k \in DOMAIN Queue(i)', NEW l \in DOMAIN Queue(j)',
                 Queue(i)'[k] = Queue(j)'[l]
          PROVE  i = j /\ k = l
      <4>1. CASE i # 0 /\ j # 0
        <5>1. i + 1 = j + 1 /\ k = l BY <3>1, <3>6, <4>1 DEF QueueInv, Placed
        <5> QED BY <2>5, <5>1 DEF Places
      <4>2. CASE i = 0 /\ j = 0
        <5>1. ASSUME NEW u \in DOMAIN waiters PROVE waiters[u] # r
          BY <3>2, <3>5
        <5>2. CASE k \in DOMAIN waiters /\ l \in DOMAIN waiters
          BY <2>3, <3>2, <3>6, <4>2, <5>2 DEF QueueInv, Placed
        <5> QED BY <2>3, <3>2, <3>6, <4>2, <5>1, <5>2
      <4>3. ASSUME NEW a \in Places', NEW u \in DOMAIN Queue(0)', NEW v \in DOMAIN Queue(a)', a # 0
            PROVE  Queue(0)'[u] # Queue(a)'[v]
        <5>1. a + 1 \in Places /\ Queue(a)' = Queue(a + 1) /\ a + 1 # 1 /\ a + 1 # 0
          BY <2>5, <3>1, <4>3 DEF Places
        <5>2. CASE u \in DOMAIN waiters
          BY <2>3, <3>2, <4>3, <5>1, <5>2 DEF QueueInv, Placed
        <5>3. CASE u \notin DOMAIN waiters
          BY <2>3, <3>2, <3>5, <4>3, <5>1, <5>3
        <5> QED BY <5>2, <5>3
      <4> QED BY <3>6, <4>1, <4>2, <4>3
    <3> QED BY <3>3, <3>4, <3>6, Zenon DEF Placed
  <2>7. Together'
    <3>1. \A i \in DOMAIN jobs' : \A k \in DOMAIN jobs'[i].calls :
              object'[jobs'[i].calls[k]] = For(i)'
      BY <1>1, <2>2, Alike
    <3>2. \A k \in DOMAIN waiters' : object[waiters'[k]] = pending
      BY <1>1, <2>1, <2>3 DEF QueueInv, Together
    <3> QED BY <1>1, <3>1, <3>2 DEF Together, collection
  <2>8. Making' BY <1>1, <2>1, <2>3, <2>5 DEF QueueInv, Making, collection
  <2>9. Phases' BY <1>1, <2>1, <2>5 DEF QueueInv, Phases, collection
  <2>10. Bound' /\ Alive' BY <1>1 DEF QueueInv, Bound, Alive, collection
  <2> QED BY <2>4, <2>6, <2>7, <2>8, <2>9, <2>10 DEF QueueInv
<1> QED BY <1>2, <1>3
\* When the creator of an object hears of it, that object is the pending one,
\* and it is the only one to be stored.
LEMMA StoreStart ==
    ASSUME QueueInv, NEW rs, NEW outcome \in {"loaded", "failed"}, Stored(rs, outcome)
    PROVE  /\ For(1) = pending /\ pending \in Objects /\ state[pending] = outcome
           /\ stored = None /\ waiters = <<>> /\ pending' = None
           /\ \A i \in DOMAIN jobs : Kind(i) = "store" => i = 1
           /\ \A i \in DOMAIN jobs : For(i) = pending => Kind(i) \in {"join", "adopt", "store"}
           /\ \A p \in Objects : p # pending => state[p] \notin {"loading", "loaded"}
<1>1. Kind(1) = "store" /\ 1 \in DOMAIN jobs /\ Awaited = For(1) /\ For(1) \in Objects /\ Types
  BY Running DEF Stored
<1>2. For(1) = pending /\ pending # None BY <1>1 DEF QueueInv, Making
<1>3. state[pending] = outcome /\ pending' = None BY <1>1, <1>2 DEF Stored
<1>4. /\ \A i \in DOMAIN jobs : Kind(i) = "store" => i = 1
      /\ \A i \in DOMAIN jobs : For(i) = pending => Kind(i) \in {"join", "adopt", "store"}
  BY <1>1, <1>2, <1>3 DEF QueueInv, Phases
<1> QED BY <1>1, <1>2, <1>3, <1>4 DEF QueueInv, Making, Types

\* Once it has heard, nothing is being made.
LEMMA NothingPending ==
    ASSUME QueueInv, NEW rs, NEW outcome \in {"loaded", "failed"}, Stored(rs, outcome),
           NEW fresh, Moved(1, fresh), \A m \in DOMAIN fresh : fresh[m].kind # "store",
           \A r \in Calls : status[r] = "waiting" => object'[r] = object[r],
           UNCHANGED waiters, NEW now \in {"live", "failed"},
           state' = [state EXCEPT ![Awaited] = now]
    PROVE  Making' /\ Phases'
<1>1. /\ For(1) = pending /\ pending \in Objects /\ waiters = <<>> /\ pending' = None
      /\ \A i \in DOMAIN jobs : Kind(i) = "store" => i = 1
      /\ \A p \in Objects : p # pending => state[p] \notin {"loading", "loaded"}
  BY StoreStart
<1>2. Awaited = For(1) /\ Types BY Running DEF Stored
<1>3. /\ DOMAIN jobs = 1 .. Len(jobs) /\ DOMAIN jobs' = 1 .. Len(jobs')
      /\ Len(jobs) \in Nat \ {0} /\ Len(jobs') \in Nat
      /\ \A i \in DOMAIN jobs' :
            \/ i + 1 \in DOMAIN jobs /\ Kind(i)' = Kind(i + 1)
            \/ \E m \in DOMAIN fresh : jobs'[i] = fresh[m]
  BY Advanced
<1>4. ASSUME NEW i \in DOMAIN jobs' PROVE Kind(i)' # "store"
  <2>1. CASE i + 1 \in DOMAIN jobs /\ Kind(i)' = Kind(i + 1) BY <1>1, <1>3, <2>1
  <2>2. CASE \E m \in DOMAIN fresh : jobs'[i] = fresh[m] BY <2>2 DEF Kind
  <2> QED BY <1>3, <2>1, <2>2
<1>5. \A p \in Objects : state'[p] \notin {"loading", "loaded"} BY <1>1, <1>2 DEF Types
<1> QED BY <1>1, <1>4, <1>5 DEF Making, Phases

LEMMA StoreQueue ==
    ASSUME QueueInv, NEW rs, Store(rs)
    PROVE  QueueInv'
<1> DEFINE e == Job("got", rs)
           fresh == <<e>>
<1>0. Stored(rs, "loaded") /\ Runs("store", rs) BY DEF Store, Stored
<1>1. /\ Types /\ jobs \in Seq(JobRecord) /\ jobs # <<>> /\ 1 \in DOMAIN jobs /\ jobs[1].calls = rs
      /\ Kind(1) = "store" /\ rs \in Seq(Calls) /\ rs # <<>> /\ Awaited = For(1)
      /\ \A k \in DOMAIN rs : object[rs[k]] = For(1)
      /\ 1 \in DOMAIN rs /\ Head(rs) = rs[1]
  BY <1>0, Running
<1>2. /\ For(1) = pending /\ pending \in Objects /\ waiters = <<>> /\ pending' = None
      /\ state[pending] = "loaded" /\ stored' = pending
      /\ state' = [state EXCEPT ![Awaited] = "live"] /\ state' = [state EXCEPT ![pending] = "live"]
      /\ UNCHANGED <<owner, attached, status, object, waiters, gap>>
  BY <1>0, <1>1, StoreStart DEF Store
<1>3. e \in JobRecord /\ e.kind = "got" /\ e.calls = rs BY <1>1, Several
<1>4. Moved(1, <<e>>) BY <1>1, <1>3, Replaced DEF Store
<1> HIDE DEF e
<1>5. DOMAIN fresh = {1} /\ fresh[1] = e /\ Moved(1, fresh) BY <1>4
<1> HIDE DEF fresh
<1>6. /\ state'[pending] = "live" /\ \A p \in Objects : p # pending => state'[p] = state[p]
      /\ state' \in [Objects -> {"absent", "loading", "loaded", "failed", "live", "disposed"}]
  BY <1>1, <1>2 DEF Types
<1>7. Types' BY <1>1, <1>2, <1>4, <1>6 DEF Types, Moved
<1>8. Placed' BY <1>1, <1>2, <1>3, <1>4, QueuedAgain DEF QueueInv
<1>9. Together'
  <2>1. \A i \in DOMAIN jobs' : \A k \in DOMAIN jobs'[i].calls :
              object'[jobs'[i].calls[k]] = For(i)'
    BY <1>1, <1>2, <1>3, <1>5, Alike
  <2> QED BY <1>2, <2>1 DEF Together
<1>10. Making' /\ Phases' BY <1>0, <1>2, <1>3, <1>5, NothingPending
<1>11. Bound' BY <1>2, <1>6 DEF QueueInv, Bound
<1>12. Alive'
  <2>1. \A q \in attached : object[q] \in Objects
    BY <1>1 DEF QueueInv, Bound, Types
  <2> QED BY <1>1, <1>2, <1>6, <2>1 DEF QueueInv, Alive, Types
<1> QED BY <1>7, <1>8, <1>9, <1>10, <1>11, <1>12 DEF QueueInv

LEMMA StoreFailsQueue ==
    ASSUME QueueInv, NEW rs, StoreFails(rs)
    PROVE  QueueInv'
<1> DEFINE e == Job("got", rs)
           fresh == <<e>>
<1>0. Stored(rs, "failed") /\ Runs("store", rs) BY DEF StoreFails, Stored
<1>1. /\ Types /\ jobs \in Seq(JobRecord) /\ jobs # <<>> /\ 1 \in DOMAIN jobs /\ jobs[1].calls = rs
      /\ Kind(1) = "store" /\ rs \in Seq(Calls) /\ rs # <<>> /\ Awaited = For(1)
      /\ \A k \in DOMAIN rs : object[rs[k]] = For(1)
      /\ 1 \in DOMAIN rs /\ Head(rs) = rs[1]
  BY <1>0, Running
<1>2. /\ For(1) = pending /\ pending \in Objects /\ waiters = <<>> /\ pending' = None
      /\ state[pending] = "failed"
      /\ UNCHANGED <<state, stored, owner, attached, status, object, waiters, gap>>
  BY <1>0, <1>1, StoreStart DEF StoreFails
<1>3. e \in JobRecord /\ e.kind = "got" /\ e.calls = rs BY <1>1, Several
<1>4. Moved(1, <<e>>) BY <1>1, <1>3, Replaced DEF StoreFails
<1> HIDE DEF e
<1>5. DOMAIN fresh = {1} /\ fresh[1] = e /\ Moved(1, fresh) BY <1>4
<1> HIDE DEF fresh
<1>6. state' = [state EXCEPT ![Awaited] = "failed"] BY <1>1, <1>2 DEF Types
<1>7. Types' BY <1>1, <1>2, <1>4 DEF Types, Moved
<1>8. Placed' BY <1>1, <1>2, <1>3, <1>4, QueuedAgain DEF QueueInv
<1>9. Together'
  <2>1. \A i \in DOMAIN jobs' : \A k \in DOMAIN jobs'[i].calls :
              object'[jobs'[i].calls[k]] = For(i)'
    BY <1>1, <1>2, <1>3, <1>5, Alike
  <2> QED BY <1>2, <2>1 DEF Together
<1>10. Making' /\ Phases' BY <1>0, <1>2, <1>3, <1>5, <1>6, NothingPending
<1>11. Bound' /\ Alive' BY <1>2 DEF QueueInv, Bound, Alive
<1> QED BY <1>7, <1>8, <1>9, <1>10, <1>11 DEF QueueInv

LEMMA StoreAndAcquireQueue ==
    ASSUME QueueInv, NEW rs, NEW q \in Calls, StoreAndAcquire(rs, q)
    PROVE  QueueInv'
<1> DEFINE fresh == <<Job("deliver", <<q>>), Job("got", rs)>>
<1>0. Stored(rs, "loaded") /\ Runs("store", rs) /\ Calling(q)
  BY DEF StoreAndAcquire, Stored
<1>1. /\ Types /\ jobs \in Seq(JobRecord) /\ jobs # <<>> /\ 1 \in DOMAIN jobs /\ jobs[1].calls = rs
      /\ Kind(1) = "store" /\ rs \in Seq(Calls) /\ rs # <<>> /\ Awaited = For(1)
      /\ \A k \in DOMAIN rs :
            rs[k] \in Calls /\ status[rs[k]] = "waiting" /\ object[rs[k]] = For(1)
      /\ 1 \in DOMAIN rs /\ Head(rs) = rs[1] /\ 1 \in Places /\ Queue(1) = rs
  BY <1>0, Running
<1>2. /\ For(1) = pending /\ pending \in Objects /\ waiters = <<>> /\ pending' = None
      /\ state[pending] = "loaded" /\ stored' = pending
      /\ state' = [state EXCEPT ![Awaited] = "live"] /\ state' = [state EXCEPT ![pending] = "live"]
      /\ object' = [object EXCEPT ![q] = pending] /\ Attach({q}, pending)
      /\ gap' = TRUE /\ UNCHANGED waiters
  BY <1>0, <1>1, StoreStart DEF StoreAndAcquire
<1>3. /\ status[q] = "free" /\ status'[q] = "waiting" /\ q \notin attached
      /\ \A r \in Calls : r # q => status'[r] = status[r]
      /\ status' \in [Calls -> {"free", "waiting", "held", "released", "refused"}]
  BY <1>0, <1>1, Called
<1>4. /\ object' \in [Calls -> Objects \cup {None}] /\ object'[q] = pending
      /\ \A r \in Calls : r # q => object'[r] = object[r]
  BY <1>1, <1>2, Rebound
<1>5. /\ Job("deliver", <<q>>) \in JobRecord /\ Job("deliver", <<q>>).kind = "deliver"
      /\ Job("deliver", <<q>>).calls = <<q>> /\ Head(<<q>>) = q
      /\ Job("got", rs) \in JobRecord /\ Job("got", rs).kind = "got" /\ Job("got", rs).calls = rs
  BY <1>1, Single, Several DEF Job
<1>6. /\ fresh \in Seq(JobRecord) /\ DOMAIN fresh = {1, 2}
      /\ fresh[1].kind = "deliver" /\ fresh[1].calls = <<q>>
      /\ fresh[2].kind = "got" /\ fresh[2].calls = rs
  <2> HIDE DEF Job
  <2> QED BY <1>5
<1>7. Moved(1, fresh) BY <1>1, <1>6, Popped DEF StoreAndAcquire
<1> HIDE DEF fresh
<1>8. /\ state'[pending] = "live" /\ \A p \in Objects : p # pending => state'[p] = state[p]
      /\ state' \in [Objects -> {"absent", "loading", "loaded", "failed", "live", "disposed"}]
  BY <1>1, <1>2 DEF Types
<1>9. /\ attached' = attached \cup {q} /\ owner' # None /\ owner' \in Objects
      /\ owner' = (IF owner = None THEN pending ELSE owner)
  BY <1>1, <1>2, NoneApart DEF Attach, Types
<1>10. Types'
  <2>1. attached' \subseteq {r \in Calls : status'[r] \in {"waiting", "held"}}
    BY <1>1, <1>3, <1>9 DEF Types
  <2>2. jobs' \in Seq(JobRecord) BY <1>7 DEF Moved
  <2> QED BY <1>1, <1>2, <1>3, <1>4, <1>8, <1>9, <2>1, <2>2 DEF Types
<1>11. \A k \in DOMAIN <<q>> : k = 1 /\ <<q>>[k] = q OBVIOUS
<1>12. Placed'
  <2> DEFINE taken == ToSet(jobs[1].calls)
  <2>1. (1 = 0 => taken = {}) /\ (1 = 1 => taken = ToSet(jobs[1].calls)) OBVIOUS
  <2>2. /\ \A k \in DOMAIN rs : rs[k] \in taken
        /\ \A r \in taken : status[r] = "waiting" /\ \E k \in DOMAIN rs : rs[k] = r
    BY <1>1 DEF ToSet
  <2> HIDE DEF taken
  <2>3. \A m \in DOMAIN fresh : \A k \in DOMAIN fresh[m].calls :
           /\ fresh[m].calls[k] \in Calls /\ status'[fresh[m].calls[k]] = "waiting"
           /\ fresh[m].calls[k] \in taken \/ status[fresh[m].calls[k]] # "waiting"
    BY <1>1, <1>3, <1>6, <1>11, <2>2
  <2>4. ASSUME NEW m \in DOMAIN fresh, NEW n \in DOMAIN fresh,
               NEW k \in DOMAIN fresh[m].calls, NEW l \in DOMAIN fresh[n].calls,
               fresh[m].calls[k] = fresh[n].calls[l]
        PROVE  m = n /\ k = l
    <3>1. \A u, v \in DOMAIN rs : rs[u] = rs[v] => u = v
      BY <1>1 DEF QueueInv, Placed
    <3>2. \A u \in DOMAIN rs : rs[u] # q BY <1>1, <1>3
    <3> QED BY <1>6, <1>11, <2>4, <3>1, <3>2
  <2>5. \A r \in Calls : status[r] = "waiting" /\ r \notin taken => status'[r] = "waiting"
    BY <1>3
  <2>6. \A r \in Calls : status'[r] = "waiting" =>
           \/ status[r] = "waiting" /\ r \notin taken
           \/ \E m \in DOMAIN fresh : \E k \in DOMAIN fresh[m].calls : fresh[m].calls[k] = r
    <3>1. 1 \in DOMAIN <<q>> /\ <<q>>[1] = q OBVIOUS
    <3> QED BY <1>3, <1>6, <2>2, <3>1
  <2> QED BY <1>1, <1>2, <1>7, <2>1, <2>3, <2>4, <2>5, <2>6, Requeued DEF QueueInv
<1>13. \A r \in Calls : status[r] = "waiting" => object'[r] = object[r] BY <1>3, <1>4
<1>14. Together'
  <2>1. \A m \in DOMAIN fresh : \A k \in DOMAIN fresh[m].calls :
           object'[fresh[m].calls[k]] = object'[Head(fresh[m].calls)]
    BY <1>1, <1>5, <1>6, <1>11, <1>13
  <2>2. \A i \in DOMAIN jobs' : \A k \in DOMAIN jobs'[i].calls :
              object'[jobs'[i].calls[k]] = For(i)'
    BY <1>7, <1>13, <2>1, Alike
  <2> QED BY <1>2, <2>2 DEF Together
<1>15. Making' /\ Phases'
  BY <1>0, <1>2, <1>6, <1>7, <1>13, NothingPending
<1>16. Bound' BY <1>2, <1>3, <1>4, <1>8 DEF QueueInv, Bound
<1>17. Alive'
  <2>1. \A r \in attached : object[r] \in Objects
    BY <1>1 DEF QueueInv, Bound, Types
  <2> QED BY <1>1, <1>2, <1>3, <1>4, <1>8, <1>9, <2>1 DEF QueueInv, Alive, Types
<1> QED BY <1>10, <1>12, <1>14, <1>15, <1>16, <1>17 DEF QueueInv
\* A call that runs and is no longer on its way waits for no object that is made.
LEMMA NotMade ==
    ASSUME QueueInv, NEW i \in DOMAIN jobs, Kind(i) \in {"got", "deliver"}
    PROVE  /\ pending # None => For(i) # pending
           /\ state[For(i)] \in {"failed", "live", "disposed"}
<1>1. For(i) \in Objects /\ state[For(i)] # "absent" BY JobCalls
<1>2. pending # None => For(i) # pending BY DEF QueueInv, Phases
<1>3. state[For(i)] \notin {"loading", "loaded"} BY <1>1, <1>2, NoneApart DEF QueueInv, Making
<1> QED BY <1>1, <1>2, <1>3 DEF QueueInv, Types

\* The jobs that stay keep the promise of an object that is being made.
LEMMA StillMaking ==
    ASSUME QueueInv, NEW fresh, Moved(1, fresh), 1 \in DOMAIN jobs, Kind(1) \in {"got", "deliver"},
           \A m \in DOMAIN fresh : fresh[m].kind = "deliver" /\ object'[Head(fresh[m].calls)] = For(1),
           UNCHANGED <<state, pending, object, waiters>>
    PROVE  Making' /\ Phases'
<1>1. pending # None => For(1) # pending BY NotMade
<1>2. /\ Len(jobs) \in Nat \ {0} /\ DOMAIN jobs = 1 .. Len(jobs) /\ DOMAIN jobs' = 1 .. Len(jobs')
      /\ \A i \in DOMAIN jobs : i # 1 =>
            i - 1 \in DOMAIN jobs' /\ Kind(i - 1)' = Kind(i) /\ For(i - 1)' = For(i)
      /\ \A i \in DOMAIN jobs' :
            \/ i + 1 \in DOMAIN jobs /\ Kind(i)' = Kind(i + 1) /\ For(i)' = For(i + 1)
            \/ i >= Len(jobs) /\ \E m \in DOMAIN fresh : i = m + (Len(jobs) - 1) /\ jobs'[i] = fresh[m]
  BY Advanced
<1>3. \A i \in DOMAIN jobs' :
         \/ i + 1 \in DOMAIN jobs /\ Kind(i)' = Kind(i + 1) /\ For(i)' = For(i + 1)
         \/ Kind(i)' = "deliver" /\ For(i)' = For(1)
  BY <1>2 DEF Kind, For
<1>4. Making' BY <1>3 DEF QueueInv, Making
<1>5. CASE pending # None /\ state[pending] = "loading"
  <2>1. Phases' BY <1>1, <1>3, <1>5 DEF QueueInv, Phases
  <2> QED BY <1>4, <2>1
<1>6. CASE pending # None /\ state[pending] # "loading"
  <2>1. PICK s \in DOMAIN jobs :
           /\ Kind(s) = "store"
           /\ \A i \in DOMAIN jobs : Kind(i) = "store" => i = s
           /\ \A i \in DOMAIN jobs : For(i) = pending =>
                 Kind(i) \in {"join", "adopt", "store"} /\ (Kind(i) = "adopt" => i > s)
    BY <1>6 DEF QueueInv, Phases
  <2>2. PICK t \in DOMAIN jobs' : t = s - 1 /\ Kind(t)' = "store" BY <1>2, <2>1
  <2>3. ASSUME NEW i \in DOMAIN jobs', Kind(i)' = "store" PROVE i = t
    BY <1>2, <1>3, <2>1, <2>2, <2>3
  <2>4. ASSUME NEW i \in DOMAIN jobs', For(i)' = pending
        PROVE  Kind(i)' \in {"join", "adopt", "store"} /\ (Kind(i)' = "adopt" => i > t)
    <3>1. i + 1 \in DOMAIN jobs /\ Kind(i)' = Kind(i + 1) /\ For(i)' = For(i + 1)
      BY <1>1, <1>3, <1>6, <2>4
    <3>2. Kind(i + 1) \in {"join", "adopt", "store"} /\ (Kind(i + 1) = "adopt" => i + 1 > s)
      BY <2>1, <2>4, <3>1
    <3> QED BY <1>2, <2>2, <3>1, <3>2
  <2>5. Phases' BY <1>6, <2>2, <2>3, <2>4 DEF Phases
  <2> QED BY <1>4, <2>5
<1>7. CASE pending = None BY <1>4, <1>7 DEF Phases
<1> QED BY <1>5, <1>6, <1>7

LEMMA DeliveryJobs ==
    ASSUME NEW rs \in Seq(Calls)
    PROVE  /\ Deliveries(rs) \in Seq(JobRecord) /\ DOMAIN Deliveries(rs) = DOMAIN rs
           /\ \A m \in DOMAIN rs :
                 /\ Deliveries(rs)[m].kind = "deliver" /\ Deliveries(rs)[m].calls = <<rs[m]>>
                 /\ Head(Deliveries(rs)[m].calls) = rs[m]
                 /\ \A k \in DOMAIN Deliveries(rs)[m].calls :
                       k = 1 /\ Deliveries(rs)[m].calls[k] = rs[m]
<1>1. Len(rs) \in Nat /\ DOMAIN rs = 1 .. Len(rs) /\ \A m \in DOMAIN rs : rs[m] \in Calls
  BY LenProperties, ElementOfSeq
<1>2. ASSUME NEW m \in DOMAIN rs
      PROVE  /\ Job("deliver", <<rs[m]>>) \in JobRecord
             /\ Job("deliver", <<rs[m]>>).kind = "deliver"
             /\ Job("deliver", <<rs[m]>>).calls = <<rs[m]>>
  <2>1. rs[m] \in Calls BY <1>1
  <2>2. <<rs[m]>> \in Seq(Calls) /\ <<rs[m]>> # <<>> BY <2>1
  <2> QED BY <2>2, Several
<1>3. ASSUME NEW m \in DOMAIN rs
      PROVE  /\ Head(<<rs[m]>>) = rs[m]
             /\ \A k \in DOMAIN <<rs[m]>> : k = 1 /\ <<rs[m]>>[k] = rs[m]
  OBVIOUS
<1>4. Deliveries(rs) \in [1 .. Len(rs) -> JobRecord] BY <1>1, <1>2 DEF Deliveries
<1>5. Deliveries(rs) \in Seq(JobRecord) BY <1>1, <1>4, SeqDef
<1>6. DOMAIN Deliveries(rs) = DOMAIN rs
      /\ \A m \in DOMAIN rs : Deliveries(rs)[m] = Job("deliver", <<rs[m]>>)
  BY DEF Deliveries
<1> QED BY <1>2, <1>3, <1>5, <1>6

LEMMA GotQueue ==
    ASSUME QueueInv, NEW rs, Got(rs)
    PROVE  QueueInv'
<1> DEFINE fresh == Deliveries(rs)
<1>1. /\ Types /\ jobs \in Seq(JobRecord) /\ jobs # <<>> /\ 1 \in DOMAIN jobs /\ jobs[1].calls = rs
      /\ Kind(1) = "got" /\ rs \in Seq(Calls) /\ rs # <<>> /\ Awaited = For(1) /\ For(1) \in Objects
      /\ \A k \in DOMAIN rs :
            rs[k] \in Calls /\ status[rs[k]] = "waiting" /\ object[rs[k]] = For(1)
      /\ 1 \in DOMAIN rs /\ Head(rs) = rs[1] /\ 1 \in Places /\ Queue(1) = rs
  BY Running DEF Got
<1>2. /\ fresh \in Seq(JobRecord) /\ DOMAIN fresh = DOMAIN rs
      /\ \A m \in DOMAIN rs :
            /\ fresh[m].kind = "deliver" /\ fresh[m].calls = <<rs[m]>>
            /\ Head(fresh[m].calls) = rs[m]
            /\ \A k \in DOMAIN fresh[m].calls : k = 1 /\ fresh[m].calls[k] = rs[m]
  BY <1>1, DeliveryJobs
<1>3. Moved(1, fresh) BY <1>1, <1>2, Popped DEF Got
<1> HIDE DEF fresh
<1>4. /\ UNCHANGED <<state, pending, stored, status, object, waiters, gap>>
      /\ state[For(1)] # "failed" => Attach({rs[i] : i \in DOMAIN rs}, For(1))
      /\ state[For(1)] = "failed" => UNCHANGED <<owner, attached>>
  BY <1>1 DEF Got
<1>5. pending # None => For(1) # pending BY <1>1, NotMade
<1>6. state[For(1)] \in {"failed", "live", "disposed"} BY <1>1, NotMade
<1>7. Types' /\ Alive'
  <2>1. jobs' \in Seq(JobRecord) BY <1>3 DEF Moved
  <2>2. CASE state[For(1)] = "failed"
    BY <1>1, <1>4, <2>1, <2>2 DEF QueueInv, Types, Alive
  <2>3. CASE state[For(1)] # "failed"
    <3>1. /\ attached' = attached \cup {rs[i] : i \in DOMAIN rs}
          /\ owner' = (IF owner = None THEN For(1) ELSE owner)
      BY <1>4, <2>3 DEF Attach
    <3>2. owner' # None /\ owner' \in Objects /\ attached' # {}
      BY <1>1, <3>1, NoneApart DEF Types
    <3>3. attached' \subseteq {r \in Calls : status[r] \in {"waiting", "held"}}
      BY <1>1, <3>1 DEF Types
    <3>4. Types' BY <1>1, <1>4, <2>1, <3>2, <3>3 DEF Types
    <3>5. Alive' BY <1>1, <1>4, <1>6, <2>3, <3>1 DEF QueueInv, Alive
    <3> QED BY <3>4, <3>5
  <2> QED BY <2>2, <2>3
<1>8. Placed'
  <2> DEFINE taken == ToSet(jobs[1].calls)
  <2>1. (1 = 0 => taken = {}) /\ (1 = 1 => taken = ToSet(jobs[1].calls)) OBVIOUS
  <2>2. /\ \A k \in DOMAIN rs : rs[k] \in taken
        /\ \A r \in taken : status[r] = "waiting" /\ \E k \in DOMAIN rs : rs[k] = r
    BY <1>1 DEF ToSet
  <2> HIDE DEF taken
  <2>3. \A m \in DOMAIN fresh : \A k \in DOMAIN fresh[m].calls :
           /\ fresh[m].calls[k] \in Calls /\ status'[fresh[m].calls[k]] = "waiting"
           /\ fresh[m].calls[k] \in taken \/ status[fresh[m].calls[k]] # "waiting"
    BY <1>1, <1>2, <1>4, <2>2
  <2>4. \A m, n \in DOMAIN fresh :
           \A k \in DOMAIN fresh[m].calls, l \in DOMAIN fresh[n].calls :
              fresh[m].calls[k] = fresh[n].calls[l] => m = n /\ k = l
    <3>1. \A u, v \in DOMAIN rs : rs[u] = rs[v] => u = v
      BY <1>1 DEF QueueInv, Placed
    <3> QED BY <1>2, <3>1
  <2>5. \A r \in Calls : status[r] = "waiting" /\ r \notin taken => status'[r] = "waiting"
    BY <1>4
  <2>6. \A r \in Calls : status'[r] = "waiting" =>
           \/ status[r] = "waiting" /\ r \notin taken
           \/ \E m \in DOMAIN fresh : \E k \in DOMAIN fresh[m].calls : fresh[m].calls[k] = r
    <3>1. \A m \in DOMAIN rs : 1 \in DOMAIN fresh[m].calls
      <4>1. \A m \in DOMAIN rs : 1 \in DOMAIN <<rs[m]>> OBVIOUS
      <4> QED BY <1>2, <4>1
    <3> QED BY <1>2, <1>4, <2>2, <3>1
  <2> QED BY <1>1, <1>3, <1>4, <2>1, <2>3, <2>4, <2>5, <2>6, Requeued DEF QueueInv
<1>9. Together'
  <2>1. \A m \in DOMAIN fresh : \A k \in DOMAIN fresh[m].calls :
           object'[fresh[m].calls[k]] = object'[Head(fresh[m].calls)]
    BY <1>1, <1>2, <1>4
  <2>2. \A i \in DOMAIN jobs' : \A k \in DOMAIN jobs'[i].calls :
              object'[jobs'[i].calls[k]] = For(i)'
    BY <1>3, <1>4, <2>1, Alike
  <2> QED BY <1>4, <2>2 DEF QueueInv, Together
<1>10. Making' /\ Phases'
  <2>1. \A m \in DOMAIN fresh : fresh[m].kind = "deliver" /\ object'[Head(fresh[m].calls)] = For(1)
    BY <1>1, <1>2, <1>4
  <2> QED BY <1>1, <1>3, <1>4, <2>1, StillMaking
<1>11. Bound' BY <1>4 DEF QueueInv, Bound
<1> QED BY <1>7, <1>8, <1>9, <1>10, <1>11 DEF QueueInv

LEMMA DeliverQueue ==
    ASSUME QueueInv, NEW r, Deliver(r)
    PROVE  QueueInv'
<1> DEFINE fresh == <<>>
           answer == IF state[For(1)] = "failed" THEN "refused" ELSE "held"
<1>1. /\ Types /\ jobs \in Seq(JobRecord) /\ jobs # <<>> /\ 1 \in DOMAIN jobs /\ jobs[1].calls = <<r>>
      /\ Kind(1) = "deliver" /\ Awaited = For(1) /\ For(1) \in Objects
      /\ \A k \in DOMAIN <<r>> : <<r>>[k] \in Calls /\ status[<<r>>[k]] = "waiting"
                                 /\ object[<<r>>[k]] = For(1)
      /\ 1 \in Places /\ Queue(1) = <<r>>
  BY Running DEF Deliver
<1>2. r \in Calls /\ status[r] = "waiting" /\ object[r] = For(1)
      /\ \A k \in DOMAIN <<r>> : k = 1 /\ <<r>>[k] = r
  BY <1>1
<1>3. /\ UNCHANGED <<state, pending, stored, owner, attached, object, waiters, gap>>
      /\ status' = [status EXCEPT ![r] = answer] /\ jobs' = Tail(jobs)
  BY <1>1 DEF Deliver, collection
<1>4. Moved(1, fresh) BY <1>1, <1>3, Dropped
<1>5. DOMAIN fresh = {} OBVIOUS
<1>6. /\ status'[r] = answer /\ answer \in {"held", "refused"}
      /\ \A q \in Calls : q # r => status'[q] = status[q]
      /\ status' \in [Calls -> {"free", "waiting", "held", "released", "refused"}]
  BY <1>1, <1>2, <1>3 DEF Types
<1>7. Types'
  <2>1. jobs' \in Seq(JobRecord) BY <1>4 DEF Moved
  <2>2. r \in attached => answer = "held" BY <1>2 DEF QueueInv, Alive
  <2>3. attached \subseteq {q \in Calls : status'[q] \in {"waiting", "held"}}
    BY <1>1, <1>6, <2>2 DEF Types
  <2> QED BY <1>1, <1>3, <1>6, <2>1, <2>3 DEF Types
<1> HIDE DEF fresh, answer
<1>8. Placed'
  <2> DEFINE taken == ToSet(jobs[1].calls)
  <2>1. (1 = 0 => taken = {}) /\ (1 = 1 => taken = ToSet(jobs[1].calls)) OBVIOUS
  <2>2. taken = {r} BY <1>1, <1>2 DEF ToSet
  <2> HIDE DEF taken
  <2>3. /\ \A q \in Calls : status[q] = "waiting" /\ q \notin taken => status'[q] = "waiting"
        /\ \A q \in Calls : status'[q] = "waiting" => status[q] = "waiting" /\ q \notin taken
    BY <1>6, <2>2
  <2> QED BY <1>1, <1>3, <1>4, <1>5, <2>1, <2>3, Requeued DEF QueueInv
<1>9. Together'
  <2>1. \A i \in DOMAIN jobs' : \A k \in DOMAIN jobs'[i].calls :
              object'[jobs'[i].calls[k]] = For(i)'
    BY <1>3, <1>4, <1>5, Alike
  <2> QED BY <1>3, <2>1 DEF QueueInv, Together
<1>10. Making' /\ Phases' BY <1>1, <1>3, <1>4, <1>5, StillMaking
<1>11. Bound' BY <1>2, <1>3, <1>6 DEF QueueInv, Bound
<1>12. Alive' BY <1>3 DEF QueueInv, Alive
<1> QED BY <1>7, <1>8, <1>9, <1>10, <1>11, <1>12 DEF QueueInv
\* A client that gives something back leaves the queue as it is.
LEMMA QueueKept ==
    ASSUME QueueInv, UNCHANGED <<pending, object, waiters, jobs>>,
           status' \in [Calls -> {"free", "waiting", "held", "released", "refused"}],
           \A q \in Calls : /\ status'[q] = "waiting" <=> status[q] = "waiting"
                            /\ status'[q] # "free" => status[q] # "free",
           state' \in [Objects -> {"absent", "loading", "loaded", "failed", "live", "disposed"}],
           \A p \in Objects : \/ state'[p] = state[p]
                              \/ state[p] \in {"live", "disposed"} /\ state'[p] = "disposed",
           attached' \subseteq attached,
           \A q \in attached' : status'[q] \in {"waiting", "held"},
           stored' = stored \/ stored' = None, owner' = owner \/ owner' = None,
           owner' = None <=> attached' = {}, gap' \in BOOLEAN
    PROVE  QueueInv'
<1>1. Types BY DEF QueueInv
<1>2. Types'
  <2>1. {pending, stored, owner}' \subseteq Objects \cup {None} BY <1>1 DEF Types
  <2>2. pending' # None => stored' = None /\ state'[pending'] \in {"loading", "loaded", "failed"}
    <3>1. pending # None => pending \in Objects BY <1>1 DEF Types
    <3> QED BY <1>1, <3>1 DEF Types
  <2>3. attached' \subseteq {q \in Calls : status'[q] \in {"waiting", "held"}}
    BY <1>1 DEF Types
  <2>4. object' \in [Calls -> Objects \cup {None}] /\ jobs' \in Seq(JobRecord)
        /\ waiters' \in Seq(Calls)
    BY <1>1 DEF Types
  <2> QED BY <2>1, <2>2, <2>3, <2>4 DEF Types
<1>3. Moved(0, <<>>) BY <1>1, Kept DEF Types
<1>4. Places' = Places /\ \A i : Queue(i)' = Queue(i) BY DEF Places, Queue
<1>5. Placed'
  <2>1. \A r \in Calls : status'[r] = "waiting" =>
           \E i \in Places : \E k \in DOMAIN Queue(i) : Queue(i)[k] = r
    BY DEF QueueInv, Placed
  <2>2. \A i \in Places : \A k \in DOMAIN Queue(i) :
           Queue(i)[k] \in Calls /\ status'[Queue(i)[k]] = "waiting"
    BY DEF QueueInv, Placed
  <2>3. \A i, j \in Places : \A k \in DOMAIN Queue(i), l \in DOMAIN Queue(j) :
           Queue(i)[k] = Queue(j)[l] => i = j /\ k = l
    BY DEF QueueInv, Placed
  <2> QED BY <1>4, <2>1, <2>2, <2>3 DEF Placed
<1>6. \A i \in DOMAIN jobs : Kind(i)' = Kind(i) /\ For(i)' = For(i) BY DEF Kind, For
<1>7. Together' BY <1>6 DEF QueueInv, Together
<1>8. pending # None => pending \in Objects /\ state'[pending] = state[pending]
  BY <1>1 DEF Types
<1>9. Making'
  <2>1. waiters' # <<>> <=> pending' # None /\ state'[pending'] = "loading"
    BY <1>8 DEF QueueInv, Making
  <2>2. \A p \in Objects : state'[p] \in {"loading", "loaded"} => p = pending'
    BY DEF QueueInv, Making
  <2> QED BY <1>6, <2>1, <2>2 DEF QueueInv, Making
<1>10. Phases' BY <1>6, <1>8 DEF QueueInv, Phases
<1>11. Bound' BY DEF QueueInv, Bound
<1>12. Alive'
  <2>1. \A q \in attached : object[q] \in Objects BY <1>1 DEF QueueInv, Types, Bound
  <2>2. \A p \in Objects : state[p] \in {"live", "disposed"} => state'[p] \in {"live", "disposed"}
    OBVIOUS
  <2> QED BY <1>1, <2>1, <2>2 DEF QueueInv, Alive, Types
<1> QED BY <1>2, <1>5, <1>7, <1>9, <1>10, <1>11, <1>12 DEF QueueInv

\* What the disposal of an object by its own dispose does to the objects.
LEMMA Disposed ==
    ASSUME Types, NEW p \in Objects, state[p] \in {"live", "disposed"},
           state' = [state EXCEPT ![p] = "disposed"]
    PROVE  /\ state' \in [Objects -> {"absent", "loading", "loaded", "failed", "live", "disposed"}]
           /\ state'[p] = "disposed" /\ \A o \in Objects : o # p => state'[o] = state[o]
           /\ \A o \in Objects : \/ state'[o] = state[o]
                                 \/ state[o] \in {"live", "disposed"} /\ state'[o] = "disposed"
BY DEF Types

LEMMA ReleaseQueue ==
    ASSUME QueueInv, NEW r \in Calls, Release(r)
    PROVE  QueueInv'
<1>1. Types /\ status[r] = "held" BY DEF QueueInv, Release
<1>2. /\ status'[r] = "released" /\ \A q \in Calls : q # r => status'[q] = status[q]
      /\ status' \in [Calls -> {"free", "waiting", "held", "released", "refused"}]
      /\ UNCHANGED <<pending, object, waiters, jobs, gap>>
  BY <1>1 DEF Release, Types
<1>3. CASE attached = {r}
  <2>1. owner \in Objects /\ state[owner] \in {"live", "disposed"}
    BY <1>1, <1>3 DEF QueueInv, Alive, Types
  <2>2. state' = [state EXCEPT ![owner] = "disposed"]
        /\ stored' = None /\ owner' = None /\ attached' = {}
    BY <1>3 DEF Release, DisposeOwner
  <2>3. /\ state' \in [Objects -> {"absent", "loading", "loaded", "failed", "live", "disposed"}]
        /\ \A o \in Objects : \/ state'[o] = state[o]
                              \/ state[o] \in {"live", "disposed"} /\ state'[o] = "disposed"
    BY <1>1, <2>1, <2>2, Disposed
  <2> QED BY <1>1, <1>2, <2>2, <2>3, QueueKept DEF Types
<1>4. CASE attached # {r}
  <2>1. attached' = attached \ {r} /\ UNCHANGED <<state, stored, owner>>
    BY <1>4 DEF Release
  <2>2. owner' = None <=> attached' = {} BY <1>1, <1>4, <2>1 DEF Types
  <2>3. \A q \in attached' : status'[q] \in {"waiting", "held"}
    BY <1>1, <1>2, <2>1 DEF Types
  <2> QED BY <1>1, <1>2, <2>1, <2>2, <2>3, QueueKept DEF Types
<1> QED BY <1>3, <1>4

LEMMA DisposeObjectQueue ==
    ASSUME QueueInv, NEW r \in Calls, DisposeObject(r)
    PROVE  QueueInv'
<1>1. /\ Types /\ r \in attached /\ object[r] \in Objects /\ state[object[r]] = "live"
      /\ UNCHANGED <<pending, status, object, waiters, jobs>>
  BY DEF QueueInv, Bound, Types, DisposeObject
<1>2. state' = [state EXCEPT ![object[r]] = "disposed"]
  BY DEF DisposeObject, DisposeOwner
<1>3. /\ state' \in [Objects -> {"absent", "loading", "loaded", "failed", "live", "disposed"}]
      /\ \A o \in Objects : \/ state'[o] = state[o]
                            \/ state[o] \in {"live", "disposed"} /\ state'[o] = "disposed"
  BY <1>1, <1>2, Disposed
<1>4. \/ stored' = None /\ owner' = None /\ attached' = {}
      \/ UNCHANGED <<stored, owner, attached>>
  BY DEF DisposeObject, DisposeOwner
<1>5. gap' \in BOOLEAN BY <1>1 DEF DisposeObject, Types
<1>6. /\ attached' \subseteq attached
      /\ owner' = None <=> attached' = {}
      /\ \A q \in attached' : status'[q] \in {"waiting", "held"}
  BY <1>1, <1>4 DEF Types
<1> QED BY <1>1, <1>3, <1>4, <1>5, <1>6, QueueKept DEF Types

LEMMA StutterQueue == QueueInv /\ UNCHANGED vars => QueueInv'
<1> SUFFICES ASSUME QueueInv, UNCHANGED vars PROVE QueueInv' OBVIOUS
<1>1. UNCHANGED <<state, pending, stored, owner, attached, status, object, waiters, jobs, gap>>
  BY DEF vars, collection, calls
<1> QED BY <1>1, QueueKept DEF QueueInv, Types

LEMMA NextQueue == QueueInv /\ [Next]_vars => QueueInv'
<1> SUFFICES ASSUME QueueInv, [Next]_vars PROVE QueueInv' OBVIOUS
<1>1. ASSUME NEW r \in Calls, AcquireStored(r) \/ AcquirePending(r) \/ AcquireNew(r)
      PROVE  QueueInv'
  BY <1>1, AcquireStoredQueue, AcquirePendingQueue, AcquireNewQueue
<1>2. ASSUME NEW outcome \in {"loaded", "failed"}, FactoryReturns(outcome) PROVE QueueInv'
  BY <1>2, FactoryReturnsQueue
<1>3. ASSUME RunJob PROVE QueueInv'
  <2>1. PICK rs : \/ Join(Head(rs)) \/ Adopt(Head(rs)) \/ Deliver(Head(rs))
                  \/ Store(rs) \/ StoreFails(rs) \/ Got(rs)
                  \/ \E q \in Calls : StoreAndAcquire(rs, q)
    BY <1>3 DEF RunJob
  <2>2. PICK r : r = Head(rs) OBVIOUS
  <2> QED BY <2>1, <2>2, JoinQueue, AdoptQueue, DeliverQueue, StoreQueue, StoreFailsQueue,
             GotQueue, StoreAndAcquireQueue
<1>4. ASSUME NEW r \in Calls, Release(r) \/ DisposeObject(r) PROVE QueueInv'
  BY <1>4, ReleaseQueue, DisposeObjectQueue
<1>5. CASE UNCHANGED vars BY <1>5, StutterQueue
<1> QED BY <1>1, <1>2, <1>3, <1>4, <1>5 DEF Next

\* The maps of the collection agree and each waiting call is queued exactly once
\* (acquire, getOrCreateValue), whatever clients and listeners do.
THEOREM TypeCorrect == Spec => []TypeOK
<1>1. QueueInv => TypeOK BY TypeParts DEF QueueInv
<1> QED BY <1>1, InitQueue, NextQueue, PTL DEF Spec
-----------------------------------------------------------------------------
(* The count.  As long as no call fell into the gap, the references of the *)
(* collection are to its stored object, and that object goes through three *)
(* stages: its calls have not all been counted, one counted is still to be *)
(* answered, then its references alone decide.                             *)

Ours(i) == For(i) = stored

\* A job is to count calls, behind those that came late and before any answer.
Storing ==
    /\ \E g \in DOMAIN jobs :
          /\ Kind(g) = "got" /\ Ours(g)
          /\ \A i \in DOMAIN jobs : Ours(i) =>
                /\ Kind(i) \in {"adopt", "got", "deliver"}
                /\ Kind(i) = "adopt" => i < g
                /\ Kind(i) = "got" => i >= g
                /\ Kind(i) = "deliver" => i > g
    /\ \A r \in attached : status[r] = "waiting"

\* Whatever is still to be counted is ahead of an answer to a counted call.
Joining ==
    \E d \in DOMAIN jobs :
       /\ Kind(d) = "deliver" /\ Ours(d)
       /\ \A i \in DOMAIN jobs : Ours(i) =>
             Kind(i) \in {"got", "deliver"} /\ (Kind(i) = "got" => i < d)

\* All calls for the object are counted.
Settled ==
    /\ attached # {}
    /\ \A i \in DOMAIN jobs : Ours(i) => Kind(i) = "deliver"

Stage == stored # None => Storing \/ Joining \/ Settled

Attached ==
    /\ stored = None => attached = {}
    /\ \A r \in attached : object[r] = stored /\ owner = stored

Live ==
    /\ stored # None => state[stored] = "live"
    /\ \A p \in Objects : state[p] = "live" => p = stored

\* A call that joins is for the pending object, and ahead of its storing.
Joins ==
    /\ \A i \in DOMAIN jobs : Kind(i) = "join" => For(i) = pending
    /\ \A i, j \in DOMAIN jobs : Kind(i) = "join" /\ Kind(j) = "store" => i < j

\* A call is counted just before it is answered, and its object is there then.
Counting ==
    /\ \A i \in DOMAIN jobs : Kind(i) \in {"adopt", "got"} =>
          /\ state[For(i)] # "disposed"
          /\ \A k \in DOMAIN jobs[i].calls : jobs[i].calls[k] \notin attached
    /\ \A i \in DOMAIN jobs : Kind(i) = "deliver" /\ state[For(i)] = "live" =>
          \A k \in DOMAIN jobs[i].calls : jobs[i].calls[k] \in attached

Counted == Stage /\ Attached /\ Live /\ Joins /\ Counting

CountInv == QueueInv /\ (~ gap => Counted)

LEMMA InitCount == Init => CountInv
<1> SUFFICES ASSUME Init PROVE CountInv OBVIOUS
<1>1. QueueInv BY InitQueue
<1>2. DOMAIN jobs = {} BY DEF Init
<1>3. Stage /\ Attached /\ Joins /\ Counting
  BY <1>2 DEF Init, Stage, Attached, Joins, Counting
<1>4. Live BY DEF Init, Live
<1> QED BY <1>1, <1>3, <1>4 DEF CountInv, Counted

\* The calls of a job are waiting calls.
LEMMA CountedStay ==
    ASSUME QueueInv, NEW i \in DOMAIN jobs, NEW k \in DOMAIN jobs[i].calls
    PROVE  status[jobs[i].calls[k]] = "waiting" /\ jobs[i].calls[k] \in Calls
BY JobCalls

LEMMA AcquireStoredCount ==
    ASSUME QueueInv, Counted, NEW r \in Calls, AcquireStored(r)
    PROVE  Counted'
<1> DEFINE e == Job("deliver", <<r>>)
<1>0. Types /\ stored \in Objects /\ stored # None /\ pending = None
  BY DEF QueueInv, Types, AcquireStored
<1>1. /\ status[r] = "free" /\ status'[r] = "waiting" /\ r \notin attached
      /\ \A q \in Calls : q # r => status'[q] = status[q]
  BY <1>0, Called DEF AcquireStored
<1>2. object'[r] = stored /\ \A q \in Calls : q # r => object'[q] = object[q]
  BY <1>0, Rebound DEF AcquireStored
<1>3. /\ e \in JobRecord /\ e.kind = "deliver" /\ e.calls = <<r>> /\ Head(<<r>>) = r
      /\ \A k \in DOMAIN <<r>> : <<r>>[k] = r
  BY Single DEF Job
<1>4. Moved(0, <<e>>) BY <1>0, <1>3, Pushed DEF AcquireStored, Types
<1> HIDE DEF e
<1>5. \A q \in Calls : status[q] = "waiting" => object'[q] = object[q] BY <1>1, <1>2
<1>6. /\ \A i \in DOMAIN jobs :
            /\ i \in DOMAIN jobs' /\ jobs'[i] = jobs[i]
            /\ Kind(i)' = Kind(i) /\ For(i)' = For(i)
      /\ \A i \in DOMAIN jobs' : i \in DOMAIN jobs \/ (i = Len(jobs) + 1 /\ jobs'[i] = e)
  BY <1>4, <1>5, Joined
<1>7. Len(jobs) \in Nat /\ DOMAIN jobs = 1 .. Len(jobs) BY <1>0, LenProperties DEF Types
<1>8. \A i \in DOMAIN jobs' : i \in DOMAIN jobs \/
         (i > Len(jobs) /\ jobs'[i].calls = <<r>> /\ Kind(i)' = "deliver" /\ For(i)' = stored)
  BY <1>2, <1>3, <1>6, <1>7 DEF Kind, For
<1>9. /\ UNCHANGED <<state, pending, stored>> /\ attached' = attached \cup {r}
      /\ owner' = (IF owner = None THEN stored ELSE owner)
  BY DEF AcquireStored, Attach
<1>10. Attached'
  <2>1. attached = {} => owner' = stored BY <1>0, <1>9 DEF Types
  <2>2. attached # {} => owner' = stored BY <1>0, <1>9 DEF Counted, Attached
  <2>3. \A q \in attached : object'[q] = stored
    BY <1>0, <1>1, <1>2 DEF Counted, Attached, Types
  <2> QED BY <1>0, <1>2, <1>9, <2>1, <2>2, <2>3 DEF Attached
<1>11. Stage'
  <2>1. CASE Storing
    <3>1. PICK g \in DOMAIN jobs :
             /\ Kind(g) = "got" /\ Ours(g)
             /\ \A i \in DOMAIN jobs : Ours(i) =>
                   /\ Kind(i) \in {"adopt", "got", "deliver"}
                   /\ Kind(i) = "adopt" => i < g
                   /\ Kind(i) = "got" => i >= g
                   /\ Kind(i) = "deliver" => i > g
      BY <2>1 DEF Storing
    <3>2. \A q \in attached' : status'[q] = "waiting"
      BY <1>0, <1>1, <1>9, <2>1 DEF Storing, Types
    <3>3. g \in DOMAIN jobs' /\ Kind(g)' = "got" /\ For(g)' = stored
      BY <1>6, <3>1 DEF Ours
    <3>4. \A i \in DOMAIN jobs' : For(i)' = stored =>
             /\ Kind(i)' \in {"adopt", "got", "deliver"}
             /\ Kind(i)' = "adopt" => i < g
             /\ Kind(i)' = "got" => i >= g
             /\ Kind(i)' = "deliver" => i > g
      BY <1>6, <1>7, <1>8, <3>1 DEF Ours
    <3> QED BY <1>9, <3>2, <3>3, <3>4 DEF Stage, Storing, Ours
  <2>2. CASE Joining
    <3>1. PICK d \in DOMAIN jobs :
             /\ Kind(d) = "deliver" /\ Ours(d)
             /\ \A i \in DOMAIN jobs : Ours(i) =>
                   Kind(i) \in {"got", "deliver"} /\ (Kind(i) = "got" => i < d)
      BY <2>2 DEF Joining
    <3>2. d \in DOMAIN jobs' /\ Kind(d)' = "deliver" /\ For(d)' = stored
      BY <1>6, <3>1 DEF Ours
    <3>3. \A i \in DOMAIN jobs' : For(i)' = stored =>
             Kind(i)' \in {"got", "deliver"} /\ (Kind(i)' = "got" => i < d)
      BY <1>6, <1>8, <3>1 DEF Ours
    <3> QED BY <1>9, <3>2, <3>3 DEF Stage, Joining, Ours
  <2>3. CASE Settled
    BY <1>6, <1>8, <1>9, <2>3 DEF Stage, Settled, Ours
  <2> QED BY <1>0, <2>1, <2>2, <2>3 DEF Counted, Stage
<1>12. Live' BY <1>9 DEF Counted, Live
<1>13. Joins' BY <1>6, <1>8, <1>9 DEF Counted, Joins
<1>14. Counting'
  <2>1. ASSUME NEW i \in DOMAIN jobs', Kind(i)' \in {"adopt", "got"}
        PROVE  /\ state'[For(i)'] # "disposed"
               /\ \A k \in DOMAIN jobs'[i].calls : jobs'[i].calls[k] \notin attached'
    <3>1. i \in DOMAIN jobs BY <1>8, <2>1
    <3> QED BY <1>1, <1>6, <1>9, <2>1, <3>1, CountedStay DEF Counted, Counting
  <2>2. ASSUME NEW i \in DOMAIN jobs', Kind(i)' = "deliver", state'[For(i)'] = "live",
               NEW k \in DOMAIN jobs'[i].calls
        PROVE  jobs'[i].calls[k] \in attached'
    <3>1. CASE i \in DOMAIN jobs BY <1>6, <1>9, <2>2, <3>1 DEF Counted, Counting
    <3>2. CASE i \notin DOMAIN jobs BY <1>3, <1>8, <1>9, <2>2, <3>2
    <3> QED BY <3>1, <3>2
  <2> QED BY <2>1, <2>2 DEF Counting
<1> QED BY <1>10, <1>11, <1>12, <1>13, <1>14 DEF Counted
\* While nothing is stored there is nothing to count, and nothing alive.
LEMMA NothingStored ==
    ASSUME QueueInv, Counted, stored = None
    PROVE  /\ attached = {} /\ \A p \in Objects : state[p] # "live"
           /\ \A i \in DOMAIN jobs : state[For(i)] # "live"
BY JobCalls, NoneApart DEF Counted, Attached, Live

LEMMA NothingStoredNow ==
    ASSUME attached' = {}, stored' = None, \A p \in Objects : state'[p] # "live",
           \A i \in DOMAIN jobs' : For(i)' \in Objects,
           \A i \in DOMAIN jobs' : Kind(i)' \in {"adopt", "got"} => state'[For(i)'] # "disposed"
    PROVE  Stage' /\ Attached' /\ Live' /\ Counting'
BY NoneApart DEF Stage, Attached, Live, Counting

LEMMA AcquirePendingCount ==
    ASSUME QueueInv, Counted, ~ gap', NEW r \in Calls, AcquirePending(r)
    PROVE  Counted'
<1> DEFINE e == Job("join", <<r>>)
<1>0. /\ Types /\ stored = None /\ pending \in Objects /\ pending # None
      /\ state[pending] = "loading"
      /\ UNCHANGED <<state, pending, stored, owner, attached>>
  BY DEF QueueInv, Types, AcquirePending, collection
<1>1. /\ status[r] = "free" /\ \A q \in Calls : q # r => status'[q] = status[q]
  BY <1>0, Called DEF AcquirePending
<1>2. object'[r] = pending /\ \A q \in Calls : q # r => object'[q] = object[q]
  BY <1>0, Rebound DEF AcquirePending
<1>3. /\ e \in JobRecord /\ e.kind = "join" /\ e.calls = <<r>> /\ Head(<<r>>) = r
  BY Single DEF Job
<1>4. Moved(0, <<e>>) BY <1>0, <1>3, Pushed DEF AcquirePending, Types
<1> HIDE DEF e
<1>5. \A q \in Calls : status[q] = "waiting" => object'[q] = object[q] BY <1>1, <1>2
<1>6. /\ \A i \in DOMAIN jobs :
            /\ i \in DOMAIN jobs' /\ Kind(i)' = Kind(i) /\ For(i)' = For(i)
      /\ \A i \in DOMAIN jobs' : i \in DOMAIN jobs \/ (Kind(i)' = "join" /\ For(i)' = pending)
  <2>1. /\ \A i \in DOMAIN jobs :
              /\ i \in DOMAIN jobs' /\ Kind(i)' = Kind(i) /\ For(i)' = For(i)
        /\ \A i \in DOMAIN jobs' : i \in DOMAIN jobs \/ jobs'[i] = e
    BY <1>4, <1>5, Joined
  <2> QED BY <1>2, <1>3, <2>1 DEF Kind, For
<1>7. Stage' /\ Attached' /\ Live' /\ Counting'
  <2>1. \A i \in DOMAIN jobs' : For(i)' \in Objects BY <1>0, <1>6, JobCalls
  <2>2. \A i \in DOMAIN jobs' : Kind(i)' \in {"adopt", "got"} => state'[For(i)'] # "disposed"
    BY <1>0, <1>6 DEF Counted, Counting
  <2> QED BY <1>0, <2>1, <2>2, NothingStored, NothingStoredNow
<1>8. Joins'
  <2>1. \A i \in DOMAIN jobs' : Kind(i)' # "store"
    BY <1>0, <1>6 DEF QueueInv, Making, Phases
  <2> QED BY <1>0, <1>6, <2>1 DEF Counted, Joins
<1> QED BY <1>7, <1>8 DEF Counted

LEMMA AcquireNewCount ==
    ASSUME QueueInv, Counted, NEW r \in Calls, AcquireNew(r)
    PROVE  Counted'
<1>0. Types /\ stored = None /\ pending = None /\ UNCHANGED <<stored, attached, jobs>>
  BY DEF QueueInv, AcquireNew
<1>1. /\ status[r] = "free" /\ \A q \in Calls : q # r => status'[q] = status[q]
  BY <1>0, Called DEF AcquireNew
<1>2. PICK p \in Objects : /\ state[p] = "absent"
                           /\ state' = [state EXCEPT ![p] = "loading"]
                           /\ object' = [object EXCEPT ![r] = p]
  BY DEF AcquireNew
<1>3. /\ state'[p] = "loading" /\ \A o \in Objects : o # p => state'[o] = state[o]
      /\ \A q \in Calls : q # r => object'[q] = object[q]
  BY <1>0, <1>2 DEF Types
<1>4. \A i \in DOMAIN jobs :
         /\ Kind(i)' = Kind(i) /\ For(i)' = For(i) /\ For(i) \in Objects
         /\ state'[For(i)] = state[For(i)] /\ Kind(i) # "join"
  BY <1>0, <1>1, <1>2, <1>3, JobCalls, NoneApart DEF Kind, For, Counted, Joins
<1>5. Stage' /\ Attached' /\ Live' /\ Counting'
  <2>1. \A i \in DOMAIN jobs' : /\ For(i)' \in Objects
                                /\ Kind(i)' \in {"adopt", "got"} => state'[For(i)'] # "disposed"
    BY <1>0, <1>4 DEF Counted, Counting
  <2>2. \A o \in Objects : state'[o] # "live" BY <1>0, <1>3, NothingStored
  <2> QED BY <1>0, <2>1, <2>2, NothingStored, NothingStoredNow
<1>6. Joins' BY <1>0, <1>4 DEF Joins
<1> QED BY <1>5, <1>6 DEF Counted

LEMMA FactoryReturnsCount ==
    ASSUME QueueInv, Counted, NEW outcome \in {"loaded", "failed"}, FactoryReturns(outcome)
    PROVE  Counted'
<1> DEFINE e == Job("store", waiters)
<1>0. /\ Types /\ pending \in Objects /\ state[pending] = "loading" /\ stored = None
      /\ waiters # <<>> /\ waiters \in Seq(Calls)
      /\ UNCHANGED <<pending, stored, owner, attached, status, object, gap>>
  BY DEF QueueInv, Types, Making, FactoryReturns, collection
<1>1. /\ e \in JobRecord /\ e.kind = "store" /\ e.calls = waiters
      /\ 1 \in DOMAIN waiters /\ Head(waiters) = waiters[1]
  BY <1>0, Several
<1>2. Moved(0, <<e>>) BY <1>0, <1>1, Pushed DEF Types, FactoryReturns
<1> HIDE DEF e
<1>3. Len(jobs) \in Nat /\ DOMAIN jobs = 1 .. Len(jobs) BY <1>0, LenProperties DEF Types
<1>4. /\ \A i \in DOMAIN jobs : Kind(i)' = Kind(i) /\ For(i)' = For(i)
      /\ \A i \in DOMAIN jobs' : i \in DOMAIN jobs \/
            (i = Len(jobs) + 1 /\ Kind(i)' = "store" /\ For(i)' = pending)
  <2>1. /\ \A i \in DOMAIN jobs : Kind(i)' = Kind(i) /\ For(i)' = For(i)
        /\ \A i \in DOMAIN jobs' : i \in DOMAIN jobs \/ (i = Len(jobs) + 1 /\ jobs'[i] = e)
    BY <1>0, <1>2, Joined
  <2> QED BY <1>0, <1>1, <2>1 DEF QueueInv, Together, Kind, For
<1>5. \A i \in DOMAIN jobs : Kind(i) # "store" /\ (For(i) = pending => Kind(i) = "join")
  BY <1>0, NoneApart DEF QueueInv, Making, Phases
<1>6. /\ state'[pending] = outcome /\ \A p \in Objects : p # pending => state'[p] = state[p]
  BY <1>0 DEF Types, FactoryReturns
<1>7. Stage' /\ Attached' /\ Live' /\ Counting'
  <2>1. \A i \in DOMAIN jobs' : For(i)' \in Objects BY <1>0, <1>4, JobCalls
  <2>2. ASSUME NEW i \in DOMAIN jobs', Kind(i)' \in {"adopt", "got"}
        PROVE  state'[For(i)'] # "disposed"
    <3>1. i \in DOMAIN jobs /\ Kind(i) \in {"adopt", "got"} /\ For(i)' = For(i) BY <1>4, <2>2
    <3>2. For(i) # pending /\ For(i) \in Objects /\ state[For(i)] # "disposed"
      BY <1>5, <3>1, JobCalls DEF Counted, Counting
    <3> QED BY <1>6, <3>1, <3>2
  <2>3. \A p \in Objects : state'[p] # "live" BY <1>0, <1>6, NothingStored
  <2> QED BY <1>0, <2>1, <2>2, <2>3, NothingStored, NothingStoredNow
<1>8. Joins' BY <1>0, <1>3, <1>4, <1>5 DEF Counted, Joins
<1> QED BY <1>7, <1>8 DEF Counted

LEMMA JoinCount ==
    ASSUME QueueInv, Counted, NEW r, Join(r)
    PROVE  Counted'
<1>1. /\ jobs \in Seq(JobRecord) /\ jobs # <<>> /\ 1 \in DOMAIN jobs /\ jobs[1].calls = <<r>>
      /\ Kind(1) = "join" /\ <<r>> \in Seq(Calls) /\ <<r>> # <<>> /\ Awaited = For(1)
      /\ For(1) \in Objects /\ object[Head(<<r>>)] = For(1) /\ Types
      /\ UNCHANGED <<state, collection, status, object, gap>>
  BY Running DEF Join, For
<1>2. For(1) = pending /\ pending # None /\ stored = None
  BY <1>1, NoneApart DEF Counted, Joins, Types
<1>3. PICK fresh : /\ Moved(1, fresh)
                   /\ \/ fresh = <<>> /\ state[pending] = "loading"
                      \/ fresh = <<Job("adopt", <<r>>)>> /\ state[pending] # "loading"
  <2>1. Job("adopt", <<r>>) \in JobRecord BY <1>1, Several
  <2>2. CASE state[Awaited] = "loading"
    <3>1. Moved(1, <<>>) BY <1>1, <2>2, Dropped DEF Join
    <3> QED BY <1>1, <1>2, <2>2, <3>1
  <2>3. CASE state[Awaited] # "loading"
    <3>1. Moved(1, <<Job("adopt", <<r>>)>>) BY <1>1, <2>1, <2>3, Replaced DEF Join
    <3> QED BY <1>1, <1>2, <2>3, <3>1
  <2> QED BY <2>2, <2>3
<1>4. \A m \in DOMAIN fresh : /\ fresh[m].kind = "adopt" /\ object[Head(fresh[m].calls)] = For(1)
                              /\ state[For(1)] # "loading"
  <2>1. Job("adopt", <<r>>).kind = "adopt" /\ Job("adopt", <<r>>).calls = <<r>>
    BY <1>1, Several
  <2> QED BY <1>1, <1>2, <1>3, <2>1
<1>5. /\ Len(jobs) \in Nat \ {0} /\ DOMAIN jobs = 1 .. Len(jobs) /\ DOMAIN jobs' = 1 .. Len(jobs')
      /\ \A i \in DOMAIN jobs' :
            \/ i + 1 \in DOMAIN jobs /\ Kind(i)' = Kind(i + 1) /\ For(i)' = For(i + 1)
            \/ \E m \in DOMAIN fresh : jobs'[i] = fresh[m]
  BY <1>1, <1>3, Advanced
<1>6. \A i \in DOMAIN jobs' :
         \/ i + 1 \in DOMAIN jobs /\ Kind(i)' = Kind(i + 1) /\ For(i)' = For(i + 1)
         \/ Kind(i)' = "adopt" /\ For(i)' = pending /\ state[pending] # "loading"
  BY <1>1, <1>2, <1>4, <1>5 DEF Kind, For
<1>7. Stage' /\ Attached' /\ Live' /\ Counting'
  <2>1. \A i \in DOMAIN jobs' : For(i)' \in Objects BY <1>1, <1>2, <1>6, JobCalls
  <2>2. state[pending] # "disposed" BY <1>1, <1>2 DEF Types
  <2>3. \A i \in DOMAIN jobs' : Kind(i)' \in {"adopt", "got"} => state'[For(i)'] # "disposed"
    BY <1>1, <1>6, <2>2 DEF Counted, Counting
  <2> QED BY <1>1, <1>2, <2>1, <2>3, NothingStored, NothingStoredNow DEF collection
<1>8. Joins'
  <2>1. \A i \in DOMAIN jobs' : Kind(i)' = "join" => For(i)' = pending
    BY <1>6 DEF Counted, Joins
  <2>2. \A i, j \in DOMAIN jobs' : Kind(i)' = "join" /\ Kind(j)' = "store" => i < j
    BY <1>5, <1>6 DEF Counted, Joins
  <2> QED BY <1>1, <2>1, <2>2 DEF Joins, collection
<1> QED BY <1>7, <1>8 DEF Counted
LEMMA AdoptCount ==
    ASSUME QueueInv, Counted, NEW r, Adopt(r)
    PROVE  Counted'
<1> DEFINE e == Job("got", <<r>>)
           fresh == <<e>>
<1>1. /\ jobs \in Seq(JobRecord) /\ jobs # <<>> /\ 1 \in DOMAIN jobs /\ jobs[1].calls = <<r>>
      /\ Kind(1) = "adopt" /\ <<r>> \in Seq(Calls) /\ <<r>> # <<>>
      /\ For(1) \in Objects /\ object[Head(<<r>>)] = For(1) /\ Types
      /\ UNCHANGED <<state, pending, stored, owner, attached, status, object, waiters, gap>>
  BY Running DEF Adopt, For, collection
<1>2. e \in JobRecord /\ e.kind = "got" /\ e.calls = <<r>> BY <1>1, Several
<1>3. Moved(1, <<e>>) BY <1>1, <1>2, Replaced DEF Adopt
<1> HIDE DEF e
<1>4. DOMAIN fresh = {1} /\ fresh[1] = e /\ Moved(1, fresh) BY <1>3
<1> HIDE DEF fresh
<1>5. /\ Len(jobs) \in Nat \ {0} /\ DOMAIN jobs = 1 .. Len(jobs) /\ DOMAIN jobs' = 1 .. Len(jobs')
      /\ \A i \in DOMAIN jobs : i # 1 =>
            i - 1 \in DOMAIN jobs' /\ Kind(i - 1)' = Kind(i) /\ For(i - 1)' = For(i)
      /\ \A i \in DOMAIN jobs' :
            \/ /\ i + 1 \in DOMAIN jobs /\ jobs'[i] = jobs[i + 1]
               /\ Kind(i)' = Kind(i + 1) /\ For(i)' = For(i + 1)
            \/ i >= Len(jobs) /\ \E m \in DOMAIN fresh : i = m + (Len(jobs) - 1) /\ jobs'[i] = fresh[m]
  BY <1>1, <1>4, Advanced
<1>6. \A i \in DOMAIN jobs' :
         \/ /\ i + 1 \in DOMAIN jobs /\ jobs'[i].calls = jobs[i + 1].calls
            /\ Kind(i)' = Kind(i + 1) /\ For(i)' = For(i + 1)
         \/ /\ i >= Len(jobs) /\ jobs'[i].calls = jobs[1].calls
            /\ Kind(i)' = "got" /\ For(i)' = For(1)
  BY <1>1, <1>2, <1>4, <1>5 DEF Kind, For
<1>7. Stage'
  <2>1. CASE Storing
    <3>1. PICK g \in DOMAIN jobs :
             /\ Kind(g) = "got" /\ Ours(g)
             /\ \A i \in DOMAIN jobs : Ours(i) =>
                   /\ Kind(i) \in {"adopt", "got", "deliver"}
                   /\ Kind(i) = "adopt" => i < g
                   /\ Kind(i) = "got" => i >= g
                   /\ Kind(i) = "deliver" => i > g
      BY <2>1 DEF Storing
    <3>2. PICK h \in DOMAIN jobs' : h = g - 1 /\ Kind(h)' = "got" /\ For(h)' = stored
      BY <1>1, <1>5, <3>1 DEF Ours
    <3>3. \A i \in DOMAIN jobs' : For(i)' = stored =>
             /\ Kind(i)' \in {"adopt", "got", "deliver"}
             /\ Kind(i)' = "adopt" => i < h
             /\ Kind(i)' = "got" => i >= h
             /\ Kind(i)' = "deliver" => i > h
      BY <1>5, <1>6, <3>1, <3>2 DEF Ours
    <3> QED BY <1>1, <2>1, <3>2, <3>3 DEF Stage, Storing, Ours
  <2>2. CASE Joining
    <3>1. PICK d \in DOMAIN jobs :
             /\ Kind(d) = "deliver" /\ Ours(d)
             /\ \A i \in DOMAIN jobs : Ours(i) =>
                   Kind(i) \in {"got", "deliver"} /\ (Kind(i) = "got" => i < d)
      BY <2>2 DEF Joining
    <3>2. For(1) # stored BY <1>1, <3>1 DEF Ours
    <3>3. PICK h \in DOMAIN jobs' : h = d - 1 /\ Kind(h)' = "deliver" /\ For(h)' = stored
      BY <1>1, <1>5, <3>1 DEF Ours
    <3>4. \A i \in DOMAIN jobs' : For(i)' = stored =>
             Kind(i)' \in {"got", "deliver"} /\ (Kind(i)' = "got" => i < h)
      BY <1>5, <1>6, <3>1, <3>2, <3>3 DEF Ours
    <3> QED BY <1>1, <3>3, <3>4 DEF Stage, Joining, Ours
  <2>3. CASE Settled
    BY <1>1, <1>6, <2>3 DEF Stage, Settled, Ours
  <2> QED BY <1>1, <2>1, <2>2, <2>3 DEF Counted, Stage
<1>8. Attached' /\ Live' BY <1>1 DEF Counted, Attached, Live
<1>9. Joins'
  <2>1. \A i \in DOMAIN jobs' : Kind(i)' = "join" => For(i)' = pending
    BY <1>6 DEF Counted, Joins
  <2>2. \A i, j \in DOMAIN jobs' : Kind(i)' = "join" /\ Kind(j)' = "store" => i < j
    BY <1>5, <1>6 DEF Counted, Joins
  <2> QED BY <1>1, <2>1, <2>2 DEF Joins
<1>10. Counting'
  <2>1. state[For(1)] # "disposed" /\ \A k \in DOMAIN jobs[1].calls : jobs[1].calls[k] \notin attached
    BY <1>1 DEF Counted, Counting
  <2>2. \A i \in DOMAIN jobs' : Kind(i)' \in {"adopt", "got"} =>
           /\ state[For(i)'] # "disposed"
           /\ \A k \in DOMAIN jobs'[i].calls : jobs'[i].calls[k] \notin attached
    BY <1>6, <2>1 DEF Counted, Counting
  <2>3. \A i \in DOMAIN jobs' : Kind(i)' = "deliver" /\ state[For(i)'] = "live" =>
           \A k \in DOMAIN jobs'[i].calls : jobs'[i].calls[k] \in attached
    BY <1>6 DEF Counted, Counting
  <2> QED BY <1>1, <2>2, <2>3 DEF Counting
<1> QED BY <1>7, <1>8, <1>9, <1>10 DEF Counted

LEMMA StoreCount ==
    ASSUME QueueInv, Counted, NEW rs, Store(rs)
    PROVE  Counted'
<1> DEFINE e == Job("got", rs)
           fresh == <<e>>
<1>0. Stored(rs, "loaded") /\ Runs("store", rs) BY DEF Store, Stored
<1>1. /\ Types /\ jobs \in Seq(JobRecord) /\ jobs # <<>> /\ 1 \in DOMAIN jobs /\ jobs[1].calls = rs
      /\ Kind(1) = "store" /\ rs \in Seq(Calls) /\ rs # <<>> /\ Awaited = For(1)
      /\ 1 \in DOMAIN rs /\ Head(rs) = rs[1] /\ object[rs[1]] = For(1)
  BY <1>0, Running
<1>2. /\ For(1) = pending /\ pending \in Objects /\ stored = None /\ pending' = None
      /\ state' = [state EXCEPT ![pending] = "live"] /\ stored' = pending
      /\ UNCHANGED <<owner, attached, status, object, waiters, gap>>
      /\ \A i \in DOMAIN jobs : For(i) = pending => Kind(i) \in {"join", "adopt", "store"}
      /\ \A i \in DOMAIN jobs : Kind(i) = "store" => i = 1
  BY <1>0, <1>1, StoreStart DEF Store
<1>3. e \in JobRecord /\ e.kind = "got" /\ e.calls = rs BY <1>1, Several
<1>4. Moved(1, <<e>>) BY <1>1, <1>3, Replaced DEF Store
<1> HIDE DEF e
<1>5. DOMAIN fresh = {1} /\ fresh[1] = e /\ Moved(1, fresh) BY <1>4
<1> HIDE DEF fresh
<1>6. /\ Len(jobs) \in Nat \ {0} /\ DOMAIN jobs = 1 .. Len(jobs) /\ DOMAIN jobs' = 1 .. Len(jobs')
      /\ \A i \in DOMAIN jobs' :
            \/ /\ i + 1 \in DOMAIN jobs
               /\ Kind(i)' = Kind(i + 1) /\ For(i)' = For(i + 1)
            \/ i >= Len(jobs) /\ \E m \in DOMAIN fresh : i = m + (Len(jobs) - 1) /\ jobs'[i] = fresh[m]
      /\ \A m \in DOMAIN fresh : /\ m + (Len(jobs) - 1) \in DOMAIN jobs'
                                 /\ jobs'[m + (Len(jobs) - 1)] = fresh[m]
  BY <1>2, <1>5, Advanced
<1>7. PICK g \in DOMAIN jobs' : g = Len(jobs) /\ jobs'[g] = e
  <2>1. 1 + (Len(jobs) - 1) = Len(jobs) BY <1>6
  <2> QED BY <1>5, <1>6, <2>1
<1>8. Kind(g)' = "got" /\ For(g)' = pending BY <1>1, <1>2, <1>3, <1>7 DEF Kind, For
<1>9. \A i \in DOMAIN jobs' :
         \/ i = g
         \/ i < g /\ i + 1 \in DOMAIN jobs /\ Kind(i)' = Kind(i + 1) /\ For(i)' = For(i + 1)
  BY <1>5, <1>6, <1>7
<1>10. \A i \in DOMAIN jobs : Kind(i) # "join" BY <1>1, <1>6 DEF Counted, Joins
<1>11. attached = {} /\ (\A p \in Objects : state[p] # "live")
       /\ \A i \in DOMAIN jobs : state[For(i)] # "live"
  BY <1>2, NothingStored
<1>12. /\ state'[pending] = "live" /\ \A p \in Objects : p # pending => state'[p] = state[p]
  BY <1>1, <1>2 DEF Types
<1>13. Stage'
  <2>1. \A i \in DOMAIN jobs' : For(i)' = pending =>
           /\ Kind(i)' \in {"adopt", "got", "deliver"}
           /\ Kind(i)' = "adopt" => i < g
           /\ Kind(i)' = "got" => i >= g
           /\ Kind(i)' = "deliver" => i > g
    <3> SUFFICES ASSUME NEW i \in DOMAIN jobs', For(i)' = pending
                 PROVE  i = g \/ (i < g /\ Kind(i)' = "adopt")
      BY <1>6, <1>8
    <3>1. ASSUME i # g PROVE i < g /\ Kind(i)' = "adopt"
      <4>1. /\ i < g /\ i + 1 \in DOMAIN jobs /\ Kind(i)' = Kind(i + 1) /\ For(i + 1) = pending
            /\ i + 1 # 1
        BY <1>6, <1>9, <3>1
      <4> QED BY <1>2, <1>10, <4>1
    <3> QED BY <3>1
  <2> QED BY <1>2, <1>8, <1>11, <2>1 DEF Stage, Storing, Ours
<1>14. Attached' BY <1>2, <1>11, NoneApart DEF Attached
<1>15. Live' BY <1>2, <1>11, <1>12 DEF Live
<1>16. \A i \in DOMAIN jobs' : Kind(i)' # "join" BY <1>8, <1>9, <1>10
<1>17. Joins' BY <1>16 DEF Joins
<1>18. Counting'
  <2>1. ASSUME NEW i \in DOMAIN jobs', Kind(i)' \in {"adopt", "got"}
        PROVE  state'[For(i)'] # "disposed"
    <3>1. CASE i = g BY <1>8, <1>12, <3>1
    <3>2. CASE i # g
      <4>1. /\ i + 1 \in DOMAIN jobs /\ Kind(i + 1) \in {"adopt", "got"} /\ For(i)' = For(i + 1)
            /\ For(i + 1) \in Objects
        BY <1>9, <2>1, <3>2, JobCalls
      <4>2. state[For(i + 1)] # "disposed" BY <4>1 DEF Counted, Counting
      <4> QED BY <1>12, <4>1, <4>2
    <3> QED BY <3>1, <3>2
  <2>2. ASSUME NEW i \in DOMAIN jobs', Kind(i)' = "deliver"
        PROVE  state'[For(i)'] # "live"
    <3>1. /\ i + 1 \in DOMAIN jobs /\ Kind(i + 1) = "deliver" /\ For(i)' = For(i + 1)
          /\ For(i + 1) \in Objects
      BY <1>8, <1>9, <2>2, JobCalls
    <3>2. For(i + 1) # pending BY <1>2, <3>1
    <3> QED BY <1>11, <1>12, <3>1, <3>2
  <2> QED BY <1>2, <1>11, <2>1, <2>2 DEF Counting
<1> QED BY <1>13, <1>14, <1>15, <1>17, <1>18 DEF Counted

LEMMA StoreFailsCount ==
    ASSUME QueueInv, Counted, NEW rs, StoreFails(rs)
    PROVE  Counted'
<1> DEFINE e == Job("got", rs)
           fresh == <<e>>
<1>0. Stored(rs, "failed") /\ Runs("store", rs) BY DEF StoreFails, Stored
<1>1. /\ Types /\ jobs \in Seq(JobRecord) /\ jobs # <<>> /\ 1 \in DOMAIN jobs /\ jobs[1].calls = rs
      /\ Kind(1) = "store" /\ rs \in Seq(Calls) /\ rs # <<>> /\ Awaited = For(1)
      /\ 1 \in DOMAIN rs /\ Head(rs) = rs[1] /\ object[rs[1]] = For(1)
  BY <1>0, Running
<1>2. /\ For(1) = pending /\ pending \in Objects /\ state[pending] = "failed"
      /\ stored = None /\ pending' = None
      /\ UNCHANGED <<state, stored, owner, attached, status, object, waiters, gap>>
  BY <1>0, <1>1, StoreStart DEF StoreFails
<1>3. e \in JobRecord /\ e.kind = "got" /\ e.calls = rs BY <1>1, Several
<1>4. Moved(1, <<e>>) BY <1>1, <1>3, Replaced DEF StoreFails
<1> HIDE DEF e
<1>5. DOMAIN fresh = {1} /\ fresh[1] = e /\ Moved(1, fresh) BY <1>4
<1> HIDE DEF fresh
<1>6. /\ Len(jobs) \in Nat \ {0} /\ DOMAIN jobs = 1 .. Len(jobs) /\ DOMAIN jobs' = 1 .. Len(jobs')
      /\ \A i \in DOMAIN jobs' :
            \/ i + 1 \in DOMAIN jobs /\ Kind(i)' = Kind(i + 1) /\ For(i)' = For(i + 1)
            \/ \E m \in DOMAIN fresh : jobs'[i] = fresh[m]
  BY <1>2, <1>5, Advanced
<1>7. \A i \in DOMAIN jobs' :
         \/ i + 1 \in DOMAIN jobs /\ Kind(i)' = Kind(i + 1) /\ For(i)' = For(i + 1)
         \/ Kind(i)' = "got" /\ For(i)' = pending
  BY <1>1, <1>2, <1>3, <1>5, <1>6 DEF Kind, For
<1>8. \A i \in DOMAIN jobs : Kind(i) # "join" BY <1>1, <1>6 DEF Counted, Joins
<1>9. Stage' /\ Attached' /\ Live' /\ Counting'
  <2>1. \A i \in DOMAIN jobs' : For(i)' \in Objects BY <1>2, <1>7, JobCalls
  <2>2. \A i \in DOMAIN jobs' : Kind(i)' \in {"adopt", "got"} => state'[For(i)'] # "disposed"
    BY <1>2, <1>7 DEF Counted, Counting
  <2> QED BY <1>2, <2>1, <2>2, NothingStored, NothingStoredNow
<1>10. Joins' BY <1>7, <1>8 DEF Joins
<1> QED BY <1>9, <1>10 DEF Counted
\* What is left of a stage when the first job, for another object, is taken off
\* and no job for the stored object joins.
LEMMA StageShifts ==
    ASSUME QueueInv, Counted, NEW fresh, Moved(1, fresh), 1 \in DOMAIN jobs,
           For(1) # stored, UNCHANGED <<stored, object, attached>>,
           \A m \in DOMAIN fresh : object'[Head(fresh[m].calls)] = For(1),
           \A q \in attached : status'[q] = status[q]
    PROVE  Stage'
<1>1. /\ Len(jobs) \in Nat \ {0} /\ DOMAIN jobs = 1 .. Len(jobs) /\ DOMAIN jobs' = 1 .. Len(jobs')
      /\ \A i \in DOMAIN jobs : i # 1 =>
            i - 1 \in DOMAIN jobs' /\ Kind(i - 1)' = Kind(i) /\ For(i - 1)' = For(i)
      /\ \A i \in DOMAIN jobs' :
            \/ i + 1 \in DOMAIN jobs /\ Kind(i)' = Kind(i + 1) /\ For(i)' = For(i + 1)
            \/ \E m \in DOMAIN fresh : jobs'[i] = fresh[m]
  BY Advanced
<1>2. \A i \in DOMAIN jobs' : For(i)' = stored =>
         i + 1 \in DOMAIN jobs /\ Kind(i)' = Kind(i + 1) /\ For(i + 1) = stored
  BY <1>1 DEF For
<1>3. CASE Storing
  <2>1. PICK g \in DOMAIN jobs :
           /\ Kind(g) = "got" /\ Ours(g)
           /\ \A i \in DOMAIN jobs : Ours(i) =>
                 /\ Kind(i) \in {"adopt", "got", "deliver"}
                 /\ Kind(i) = "adopt" => i < g
                 /\ Kind(i) = "got" => i >= g
                 /\ Kind(i) = "deliver" => i > g
    BY <1>3 DEF Storing
  <2>2. PICK h \in DOMAIN jobs' : h = g - 1 /\ Kind(h)' = "got" /\ For(h)' = stored
    BY <1>1, <2>1 DEF Ours
  <2>3. \A i \in DOMAIN jobs' : For(i)' = stored =>
           /\ Kind(i)' \in {"adopt", "got", "deliver"}
           /\ Kind(i)' = "adopt" => i < h
           /\ Kind(i)' = "got" => i >= h
           /\ Kind(i)' = "deliver" => i > h
    BY <1>1, <1>2, <2>1, <2>2 DEF Ours
  <2> QED BY <1>3, <2>2, <2>3 DEF Stage, Storing, Ours
<1>4. CASE Joining
  <2>1. PICK d \in DOMAIN jobs :
           /\ Kind(d) = "deliver" /\ Ours(d)
           /\ \A i \in DOMAIN jobs : Ours(i) =>
                 Kind(i) \in {"got", "deliver"} /\ (Kind(i) = "got" => i < d)
    BY <1>4 DEF Joining
  <2>2. PICK h \in DOMAIN jobs' : h = d - 1 /\ Kind(h)' = "deliver" /\ For(h)' = stored
    BY <1>1, <2>1 DEF Ours
  <2>3. \A i \in DOMAIN jobs' : For(i)' = stored =>
           Kind(i)' \in {"got", "deliver"} /\ (Kind(i)' = "got" => i < h)
    BY <1>1, <1>2, <2>1, <2>2 DEF Ours
  <2> QED BY <2>2, <2>3 DEF Stage, Joining, Ours
<1>5. CASE Settled BY <1>2, <1>5 DEF Stage, Settled, Ours
<1> QED BY <1>3, <1>4, <1>5 DEF Counted, Stage

LEMMA GotCount ==
    ASSUME QueueInv, Counted, NEW rs, Got(rs)
    PROVE  Counted'
<1> DEFINE fresh == Deliveries(rs)
<1>1. /\ Types /\ jobs \in Seq(JobRecord) /\ jobs # <<>> /\ 1 \in DOMAIN jobs /\ jobs[1].calls = rs
      /\ Kind(1) = "got" /\ rs \in Seq(Calls) /\ rs # <<>> /\ Awaited = For(1) /\ For(1) \in Objects
      /\ \A k \in DOMAIN rs :
            rs[k] \in Calls /\ status[rs[k]] = "waiting" /\ object[rs[k]] = For(1)
      /\ DOMAIN rs = 1 .. Len(rs) /\ Len(rs) \in Nat \ {0} /\ 1 \in Places /\ Queue(1) = rs
  BY Running DEF Got
<1>2. /\ fresh \in Seq(JobRecord) /\ DOMAIN fresh = DOMAIN rs
      /\ \A m \in DOMAIN rs :
            /\ fresh[m].kind = "deliver" /\ Head(fresh[m].calls) = rs[m]
            /\ \A k \in DOMAIN fresh[m].calls : fresh[m].calls[k] = rs[m]
  BY <1>1, DeliveryJobs
<1>3. Moved(1, fresh) BY <1>1, <1>2, Popped DEF Got
<1> HIDE DEF fresh
<1>4. /\ UNCHANGED <<state, pending, stored, status, object, waiters, gap>>
      /\ state[For(1)] # "failed" => Attach({rs[i] : i \in DOMAIN rs}, For(1))
      /\ state[For(1)] = "failed" => UNCHANGED <<owner, attached>>
  BY <1>1 DEF Got
<1>5. /\ Len(jobs) \in Nat \ {0} /\ DOMAIN jobs = 1 .. Len(jobs) /\ DOMAIN jobs' = 1 .. Len(jobs')
      /\ \A i \in DOMAIN jobs' :
            \/ /\ i + 1 \in DOMAIN jobs /\ jobs'[i] = jobs[i + 1]
               /\ Kind(i)' = Kind(i + 1) /\ For(i)' = For(i + 1)
            \/ i >= Len(jobs) /\ \E m \in DOMAIN fresh : i = m + (Len(jobs) - 1) /\ jobs'[i] = fresh[m]
      /\ \A m \in DOMAIN fresh : /\ m + (Len(jobs) - 1) \in DOMAIN jobs'
                                 /\ jobs'[m + (Len(jobs) - 1)] = fresh[m]
  BY <1>3, <1>4, Advanced
<1>6. \A i \in DOMAIN jobs' :
         \/ /\ i + 1 \in DOMAIN jobs /\ i < Len(jobs) /\ jobs'[i].calls = jobs[i + 1].calls
            /\ Kind(i)' = Kind(i + 1) /\ For(i)' = For(i + 1)
         \/ /\ i >= Len(jobs) /\ Kind(i)' = "deliver" /\ For(i)' = For(1)
            /\ \A k \in DOMAIN jobs'[i].calls : \E m \in DOMAIN rs : jobs'[i].calls[k] = rs[m]
  BY <1>1, <1>2, <1>4, <1>5 DEF Kind, For
<1>7. state[For(1)] \in {"failed", "live"} /\ \A k \in DOMAIN rs : rs[k] \notin attached
  BY <1>1, NotMade DEF Counted, Counting
<1>8. Joins'
  <2>1. \A i \in DOMAIN jobs' : Kind(i)' = "join" => For(i)' = pending
    BY <1>6 DEF Counted, Joins
  <2>2. \A i, j \in DOMAIN jobs' : Kind(i)' = "join" /\ Kind(j)' = "store" => i < j
    BY <1>5, <1>6 DEF Counted, Joins
  <2> QED BY <1>4, <2>1, <2>2 DEF Joins
<1>9. Live' BY <1>4 DEF Counted, Live
<1>10. CASE state[For(1)] = "failed"
  <2>1. For(1) # stored BY <1>1, <1>10, NoneApart DEF Counted, Live
  <2>2. Stage'
    <3>1. \A m \in DOMAIN fresh : object'[Head(fresh[m].calls)] = For(1)
      BY <1>1, <1>2, <1>4
    <3> QED BY <1>1, <1>3, <1>4, <1>10, <2>1, <3>1, StageShifts
  <2>3. Attached' BY <1>4, <1>10 DEF Counted, Attached
  <2>4. Counting' BY <1>4, <1>6, <1>10 DEF Counted, Counting
  <2> QED BY <1>8, <1>9, <2>2, <2>3, <2>4 DEF Counted
<1>11. CASE state[For(1)] = "live"
  <2>1. For(1) = stored /\ stored # None BY <1>1, <1>11, NoneApart DEF Counted, Live
  <2>2. /\ attached' = attached \cup {rs[i] : i \in DOMAIN rs}
        /\ owner' = (IF owner = None THEN stored ELSE owner)
    BY <1>4, <1>11, <2>1 DEF Attach
  <2>3. Attached'
    <3>1. owner' = stored BY <1>1, <2>2 DEF Types, Counted, Attached
    <3>2. \A q \in attached' : object[q] = stored
      BY <1>1, <2>1, <2>2 DEF Counted, Attached
    <3> QED BY <1>4, <2>1, <3>1, <3>2 DEF Attached
  <2>4. \A i \in DOMAIN jobs : Ours(i) => Kind(i) \in {"got", "deliver"}
    <3>1. CASE Storing
      <4>1. PICK g \in DOMAIN jobs :
               \A i \in DOMAIN jobs : Ours(i) =>
                     /\ Kind(i) \in {"adopt", "got", "deliver"}
                     /\ Kind(i) = "adopt" => i < g
                     /\ Kind(i) = "got" => i >= g
        BY <3>1 DEF Storing
      <4>2. g = 1 BY <1>1, <1>5, <2>1, <4>1 DEF Ours
      <4> QED BY <1>5, <4>1, <4>2
    <3>2. CASE Joining BY <3>2 DEF Joining
    <3>3. CASE Settled BY <3>3 DEF Settled
    <3> QED BY <2>1, <3>1, <3>2, <3>3 DEF Counted, Stage
  <2>5. Stage'
    <3>1. Len(rs) \in DOMAIN fresh BY <1>1, <1>2
    <3>2. PICK d \in DOMAIN jobs' : d = Len(rs) + (Len(jobs) - 1) /\ jobs'[d] = fresh[Len(rs)]
      BY <1>5, <3>1
    <3>3. d >= Len(jobs) BY <1>1, <1>5, <3>2
    <3>4. Kind(d)' = "deliver" /\ For(d)' = stored BY <1>5, <1>6, <2>1, <3>3
    <3>5. \A i \in DOMAIN jobs' : For(i)' = stored =>
             Kind(i)' \in {"got", "deliver"} /\ (Kind(i)' = "got" => i < d)
      BY <1>5, <1>6, <2>4, <3>2, <3>3 DEF Ours
    <3> QED BY <1>4, <3>4, <3>5 DEF Stage, Joining, Ours
  <2>6. Counting'
    <3>1. ASSUME NEW i \in DOMAIN jobs', Kind(i)' \in {"adopt", "got"}
          PROVE  /\ state[For(i)'] # "disposed"
                 /\ \A k \in DOMAIN jobs'[i].calls : jobs'[i].calls[k] \notin attached'
      <4>1. /\ i + 1 \in DOMAIN jobs /\ jobs'[i].calls = jobs[i + 1].calls
            /\ Kind(i + 1) \in {"adopt", "got"} /\ For(i)' = For(i + 1)
        BY <1>6, <3>1
      <4>2. \A k \in DOMAIN jobs[i + 1].calls : jobs[i + 1].calls[k] \notin attached
        BY <4>1 DEF Counted, Counting
      <4>3. i + 1 \in Places /\ Queue(i + 1) = jobs[i + 1].calls /\ i + 1 # 1
        BY <1>5, <4>1 DEF Places, Queue
      <4>4. \A k \in DOMAIN jobs[i + 1].calls, m \in DOMAIN rs : jobs[i + 1].calls[k] # rs[m]
        BY <1>1, <4>3 DEF QueueInv, Placed
      <4>5. state[For(i + 1)] # "disposed" BY <4>1 DEF Counted, Counting
      <4> QED BY <2>2, <4>1, <4>2, <4>4, <4>5
    <3>2. \A i \in DOMAIN jobs' : Kind(i)' = "deliver" /\ state[For(i)'] = "live" =>
             \A k \in DOMAIN jobs'[i].calls : jobs'[i].calls[k] \in attached'
      BY <1>6, <2>2 DEF Counted, Counting
    <3> QED BY <1>4, <3>1, <3>2 DEF Counting
  <2> QED BY <1>8, <1>9, <2>3, <2>5, <2>6 DEF Counted
<1> QED BY <1>7, <1>10, <1>11

LEMMA DeliverCount ==
    ASSUME QueueInv, Counted, NEW r, Deliver(r)
    PROVE  Counted'
<1> DEFINE fresh == <<>>
<1>1. /\ Types /\ jobs \in Seq(JobRecord) /\ jobs # <<>> /\ 1 \in DOMAIN jobs /\ jobs[1].calls = <<r>>
      /\ Kind(1) = "deliver" /\ For(1) \in Objects
      /\ \A k \in DOMAIN <<r>> : <<r>>[k] \in Calls /\ object[<<r>>[k]] = For(1)
      /\ UNCHANGED <<state, pending, stored, owner, attached, object, waiters, gap>>
      /\ jobs' = Tail(jobs)
  BY Running DEF Deliver, collection
<1>2. r \in Calls /\ object[r] = For(1) /\ 1 \in DOMAIN <<r>> /\ <<r>>[1] = r BY <1>1
<1>3. Moved(1, fresh) BY <1>1, Dropped
<1>4. \A q \in Calls : q # r => status'[q] = status[q] BY <1>1, <1>2 DEF Deliver, Types
<1>5. DOMAIN fresh = {} OBVIOUS
<1> HIDE DEF fresh
<1>6. /\ Len(jobs) \in Nat \ {0} /\ DOMAIN jobs = 1 .. Len(jobs) /\ DOMAIN jobs' = 1 .. Len(jobs')
      /\ \A i \in DOMAIN jobs : i # 1 =>
            i - 1 \in DOMAIN jobs' /\ Kind(i - 1)' = Kind(i) /\ For(i - 1)' = For(i)
      /\ \A i \in DOMAIN jobs' :
            /\ i + 1 \in DOMAIN jobs /\ jobs'[i] = jobs[i + 1]
            /\ Kind(i)' = Kind(i + 1) /\ For(i)' = For(i + 1)
  BY <1>1, <1>3, <1>5, Advanced
<1>7. Stage'
  <2>1. CASE For(1) # stored
    <3>1. \A q \in attached : status'[q] = status[q]
      BY <1>1, <1>2, <1>4, <2>1 DEF Counted, Attached, Types
    <3> QED BY <1>1, <1>3, <1>5, <2>1, <3>1, StageShifts
  <2>2. CASE For(1) = stored
    <3>1. state[stored] = "live" /\ stored # None /\ r \in attached
      BY <1>1, <1>2, <2>2, NoneApart DEF Counted, Live, Counting
    <3>2. ~ Storing BY <1>1, <1>6, <2>2 DEF Storing, Ours
    <3>3. CASE Joining
      <4>1. PICK d \in DOMAIN jobs :
               /\ Kind(d) = "deliver" /\ Ours(d)
               /\ \A i \in DOMAIN jobs : Ours(i) =>
                     Kind(i) \in {"got", "deliver"} /\ (Kind(i) = "got" => i < d)
        BY <3>3 DEF Joining
      <4>2. CASE d = 1
        <5>1. \A i \in DOMAIN jobs' : For(i)' = stored => Kind(i)' = "deliver"
          BY <1>6, <4>1, <4>2 DEF Ours
        <5> QED BY <1>1, <3>1, <5>1 DEF Stage, Settled, Ours
      <4>3. CASE d # 1
        <5>1. PICK h \in DOMAIN jobs' : h = d - 1 /\ Kind(h)' = "deliver" /\ For(h)' = stored
          BY <1>6, <4>1, <4>3 DEF Ours
        <5>2. \A i \in DOMAIN jobs' : For(i)' = stored =>
                 Kind(i)' \in {"got", "deliver"} /\ (Kind(i)' = "got" => i < h)
          BY <1>6, <4>1, <5>1 DEF Ours
        <5> QED BY <1>1, <5>1, <5>2 DEF Stage, Joining, Ours
      <4> QED BY <4>2, <4>3
    <3>4. CASE Settled BY <1>1, <1>6, <3>4 DEF Stage, Settled, Ours
    <3> QED BY <3>1, <3>2, <3>3, <3>4 DEF Counted, Stage
  <2> QED BY <2>1, <2>2
<1>8. Attached' /\ Live' BY <1>1 DEF Counted, Attached, Live
<1>9. Joins' BY <1>1, <1>6 DEF Counted, Joins
<1>10. Counting' BY <1>1, <1>6 DEF Counted, Counting
<1> QED BY <1>7, <1>8, <1>9, <1>10 DEF Counted
\* The last reference that is held is given back only when the object is settled.
LEMMA LastReference ==
    ASSUME QueueInv, Counted, NEW r \in Calls, status[r] = "held", attached = {r}
    PROVE  /\ stored \in Objects /\ stored # None /\ owner = stored /\ pending = None
           /\ waiters = <<>>
           /\ \A i \in DOMAIN jobs : For(i) # stored
<1>1. /\ stored \in Objects /\ stored # None /\ owner = stored /\ object[r] = stored
      /\ pending = None /\ waiters = <<>>
  BY DEF QueueInv, Counted, Attached, Types, Making
<1>2. ASSUME NEW i \in DOMAIN jobs, For(i) = stored, Kind(i) = "deliver" PROVE FALSE
  <2>1. 1 \in DOMAIN jobs[i].calls /\ status[jobs[i].calls[1]] = "waiting" BY JobCalls
  <2>2. jobs[i].calls[1] \in attached
    BY <1>1, <1>2, <2>1 DEF Counted, Live, Counting
  <2> QED BY <2>1, <2>2
<1>3. ~ Storing BY DEF Storing
<1>4. ~ Joining BY <1>2 DEF Joining, Ours
<1>5. Settled BY <1>1, <1>3, <1>4 DEF Counted, Stage
<1> QED BY <1>1, <1>2, <1>5 DEF Settled, Ours

\* When the stored object is disposed and no call is still to be counted for it.
LEMMA DisposedCount ==
    ASSUME QueueInv, Counted, stored \in Objects, state' = [state EXCEPT ![stored] = "disposed"],
           stored' = None, attached' = {}, UNCHANGED <<pending, object, jobs>>,
           \A i \in DOMAIN jobs : Kind(i) \in {"adopt", "got"} => For(i) # stored
    PROVE  Counted'
<1>1. Types BY DEF QueueInv
<1>2. /\ state'[stored] = "disposed" /\ \A p \in Objects : p # stored => state'[p] = state[p]
  BY <1>1 DEF Types
<1>3. \A i \in DOMAIN jobs : Kind(i)' = Kind(i) /\ For(i)' = For(i) /\ For(i) \in Objects
  BY JobCalls DEF Kind, For
<1>4. \A p \in Objects : state'[p] # "live" BY <1>2 DEF Counted, Live
<1>5. \A i \in DOMAIN jobs' : Kind(i)' \in {"adopt", "got"} => state'[For(i)'] # "disposed"
  BY <1>2, <1>3 DEF Counted, Counting
<1>6. Stage' /\ Attached' /\ Live' /\ Counting'
  BY <1>3, <1>4, <1>5, NothingStoredNow
<1>7. Joins' BY <1>3 DEF Counted, Joins
<1> QED BY <1>6, <1>7 DEF Counted

LEMMA ReleaseCount ==
    ASSUME QueueInv, Counted, NEW r \in Calls, Release(r)
    PROVE  Counted'
<1>1. /\ Types /\ status[r] = "held" /\ UNCHANGED <<pending, object, jobs>>
      /\ \A q \in Calls : q # r => status'[q] = status[q]
  BY DEF QueueInv, Release, Types
<1>2. CASE attached = {r}
  <2>1. /\ stored \in Objects /\ owner = stored /\ \A i \in DOMAIN jobs : For(i) # stored
    BY <1>1, <1>2, LastReference
  <2>2. state' = [state EXCEPT ![stored] = "disposed"] /\ stored' = None /\ attached' = {}
    BY <1>2, <2>1 DEF Release, DisposeOwner
  <2> QED BY <1>1, <2>1, <2>2, DisposedCount
<1>3. CASE attached # {r}
  <2>1. attached' = attached \ {r} /\ UNCHANGED <<state, stored, owner>>
    BY <1>3 DEF Release
  <2>2. \A i \in DOMAIN jobs : Kind(i)' = Kind(i) /\ For(i)' = For(i) BY <1>1 DEF Kind, For
  <2>3. Stage'
    <3>1. CASE Storing
      <4>1. \A q \in attached' : status'[q] = "waiting" BY <1>1, <2>1, <3>1 DEF Storing, Types
      <4> QED BY <1>1, <2>1, <2>2, <3>1, <4>1 DEF Stage, Storing, Ours
    <3>2. CASE Joining BY <1>1, <2>1, <2>2, <3>2 DEF Stage, Joining, Ours
    <3>3. CASE Settled BY <1>1, <1>3, <2>1, <2>2, <3>3 DEF Stage, Settled, Ours
    <3> QED BY <2>1, <3>1, <3>2, <3>3 DEF Counted, Stage
  <2>4. Attached' /\ Live' BY <1>1, <2>1 DEF Counted, Attached, Live
  <2>5. Joins' BY <1>1, <2>2 DEF Counted, Joins
  <2>6. Counting'
    <3>1. \A i \in DOMAIN jobs : \A k \in DOMAIN jobs[i].calls : jobs[i].calls[k] # r
      BY <1>1, CountedStay
    <3> QED BY <1>1, <2>1, <2>2, <3>1 DEF Counted, Counting
  <2> QED BY <2>3, <2>4, <2>5, <2>6 DEF Counted
<1> QED BY <1>2, <1>3

LEMMA DisposeObjectCount ==
    ASSUME QueueInv, Counted, NEW r \in Calls, DisposeObject(r), ~ gap'
    PROVE  Counted'
<1>1. /\ Types /\ r \in attached /\ object[r] = stored /\ owner = stored /\ stored \in Objects
      /\ UNCHANGED <<pending, object, jobs>>
  BY DEF QueueInv, Types, Counted, Attached, DisposeObject
<1>2. state' = [state EXCEPT ![stored] = "disposed"] /\ stored' = None /\ attached' = {}
  BY <1>1 DEF DisposeObject, DisposeOwner
<1>3. ASSUME NEW i \in DOMAIN jobs, Kind(i) \in {"adopt", "got"} PROVE For(i) # stored
  <2>1. /\ 1 \in DOMAIN jobs[i].calls /\ jobs[i].calls[1] \in Calls
        /\ status[jobs[i].calls[1]] = "waiting" /\ object[jobs[i].calls[1]] = For(i)
    BY JobCalls
  <2>2. jobs[i].calls[1] \notin attached BY <1>3, <2>1 DEF Counted, Counting
  <2> QED BY <1>1, <2>1, <2>2 DEF DisposeObject
<1> QED BY <1>1, <1>2, <1>3, DisposedCount

LEMMA NextCount == CountInv /\ [Next]_vars => CountInv'
<1> SUFFICES ASSUME CountInv, [Next]_vars PROVE CountInv' OBVIOUS
<1>0. QueueInv /\ QueueInv' BY NextQueue DEF CountInv
<1> SUFFICES ASSUME ~ gap' PROVE Counted' BY <1>0 DEF CountInv
<1>1. ASSUME NEW r \in Calls, AcquireStored(r) \/ AcquirePending(r) \/ AcquireNew(r)
      PROVE  Counted'
  <2>1. ~ gap BY <1>1 DEF AcquireStored, AcquirePending, AcquireNew
  <2> QED BY <1>0, <1>1, <2>1, AcquireStoredCount, AcquirePendingCount, AcquireNewCount
      DEF CountInv
<1>2. ASSUME NEW outcome \in {"loaded", "failed"}, FactoryReturns(outcome) PROVE Counted'
  <2>1. ~ gap BY <1>2 DEF FactoryReturns
  <2> QED BY <1>0, <1>2, <2>1, FactoryReturnsCount DEF CountInv
<1>3. ASSUME RunJob PROVE Counted'
  <2>1. PICK rs : \/ Join(Head(rs)) \/ Adopt(Head(rs)) \/ Deliver(Head(rs))
                  \/ Store(rs) \/ StoreFails(rs) \/ Got(rs)
                  \/ \E q \in Calls : StoreAndAcquire(rs, q)
    BY <1>3 DEF RunJob
  <2>2. PICK r : r = Head(rs) OBVIOUS
  <2>3. Join(r) \/ Adopt(r) \/ Deliver(r) \/ Store(rs) \/ StoreFails(rs) \/ Got(rs)
    BY <2>1, <2>2 DEF StoreAndAcquire
  <2>4. ~ gap BY <2>3 DEF Join, Adopt, Deliver, Store, StoreFails, Got
  <2> QED BY <1>0, <2>3, <2>4, JoinCount, AdoptCount, DeliverCount, StoreCount,
             StoreFailsCount, GotCount DEF CountInv
<1>4. ASSUME NEW r \in Calls, Release(r) \/ DisposeObject(r) PROVE Counted'
  <2>1. ~ gap BY <1>4 DEF Release, DisposeObject
  <2> QED BY <1>0, <1>4, <2>1, ReleaseCount, DisposeObjectCount DEF CountInv
<1>5. CASE UNCHANGED vars
  <2>1. UNCHANGED <<state, pending, stored, owner, attached, status, object, jobs, gap>>
    BY <1>5 DEF vars, collection, calls
  <2>2. Counted BY <2>1 DEF CountInv
  <2>3. \A i : Kind(i)' = Kind(i) /\ For(i)' = For(i) BY <2>1 DEF Kind, For
  <2>4. Stage' /\ Attached' /\ Live'
    BY <2>1, <2>2, <2>3 DEF Counted, Stage, Storing, Joining, Settled, Ours, Attached, Live
  <2>5. Joins' /\ Counting' BY <2>1, <2>2, <2>3 DEF Counted, Joins, Counting
  <2> QED BY <2>4, <2>5 DEF Counted
<1> QED BY <1>1, <1>2, <1>3, <1>4, <1>5 DEF Next

LEMMA AlwaysCounted == Spec => []CountInv
BY InitCount, NextCount, PTL DEF Spec
-----------------------------------------------------------------------------
(* The properties. *)

\* A reference is counted on the object that it is to, and get would return that
\* object, unless a call fell into the gap (doAcquire, createReferences).
THEOREM CountedOnItsObjectHolds == Spec => []CountedOnItsObject
<1>1. CountInv => CountedOnItsObject
  <2> SUFFICES ASSUME CountInv, ~ gap, NEW r \in attached
               PROVE  object[r] = owner /\ owner = stored /\ state[owner] = "live"
    BY DEF CountedOnItsObject
  <2> QED BY DEF CountInv, Counted, Attached, Live
<1> QED BY <1>1, AlwaysCounted, PTL

\* At most one object is being made or alive, unless a call fell into the gap
\* (acquire, getOrCreateValue).
THEOREM OneObjectHolds == Spec => []OneObject
<1>1. CountInv => OneObject
  <2> DEFINE Present == {p \in Objects : state[p] \in {"loading", "loaded", "live"}}
             only == IF pending # None THEN pending ELSE stored
  <2> SUFFICES ASSUME CountInv, ~ gap PROVE Cardinality(Present) <= 1 BY DEF OneObject
  <2>1. ASSUME NEW p \in Present PROVE p = only
    <3>1. state[p] \in {"loading", "loaded"} => p = pending BY DEF CountInv, QueueInv, Making
    <3>2. state[p] = "live" => p = stored BY DEF CountInv, Counted, Live
    <3>3. pending # None => stored = None BY DEF CountInv, QueueInv, Types
    <3> QED BY <3>1, <3>2, <3>3, NoneApart
  <2>2. Present \subseteq {only} BY <2>1
  <2>3. IsFiniteSet({only}) /\ Cardinality({only}) = 1 BY FS_Singleton
  <2> HIDE DEF Present, only
  <2>4. Cardinality(Present) <= Cardinality({only}) BY <2>2, <2>3, FS_Subset
  <2> QED BY <2>3, <2>4
<1> QED BY <1>1, AlwaysCounted, PTL

\* Once every acquire is answered, an object that is alive is held by a client,
\* unless a call fell into the gap (Reference.dispose).
THEOREM NoLeakHolds == Spec => []NoLeak
<1>1. CountInv => NoLeak
  <2> SUFFICES ASSUME CountInv, ~ gap, jobs = <<>>, waiters = <<>>,
                      NEW p \in Objects, state[p] = "live"
               PROVE  \E r \in Calls : status[r] = "held" /\ object[r] = p
    BY DEF NoLeak
  <2>1. p = stored /\ stored # None BY NoneApart DEF CountInv, Counted, Live
  <2>2. Settled BY <2>1 DEF CountInv, Counted, Stage, Storing, Joining
  <2>3. PICK r \in attached : TRUE BY <2>2 DEF Settled
  <2>4. r \in Calls /\ status[r] \in {"waiting", "held"} /\ object[r] = p
    BY <2>1, <2>3 DEF CountInv, QueueInv, Types, Counted, Attached
  <2>5. status[r] # "waiting"
    <3>1. \A i \in Places : DOMAIN Queue(i) = {} BY DEF Places, Queue
    <3> QED BY <2>4, <3>1 DEF CountInv, QueueInv, Placed
  <2> QED BY <2>4, <2>5
<1> QED BY <1>1, AlwaysCounted, PTL

\* Giving back a reference disposes no object that another acquire waits for,
\* unless a call fell into the gap (Reference.dispose, acquire).
THEOREM PendingSparedHolds == Spec => PendingSpared
<1> DEFINE Spared == \A r \in Calls, p \in Objects :
        Release(r) /\ ~ gap /\ state[p] = "live" /\ state'[p] = "disposed"
            => Waiting(p) = {}
<1>1. CountInv /\ [Next]_vars => [Spared]_vars
  <2> SUFFICES ASSUME CountInv, NEW r \in Calls, NEW p \in Objects, Release(r), ~ gap,
                      state[p] = "live", state'[p] = "disposed",
                      NEW q \in Calls, status[q] = "waiting", object[q] = p
               PROVE  FALSE
    BY DEF Waiting
  <2>1. attached = {r} /\ status[r] = "held" BY DEF Release
  <2>2. /\ owner = stored /\ stored # None /\ waiters = <<>>
        /\ \A i \in DOMAIN jobs : For(i) # stored
    BY <2>1, LastReference DEF CountInv
  <2>3. p = stored BY DEF CountInv, Counted, Live
  <2>4. PICK i \in Places : \E k \in DOMAIN Queue(i) : Queue(i)[k] = q
    BY DEF CountInv, QueueInv, Placed
  <2>5. i # 0 BY <2>2, <2>4 DEF Queue
  <2>6. i \in DOMAIN jobs /\ Queue(i) = jobs[i].calls
    BY <2>5, LenProperties DEF CountInv, QueueInv, Types, Places, Queue
  <2>7. For(i) = p BY <2>4, <2>6, JobCalls DEF CountInv
  <2> QED BY <2>2, <2>3, <2>6, <2>7
<1> QED BY <1>1, AlwaysCounted, PTL DEF Spec, PendingSpared
=============================================================================
