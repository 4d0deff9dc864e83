------------------------- MODULE ReferenceCollection -------------------------
(***************************************************************************)
(* The shared objects of a ReferenceCollection, for one key (keys share    *)
(* nothing): packages/core/src/common/reference.ts over disposable.ts.     *)
(* MonacoTextModelService hands out every editor model this way.           *)
(*                                                                         *)
(* acquire is asynchronous: between its awaits the event loop runs other   *)
(* callbacks.  jobs is the queue of promise reactions that acquires have   *)
(* pending.  Clients call in between any two of them; reactions that one   *)
(* promise queues at once, with nothing in between, are one job.           *)
(***************************************************************************)
EXTENDS Naturals, Sequences, FiniteSets, SequencesExt

CONSTANTS MaxAcquires   \* bound: calls of acquire

ASSUME ReferenceAssumption == MaxAcquires \in Nat

Calls == 1..MaxAcquires     \* calls of acquire, and the references they return
Objects == 1..MaxAcquires   \* calls of the factory, and what they return
None == 0

VARIABLES
    state,      \* what has become of each object
    pending,    \* pendingValues
    stored,     \* _values
    owner,      \* references: the object whose DisposableCollection it is
    attached,   \* what that collection holds
    status,     \* of each call of acquire
    object,     \* what the call returns, or waits for
    waiters,    \* calls registered on the pending promise, its creator first
    jobs,       \* promise reactions still to run
    gap         \* history: a call of acquire, or the disposal of an object by
                \* a client, fell between the return of a factory and the
                \* moment its object is counted for the calls it was made for

collection == <<pending, stored, owner, attached>>
calls == <<status, object, waiters, jobs, gap>>
vars == <<state, collection, calls>>

Job(kind, rs) == [kind |-> kind, calls |-> rs]
Deliveries(rs) == [i \in DOMAIN rs |-> Job("deliver", <<rs[i]>>)]

Init ==
    /\ state = [p \in Objects |-> "absent"]
    /\ pending = None /\ stored = None /\ owner = None /\ attached = {}
    /\ status = [r \in Calls |-> "free"]
    /\ object = [r \in Calls |-> None]
    /\ waiters = <<>> /\ jobs = <<>>
    /\ gap = FALSE

(* Seeded fault: the reference is not pushed on the collection. *)
AttachNothing(rs, p) ==
    /\ attached' = attached
    /\ owner' = IF owner = None THEN p ELSE owner

(* doAcquire: the references join the collection that the key has, or one  *)
(* made for this object.                                                   *)
Attach(rs, p) ==
    /\ attached' = attached \cup rs
    /\ owner' = IF owner = None THEN p ELSE owner

-----------------------------------------------------------------------------
(* acquire *)

(* The calls are alike: the next one takes the least number. *)
Calling(r) ==
    /\ status[r] = "free" /\ \A q \in Calls : status[q] = "free" => r <= q
    /\ status' = [status EXCEPT ![r] = "waiting"]

(* Seeded fault: the reference is made after an await. *)
AcquireStoredLater(r) ==
    /\ Calling(r) /\ stored # None
    /\ object' = [object EXCEPT ![r] = stored]
    /\ jobs' = Append(jobs, Job("got", <<r>>))
    /\ UNCHANGED <<state, collection, waiters, gap>>

AcquireStored(r) ==
    /\ Calling(r) /\ stored # None
    /\ object' = [object EXCEPT ![r] = stored]
    /\ Attach({r}, stored)
    /\ jobs' = Append(jobs, Job("deliver", <<r>>))
    /\ UNCHANGED <<state, pending, stored, waiters, gap>>

(* `return existing' in an async function: existing.then is called by a job *)
AcquirePending(r) ==
    /\ Calling(r) /\ stored = None /\ pending # None
    /\ object' = [object EXCEPT ![r] = pending]
    /\ jobs' = Append(jobs, Job("join", <<r>>))
    /\ gap' = (gap \/ state[pending] # "loading")
    /\ UNCHANGED <<state, collection, waiters>>

(* Seeded fault: pendingValues is not looked at. *)
AcquireNewAlways(r) ==
    /\ Calling(r) /\ stored = None
    /\ \E p \in Objects :
        /\ state[p] = "absent" /\ \A q \in Objects : state[q] = "absent" => p <= q
        /\ state' = [state EXCEPT ![p] = "loading"]
        /\ pending' = p
        /\ object' = [object EXCEPT ![r] = p]
    /\ waiters' = <<r>>
    /\ UNCHANGED <<stored, owner, attached, jobs, gap>>

AcquireNew(r) ==
    /\ Calling(r) /\ stored = None /\ pending = None
    /\ \E p \in Objects :
        /\ state[p] = "absent" /\ \A q \in Objects : state[q] = "absent" => p <= q
        /\ state' = [state EXCEPT ![p] = "loading"]
        /\ pending' = p
        /\ object' = [object EXCEPT ![r] = p]
    /\ waiters' = <<r>>
    /\ UNCHANGED <<stored, owner, attached, jobs, gap>>

(* The promise of the factory settles. *)
FactoryReturns(outcome) ==
    /\ pending # None /\ state[pending] = "loading"
    /\ state' = [state EXCEPT ![pending] = outcome]
    /\ jobs' = Append(jobs, Job("store", waiters))
    /\ waiters' = <<>>
    /\ UNCHANGED <<collection, status, object, gap>>

-----------------------------------------------------------------------------
(* jobs *)

Runs(kind, rs) == jobs # <<>> /\ Head(jobs) = Job(kind, rs)
Awaited == object[Head(Head(jobs).calls)]

Join(r) ==
    /\ Runs("join", <<r>>)
    /\ IF state[Awaited] = "loading"
       THEN waiters' = Append(waiters, r) /\ jobs' = Tail(jobs)
       ELSE waiters' = waiters /\ jobs' = Append(Tail(jobs), Job("adopt", <<r>>))
    /\ UNCHANGED <<state, collection, status, object, gap>>

(* The promise that getOrCreateValue returned to a late call is resolved. *)
Adopt(r) ==
    /\ Runs("adopt", <<r>>)
    /\ jobs' = Append(Tail(jobs), Job("got", <<r>>))
    /\ UNCHANGED <<state, collection, status, object, waiters, gap>>

(* Seeded fault: the finally is missing. *)
StoredStillPending(rs, outcome) ==
    /\ Runs("store", rs) /\ state[Awaited] = outcome
    /\ pending' = pending

(* After `await pending', for its creator; the promises returned to the    *)
(* calls that wait are resolved with it.                                   *)
Stored(rs, outcome) ==
    /\ Runs("store", rs) /\ state[Awaited] = outcome
    /\ pending' = None

Store(rs) ==
    /\ Stored(rs, "loaded")
    /\ state' = [state EXCEPT ![Awaited] = "live"]
    /\ stored' = Awaited
    /\ jobs' = Append(Tail(jobs), Job("got", rs))
    /\ UNCHANGED <<owner, attached, status, object, waiters, gap>>

(* The same, when a listener of onDidCreate calls acquire. *)
StoreAndAcquire(rs, q) ==
    /\ Stored(rs, "loaded")
    /\ state' = [state EXCEPT ![Awaited] = "live"]
    /\ stored' = Awaited
    /\ Calling(q) /\ object' = [object EXCEPT ![q] = Awaited]
    /\ Attach({q}, Awaited)
    /\ jobs' = Tail(jobs) \o <<Job("deliver", <<q>>), Job("got", rs)>>
    /\ gap' = TRUE
    /\ UNCHANGED waiters

(* Seeded fault: only the call that made the object hears of its failure. *)
StoreFailsOnce(rs) ==
    /\ Stored(rs, "failed")
    /\ jobs' = Append(Tail(jobs), Job("got", <<Head(rs)>>))
    /\ UNCHANGED <<state, stored, owner, attached, status, object, waiters, gap>>

StoreFails(rs) ==
    /\ Stored(rs, "failed")
    /\ jobs' = Append(Tail(jobs), Job("got", rs))
    /\ UNCHANGED <<state, stored, owner, attached, status, object, waiters, gap>>

(* After `await this.getOrCreateValue'. *)
Got(rs) ==
    /\ Runs("got", rs)
    /\ IF state[Awaited] = "failed"
       THEN UNCHANGED <<owner, attached>>
       ELSE Attach({rs[i] : i \in DOMAIN rs}, Awaited)
    /\ jobs' = Tail(jobs) \o Deliveries(rs)
    /\ UNCHANGED <<state, pending, stored, status, object, waiters, gap>>

Deliver(r) ==
    /\ Runs("deliver", <<r>>)
    /\ status' = [status EXCEPT ![r] = IF state[Awaited] = "failed" THEN "refused" ELSE "held"]
    /\ jobs' = Tail(jobs)
    /\ UNCHANGED <<state, collection, object, waiters, gap>>

-----------------------------------------------------------------------------
(* dispose *)

(* Seeded fault: the value stays in the map. *)
DisposeKeeping(p) ==
    /\ state' = [state EXCEPT ![p] = "disposed"]
    /\ stored' = stored /\ owner' = None /\ attached' = {}

(* The wrapped dispose of an object: it purges the key and its collection. *)
DisposeOwner(p) ==
    /\ state' = [state EXCEPT ![p] = "disposed"]
    /\ stored' = None /\ owner' = None /\ attached' = {}

(* Reference.dispose: the last one takes the object with it. *)
Release(r) ==
    /\ status[r] = "held"
    /\ status' = [status EXCEPT ![r] = "released"]
    /\ IF attached = {r}
       THEN DisposeOwner(owner)
       ELSE attached' = attached \ {r} /\ UNCHANGED <<state, stored, owner>>
    /\ UNCHANGED <<pending, object, waiters, jobs, gap>>

(* A client disposes the object of its reference.  An object that owns no  *)
(* collection has its own dispose still.                                   *)
DisposeObject(r) ==
    /\ status[r] = "held" /\ r \in attached /\ state[object[r]] = "live"
    /\ IF owner = object[r]
       THEN DisposeOwner(owner)
       ELSE state' = [state EXCEPT ![object[r]] = "disposed"] /\ UNCHANGED <<stored, owner, attached>>
    /\ gap' = (gap \/ \E q \in Calls \ attached : status[q] = "waiting" /\ object[q] = object[r])
    /\ UNCHANGED <<pending, status, object, waiters, jobs>>

-----------------------------------------------------------------------------
RunJob ==
    /\ jobs # <<>>
    /\ LET rs == Head(jobs).calls IN
        \/ Join(Head(rs)) \/ Adopt(Head(rs)) \/ Deliver(Head(rs))
        \/ Store(rs) \/ StoreFails(rs) \/ Got(rs)
        \/ \E q \in Calls : StoreAndAcquire(rs, q)

Next ==
    \/ \E r \in Calls : AcquireStored(r) \/ AcquirePending(r) \/ AcquireNew(r)
    \/ \E outcome \in {"loaded", "failed"} : FactoryReturns(outcome)
    \/ RunJob
    \/ \E r \in Calls : Release(r) \/ DisposeObject(r)

Spec == Init /\ [][Next]_vars

(* The event loop runs its jobs, and a factory returns in the end. *)
Fairness ==
    /\ WF_vars(RunJob)
    /\ WF_vars(\E outcome \in {"loaded", "failed"} : FactoryReturns(outcome))
FairSpec == Spec /\ Fairness

-----------------------------------------------------------------------------
Waiting(p) == {r \in Calls : status[r] = "waiting" /\ object[r] = p}

(* The calls that wait on the factory's promise, and those of each job. *)
Queue(i) == IF i = 0 THEN waiters ELSE jobs[i].calls
Places == 0 .. Len(jobs)

(* The maps of the collection agree: a pending promise and a stored value  *)
(* exclude each other, a key has references only while they are kept in    *)
(* its collection, and each waiting call is queued exactly once, on the    *)
(* promise or among the jobs (acquire, getOrCreateValue).                  *)
TypeOK ==
    /\ state \in [Objects -> {"absent", "loading", "loaded", "failed", "live", "disposed"}]
    /\ {pending, stored, owner} \subseteq Objects \cup {None}
    /\ pending # None => stored = None /\ state[pending] \in {"loading", "loaded", "failed"}
    /\ owner = None <=> attached = {}
    /\ attached \subseteq {r \in Calls : status[r] \in {"waiting", "held"}}
    /\ status \in [Calls -> {"free", "waiting", "held", "released", "refused"}]
    /\ object \in [Calls -> Objects \cup {None}]
    /\ waiters \in Seq(Calls) /\ gap \in BOOLEAN
    /\ jobs \in Seq([kind : {"join", "adopt", "store", "got", "deliver"},
                     calls : Seq(Calls) \ {<<>>}])
    /\ {r \in Calls : status[r] = "waiting"} = UNION {ToSet(Queue(i)) : i \in Places}
    /\ \A i, j \in Places : \A k \in DOMAIN Queue(i), l \in DOMAIN Queue(j) :
          Queue(i)[k] = Queue(j)[l] => i = j /\ k = l

(* A reference is to an object that is alive and that get would return,    *)
(* and the collection that counts it is that object's own: otherwise the   *)
(* last reference disposes another object than the one it was given        *)
(* (doAcquire, createReferences).                                          *)
CountedOnItsObject ==
    ~ gap => \A r \in attached :
        object[r] = owner /\ owner = stored /\ state[owner] = "live"

(* Two editors of one file share one model: at most one object of the key  *)
(* is being made or alive at any time (acquire, getOrCreateValue).         *)
OneObject ==
    ~ gap => Cardinality({p \in Objects : state[p] \in {"loading", "loaded", "live"}}) <= 1

(* Nothing is kept for nobody: once every acquire has had its answer, an   *)
(* object that is alive is held by a client (Reference.dispose).           *)
NoLeak ==
    ~ gap /\ jobs = <<>> /\ waiters = <<>> =>
        \A p \in Objects : state[p] = "live" =>
            \E r \in Calls : status[r] = "held" /\ object[r] = p

(* Giving back one reference does not dispose an object that another      *)
(* acquire is waiting for (reference.spec.ts, line 124), unless a call     *)
(* fell into the gap between the return of the factory and its answer.     *)
PendingSpared ==
    [][\A r \in Calls, p \in Objects :
        Release(r) /\ ~ gap /\ state[p] = "live" /\ state'[p] = "disposed"
            => Waiting(p) = {}]_vars

(* Every acquire is answered, also when the factory of the object it waits *)
(* for fails or the object is disposed before.                             *)
AcquireSettles ==
    \A r \in Calls : status[r] = "waiting" ~> status[r] \in {"held", "released", "refused"}
=============================================================================
