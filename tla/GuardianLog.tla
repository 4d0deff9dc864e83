---------------------------- MODULE GuardianLog ----------------------------
(***************************************************************************)
(* The Guardian service: concurrent Lambda invocations of                  *)
(* guardian/lambda/src/handler.ts, each running createGuardian and         *)
(* validateAction of guardian/core/src/guardian.ts over the shared         *)
(* DynamoDB table of wal-dynamo.ts.                                        *)
(*                                                                         *)
(* A step of an invocation is what it does between two awaits.  The table  *)
(* is kept in order of arrival; readers sort it by timestamp.  A SHA-256   *)
(* over an entry's canonical text is modelled by the two parts of the text *)
(* that matter: the fresh entryId, by which it differs from every other    *)
(* entry's, and nextConsentNonce, by which it differs from its own entry's *)
(* text once stored.                                                       *)
(***************************************************************************)
EXTENDS GuardianDecision, Sequences, FiniteSets

CONSTANTS
    Invocations,       \* the Lambda instances
    Requests,          \* the requests callers send: [action, ctx]
    Configs,           \* the configurations a deployment may have:
                       \* [alpha, bounds, maxAge, key]
    ConsistentReads,   \* the table's scans return every entry written before them
    MaxClock,          \* bound: time
    MaxEntries,        \* bound: decisions emitted in a behaviour
    MaxFaults,         \* bound: lost invocations, refused writes, lost
                       \* acknowledgements and redeployments
    Genesis            \* GENESIS_HASH

ASSUME LogAssumption ==
    /\ MaxClock \in Nat /\ MaxEntries \in Nat /\ MaxFaults \in Nat
    /\ ConsistentReads \in BOOLEAN

\* What the schemas of config.ts let through; alpha is Undefined while the
\* deployment is uncalibrated.
ASSUME ConfigAssumption ==
    /\ Configs # {}
    /\ \A c \in Configs :
          /\ c.alpha # Undefined => c.alpha \in Nat /\ c.alpha > 1
          /\ c.bounds \in Bounds
          /\ c.maxAge \in Nat \ {0}

\* What consent.ts checks of a token itself (iat and exp are numbers), and how a
\* missing measurement reads.  The handler only asks that action and context be
\* there.
ASSUME RequestAssumption ==
    \A q \in Requests :
        /\ q.ctx.envelope \in Envelope \cup {Undefined}
        /\ q.ctx.counterfactual \in Envelope \cup {Undefined}
        /\ (q.ctx.token # Undefined /\ q.ctx.token.jws = "token") =>
              q.ctx.token.iat \in Int /\ q.ctx.token.exp \in Int

VARIABLES
    log,       \* the entries of the table, in order of arrival
    answers,   \* what callers have been told: [id, kind]
    clock,     \* Date.now()
    config,    \* the deployed configuration
    nextId,    \* the next entryId (randomUUID)
    pc,        \* where each invocation is
    request,   \* the request each invocation serves
    cfg,       \* the configuration it loaded
    scan,      \* the entries (by arrival) its first scan returned
    entry,     \* the entry it is building
    faults,    \* faults so far
    orderly    \* history: so far no two invocations overlapped, no two decided
               \* at the same time, and every scan returned the whole table

local == <<pc, request, cfg, scan, entry>>
vars == <<log, answers, clock, config, nextId, local, faults, orderly>>

Kinds == {"ALLOW", "DENY", "INDETERMINATE", "FORBID"}
Ids == 1 .. MaxEntries
-----------------------------------------------------------------------------
Init ==
    /\ log = <<>> /\ answers = {}
    /\ clock = 0
    /\ config \in Configs
    /\ nextId = 1
    /\ pc = [i \in Invocations |-> "idle"]
    /\ request = [i \in Invocations |-> Undefined]
    /\ cfg = [i \in Invocations |-> Undefined]
    /\ scan = [i \in Invocations |-> {}]
    /\ entry = [i \in Invocations |-> Undefined]
    /\ faults = 0
    /\ orderly = TRUE

Goto(i, label) == pc' = [pc EXCEPT ![i] = label]

\* The invocation is over and its local variables with it.
Finish(i) ==
    /\ Goto(i, "idle")
    /\ request' = [request EXCEPT ![i] = Undefined]
    /\ cfg' = [cfg EXCEPT ![i] = Undefined]
    /\ scan' = [scan EXCEPT ![i] = {}]
    /\ entry' = [entry EXCEPT ![i] = Undefined]

\* A scan returns entries of the table; an eventually consistent one may miss some.
Scans == IF ConsistentReads THEN {DOMAIN log} ELSE SUBSET DOMAIN log

\* The entries a scan returned, sorted by timestamp, end with one of these; the
\* order of equal timestamps is the table's own.
LastOf(seen) == {k \in seen : \A j \in seen : log[j].timestamp <= log[k].timestamp}

Token(req) == req.ctx.token

\* The nonce the caller put beside the token, whether or not the token holds.
\* (An empty one counts as missing, in the handler too.)
NonceOf(req) ==
    IF Token(req) # Undefined /\ Token(req).nonce # Undefined THEN {Token(req).nonce} ELSE {}

\* A POST /validate with an action and a context reaches the handler, which
\* loads the configuration as it is now.
Receive(i) ==
    /\ pc[i] = "idle"
    /\ nextId <= MaxEntries
    /\ \E q \in Requests : request' = [request EXCEPT ![i] = q]
    /\ cfg' = [cfg EXCEPT ![i] = config]
    /\ Goto(i, "nonces")
    /\ orderly' = (orderly /\ (\A j \in Invocations : pc[j] = "idle")
                           /\ \A k \in DOMAIN log : log[k].timestamp < clock)
    /\ UNCHANGED <<log, answers, clock, config, nextId, scan, entry, faults>>

\* handler: readAll.
ReadNonces(i) ==
    /\ pc[i] = "nonces"
    /\ \E seen \in Scans :
          /\ scan' = [scan EXCEPT ![i] = seen]
          /\ orderly' = (orderly /\ seen = DOMAIN log)
    /\ Goto(i, "decide")
    /\ UNCHANGED <<log, answers, clock, config, nextId, request, cfg, entry, faults>>

\* Seeded fault: only the actions allowed are remembered to have used a token.
AllowedNonces(i) ==
    UNION {NonceOf(log[k].request) : k \in {j \in scan[i] : log[j].kind = "ALLOW"}}

\* handler: the nonces of the recent entries, whatever their decision.
UsedNonces(i) ==
    UNION {NonceOf(log[k].request) :
             k \in {j \in scan[i] : log[j].timestamp >= clock - 2 * cfg[i].maxAge}}

\* What invocation i decides now.
Verdict(i) ==
    Decision(request[i].action, request[i].ctx, cfg[i], UsedNonces(i), clock)

\* validateAction: one clock reading and the decision, up to the first await of
\* emit.  Unless the answer is ALLOW, nextConsentNonce is a key with the value
\* undefined.
Decide(i) ==
    /\ pc[i] = "decide"
    /\ Verdict(i) # "throws"
    /\ nextId <= MaxEntries
    /\ entry' = [entry EXCEPT ![i] =
          [id |-> nextId, timestamp |-> clock, previous |-> Genesis, hash |-> Genesis,
           request |-> request[i], kind |-> Verdict(i),
           nextNonce |-> IF Verdict(i) = "ALLOW" THEN "uuid" ELSE "undefined",
           alpha |-> cfg[i].alpha, bounds |-> cfg[i].bounds]]
    /\ nextId' = nextId + 1
    /\ Goto(i, "last")
    /\ UNCHANGED <<log, answers, clock, config, request, cfg, scan, faults, orderly>>

\* validateAction throws before emit: HTTP 500, nothing recorded.
DecideThrows(i) ==
    /\ pc[i] = "decide"
    /\ Verdict(i) = "throws"
    /\ Finish(i)
    /\ UNCHANGED <<log, answers, clock, config, nextId, faults, orderly>>

\* hashCanonical of an entry's canonical text.
Digest(e) == <<e.id, e.nextNonce>>

\* finalizeEntry: the entry of i links to a predecessor and gets its hash.
Finalize(i, previous) ==
    entry' = [entry EXCEPT ![i].previous = previous, ![i].hash = Digest(entry[i])]

\* Seeded fault: the wrong one of the last entry's two hashes.
PreviousOf(k) == log[k].previous

\* nextPreviousHash: what the entry after the last one links to.
HashOf(k) == log[k].hash

\* Seeded fault: an empty table has no hash to link to.
ReadLastOrUndefined(i) ==
    /\ pc[i] = "last"
    /\ \E seen \in Scans :
          /\ \/ LastOf(seen) = {} /\ Finalize(i, Undefined)
             \/ \E k \in LastOf(seen) : Finalize(i, HashOf(k))
          /\ orderly' = (orderly /\ seen = DOMAIN log)
    /\ Goto(i, "append")
    /\ UNCHANGED <<log, answers, clock, config, nextId, request, cfg, scan, faults>>

\* emit: nextPreviousHash scans the table again, and the entry is finalized.
ReadLast(i) ==
    /\ pc[i] = "last"
    /\ \E seen \in Scans :
          /\ \/ LastOf(seen) = {} /\ Finalize(i, Genesis)
             \/ \E k \in LastOf(seen) : Finalize(i, HashOf(k))
          /\ orderly' = (orderly /\ seen = DOMAIN log)
    /\ Goto(i, "append")
    /\ UNCHANGED <<log, answers, clock, config, nextId, request, cfg, scan, faults>>

InTable(id) == \E k \in DOMAIN log : log[k].id = id

\* What the document client stores of an entry (removeUndefinedValues).
Stored(e) == [e EXCEPT !.nextNonce = IF @ = "undefined" THEN "absent" ELSE @]

\* DynamoWalStore.append: the conditional put writes the entry unless it is there.
Put(i) ==
    log' = IF InTable(entry[i].id) THEN log ELSE Append(log, Stored(entry[i]))

AppendEntry(i) ==
    /\ pc[i] = "append"
    /\ Put(i)
    /\ Goto(i, "reply")
    /\ UNCHANGED <<answers, clock, config, nextId, request, cfg, scan, entry, faults, orderly>>

\* The write reached the table and its acknowledgement is lost: the client
\* library sends the put again.
AppendUnacknowledged(i) ==
    /\ pc[i] = "append"
    /\ faults < MaxFaults
    /\ faults' = faults + 1
    /\ Put(i)
    /\ UNCHANGED <<answers, clock, config, nextId, local, orderly>>

\* Seeded fault: a failed write is logged and the decision returned all the same.
AppendFailsSilently(i) ==
    /\ pc[i] = "append"
    /\ faults < MaxFaults
    /\ faults' = faults + 1
    /\ Goto(i, "reply")
    /\ UNCHANGED <<log, answers, clock, config, nextId, request, cfg, scan, entry, orderly>>

\* Signing or writing fails: HTTP 500.
AppendFails(i) ==
    /\ pc[i] = "append"
    /\ faults < MaxFaults
    /\ faults' = faults + 1
    /\ Finish(i)
    /\ UNCHANGED <<log, answers, clock, config, nextId, orderly>>

\* The caller gets the decision.
Reply(i) ==
    /\ pc[i] = "reply"
    /\ answers' = answers \cup {[id |-> entry[i].id, kind |-> entry[i].kind]}
    /\ Finish(i)
    /\ UNCHANGED <<log, clock, config, nextId, faults, orderly>>

\* The instance is stopped (time-out, deployment) at any point.
Lost(i) ==
    /\ pc[i] # "idle"
    /\ faults < MaxFaults
    /\ faults' = faults + 1
    /\ Finish(i)
    /\ UNCHANGED <<log, answers, clock, config, nextId, orderly>>

Tick ==
    /\ clock < MaxClock
    /\ clock' = clock + 1
    /\ UNCHANGED <<log, answers, config, nextId, local, faults, orderly>>

\* The deployment gets another configuration: invocations from now on load it.
Redeploy ==
    /\ faults < MaxFaults
    /\ faults' = faults + 1
    /\ config' \in Configs \ {config}
    /\ UNCHANGED <<log, answers, clock, nextId, local, orderly>>

Invocation(i) ==
    \/ Receive(i) \/ ReadNonces(i) \/ Decide(i) \/ DecideThrows(i) \/ ReadLast(i)
    \/ AppendEntry(i) \/ AppendUnacknowledged(i) \/ AppendFails(i)
    \/ Reply(i) \/ Lost(i)

Next == Tick \/ Redeploy \/ \E i \in Invocations : Invocation(i)

Spec == Init /\ [][Next]_vars
-----------------------------------------------------------------------------
(* Properties. *)

NonceForms == {"uuid", "undefined", "absent"}
Hashes == (Ids \X NonceForms) \cup {Genesis}

EntryRecord == [id : Ids, timestamp : Nat, previous : Hashes, hash : Hashes,
                request : Requests, kind : Kinds, nextNonce : NonceForms,
                alpha : {c.alpha : c \in Configs}, bounds : {c.bounds : c \in Configs}]

\* Every variable has its type, and an invocation has an entry from its
\* decision on.
TypeOK ==
    /\ log \in Seq(EntryRecord)
    /\ answers \subseteq [id : Ids, kind : Kinds]
    /\ clock \in Nat /\ faults \in Nat
    /\ config \in Configs
    /\ nextId \in 1 .. MaxEntries + 1
    /\ pc \in [Invocations -> {"idle", "nonces", "decide", "last", "append", "reply"}]
    /\ request \in [Invocations -> Requests \cup {Undefined}]
    /\ cfg \in [Invocations -> Configs \cup {Undefined}]
    /\ scan \in [Invocations -> SUBSET DOMAIN log]
    /\ entry \in [Invocations -> EntryRecord \cup {Undefined}]
    /\ \A i \in Invocations :
          /\ pc[i] # "idle" => request[i] \in Requests /\ cfg[i] \in Configs
          /\ pc[i] \in {"last", "append", "reply"} => entry[i] \in EntryRecord
    /\ orderly \in BOOLEAN

\* The entries a verifier reads before entry k: earlier by timestamp, and by
\* arrival among equals.
Before(k) ==
    {j \in DOMAIN log : \/ log[j].timestamp < log[k].timestamp
                        \/ log[j].timestamp = log[k].timestamp /\ j < k}

\* verifyChain, the first check of entry k: it links to the entry before it.
Linked(k) ==
    IF Before(k) = {} THEN log[k].previous = Genesis
    ELSE \E j \in Before(k) : Before(k) = Before(j) \cup {j} /\ log[k].previous = log[j].hash

\* verifyChain, the second check: its hash is that of the entry as it was read.
Recomputes(k) == log[k].hash = Digest(log[k])

\* "Each entry's previousHash must match the currentHash of the entry before it"
\* (wal.ts).
ChainLinks == \A k \in DOMAIN log : Linked(k)

\* verifyChain, as far as it can succeed.  The links are whole as long as invocations
\* came one at a time, at distinct times, over scans that return the whole table --
\* through crashes, refused writes, repeated puts and new configurations.  The hash of
\* an entry that allows is always the one verifyChain computes again.  (That of any
\* other entry never is: emit hashes nextConsentNonce with the value undefined, and the
\* document client drops the key before it stores the entry.)
OrderlyChainVerifies ==
    \A k \in DOMAIN log :
        /\ orderly => Linked(k)
        /\ log[k].kind = "ALLOW" => Recomputes(k)

\* The request of entry k needed consent and was not refused.
Accepted(k) == NeedsConsent(log[k].request.action) /\ log[k].kind # "DENY"

\* A consent token opens one decision, although the service forgets nonces after
\* twice the longest life of a token and that life may be configured anew: with
\* orderly invocations no entry accepts a nonce that an earlier entry carries,
\* whatever became of the earlier one, unless the issuer dated the token later
\* than that entry.  (The exception is real: nothing checks iat against the clock, so
\* a token dated ahead outlives the window of nonces, which handler.ts says cannot be.)
NonceUsedOnce ==
    orderly => \A j, k \in DOMAIN log :
        (j < k /\ Accepted(k) /\ Token(log[k].request).iat <= log[j].timestamp) =>
            NonceOf(log[j].request) \cap NonceOf(log[k].request) = {}

\* On dimension d, env is no worse than other as far as both are measured.
NoWorse(d, env, other) ==
    (env[d] # Undefined /\ other[d] # Undefined) =>
        IF d \in {"stopability", "authorship"} THEN env[d] >= other[d] ELSE env[d] <= other[d]

\* On every dimension the request measures, whoever is allowed to act leaves the
\* host at least the agency the entry records as the bound in effect and, when
\* the system calls the action the more loving choice, no less of it than doing
\* nothing would.  (A dimension the request leaves out passes every comparison.)
AllowPreservesAgency ==
    \A k \in DOMAIN log : log[k].kind = "ALLOW" =>
        LET ctx == log[k].request.ctx
        IN  \A d \in Dimensions :
              /\ NoWorse(d, ctx.envelope, log[k].bounds)
              /\ (/\ ctx.counterfactual # Undefined
                  /\ ctx.loveScore # Undefined /\ ctx.counterfactualLove # Undefined
                  /\ ctx.loveScore > ctx.counterfactualLove) =>
                    NoWorse(d, ctx.envelope, ctx.counterfactual)

\* The service implements the write-ahead log: no answer before its record, no
\* record changed, one record per decision.
Abstract == INSTANCE WriteAheadLog WITH
    recorded <- {[id |-> log[k].id, kind |-> log[k].kind] : k \in DOMAIN log},
    answered <- answers

ImplementsWriteAheadLog == Abstract!Spec
=============================================================================
