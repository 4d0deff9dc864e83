# A verification project for Teacher

Teacher is a learning workbench: a fork of Eclipse Theia with a student's
record, agents that act on the student's code, and the Guardian, a service that
decides whether an agent may act. This directory holds TLA+ models of the parts
where the order of events matters, TLC runs over small instances of them, and
TLAPS proofs of what matters most.

Contents: the inventory of the system, the plan, what each module models, what
each run shows, what is proved, and what is not modelled.

## The system

The product's own code is in `packages/teacher-*` and `guardian`. It runs on
Theia, whose packages are in the same repository; of those the parts are modelled
that carry the product's calls and hold the student's files.

| Part | State | Operations | Hard behaviour | What makes it correct |
|---|---|---|---|---|
| Progress store (`teacher-core/src/node/progress-service.ts`) | two JSON files and a lock file in `~/.teacher/progress`, shared by every window's backend process | record a lesson's start, its completion, a practice | interleaving of processes, a lock that times out, death between two files, reads that fail | exclusive updates, none lost, none counted twice, nothing but a failed read resets the record, every call returns |
| Guardian decision (`guardian/core`: consent, Non-Supremacy, Love Invariant) | none | one decision on one proposed action | order of checks, dimensions that count in opposite directions, fields the request leaves out | what is allowed preserves agency |
| Guardian service (`guardian/core/src/guardian.ts`, `wal.ts`, `guardian/lambda`) | the DynamoDB table of entries, a hash chain | `POST /validate` | concurrent invocations, eventually consistent scans, lost acknowledgements, crashes, redeployment | no answer without its record, the chain verifies, a token opens one decision |
| Agent session (`teacher-ui/src/browser/agent-session-manager.ts`, `auto-cap-middleware.ts`) | action history, checkpoints, plan, sessionStorage copy, call counter | record, checkpoint, rewind, undo, clear, reload, plan steps | listeners that call back in the middle of a recording, failing writes, indices into a history that shrinks | checkpoints describe the history, a reload restores it, the cap cannot be escaped, a rewind truncates |
| Checkpoints and ghost timeline (`teacher-core/src/browser/checkpoint`, `ghost-timeline`) | clips, at most 50 editor snapshots | add, mute, unmute clips; create, prune, rewind | a rewind makes a clip, which makes a checkpoint | newest first, manual ones pruned last, what a rewind overwrites can be restored |
| Orchestrator (`teacher-orchestrator.ts`) | timers, XP and lesson sequences | routes friction, handoffs, rewinds and lessons | timers that outlive what set them | the pulse ends idle; a lesson is recorded once |
| Pulse and notification orbit | pulse state; five notifications | set, flash; add, read, dismiss, expire | a timer restoring a prior state that was itself temporary | a flash ends; the oldest notification is evicted with its timer |
| Student friction | active frictions, two timers, cooldowns | record keystrokes, undo, errors, tests | timers against late activity | no friction after the session stopped; cooldowns hold |
| Teachable moments, spiral review | encountered and dismissed concepts | encounter, dismiss, suggest | two copies of "dismissed"; a per-session cap | the copies agree; the cap holds |
| Front-end connection and remote calls (`core`: `ws-connection-source.ts`, `websocket-frontend-connection-service.ts`, `rpc-protocol.ts`, `channel.ts`, `service-connection-provider.ts`) | sockets, the connection they serve, write buffers, close timers; pending requests by id | connect, reconnect, break; call, cancel, answer | sockets that break at any moment, events of two sockets in the wrong order, ids that start again | both sides mean the same connection, an answer settles its own call, every call is settled |
| Editor models and file resources (`monaco-editor-model.ts`, `file-resource.ts`, `file-service.ts`, `disk-file-system-provider.ts`) | text, changes not yet saved, versions of the file | type, undo, save, revert; watch, sync | a save or a sync is awaited while the user types and others write the file, also between the read of its text and its stat | incremental saves fit the file, a clean editor shows the file, no edit is lost |
| Reference collections (`reference.ts`, `disposable.ts`) | pending and stored objects, their references | acquire, release, dispose | an acquire awaits its object while others release it | one object at a time, disposed with its last reference and not before |
| Agent handoff, message queue | queue, in-flight messages | hand off, send, drain | re-entrant dispatch | order, no loss, bounded queue |
| Agent mode | mode, lock, denylist | cycle, set, lock, check | batch checks | denylist first; a locked mode stays |
| Profile, gamification, streaks, milestones | JSON files | record a session, add XP, unlock | read, await, write | no lost update; levels follow XP |
| Skill engine, ASI bridge, model bootstrap | skills, workflows, HTTP clients | run a workflow, post with retry | failing steps, duplicated posts | a failed step does not feed the next |
| Assessment, curriculum, templates, training data, redactor, infrastructure, UI | texts and files | | none of its own | |

How they interact: lesson commands call the orchestrator, which awaits the
progress store and gamification over a path of the front-end connection and then
adds a clip to the timeline. Checkpoints read and write the texts of editor
models, which their editors share through a reference collection. Every change of
the timeline makes the checkpoint service take a checkpoint. A rewind fires an
event the orchestrator answers with another clip. The session manager fires an
event in the middle of `recordAction`; the auto-cap middleware answers by
creating a checkpoint in the same manager. The Guardian is called over HTTP and
shares nothing but its table.

## The plan

In the order of what the student stands to lose:

1. `ProgressStore`, with proofs: the record of the student, the system's only
   durable shared state. Done.
2. `GuardianDecision`, `WriteAheadLog`, `GuardianLog`, with proofs: the decision
   as operators, the promise as an abstract specification, the service refining
   it. Done.
3. `AgentSession` and `CheckpointTimeline`, with proofs. Done.
4. `FrontendConnection` and `RpcProtocol`, composed by `Messaging`, which refines
   `RemoteCall`, with proofs: every service of the product is called this way.
   Done.
5. `EditorModel` and `ReferenceCollection`, with proofs: the student's files.
   Done, for one file and one key.
6. Left: the pulse with the orchestrator's timers; friction timers; the profile
   service (read, await, write, without a lock); requests from the back end to
   the front end.

## The modules

**ProgressStore** models `progress-service.ts`. A caller is one running
`record...` call in a process of its own; a step is one file-system operation,
that is, what happens between two awaits. `pc` follows the code: `wait`
(the loop in `acquireLock`), `unlink` and `retry` (after the time-out), `load`,
`open` / `fill` / `rename` (`atomicWrite`, whose `writeFile` truncates and then
fills), `release`. `target` says which of the two files the call is at. The
temporary file is shared by all callers, as in the code. `Crash` kills a process
at any point and leaves the lock behind (`Orphan`); `WriteFails` is a refused
write and runs the `finally` block; `RenameFails` is the ENOENT after another
call renamed the shared temporary file. `safeReadJson` reads a missing or
partial file as the default, and so it does a file whose read fails (`LoadFails`,
which marks the call as having `misread`). History variables count what reached
the files (`saved`, `started`), what a save forgot because of a failed read
(`lost`), what was interrupted between the files (`unlogged`) and whether a live
lock was ever removed (`stolen`).

**GuardianDecision** has one operator per function of `guardian/core`; scores are
integers and the ratio test is multiplied out. The handler asks of a request only
that `action` and `context` are there, so any field may be `Undefined`, which
answers false to every comparison (`Less`), and a missing envelope throws. A
consent token is a record that says whether its text parses, is refused or makes
`parseJws` throw, and which key signed it.

**GuardianLog** models one Lambda invocation per element of `Invocations`, with a
step per await: receive, scan for nonces, decide (one clock reading, one look at
the configuration), scan for the last entry, put, reply. The table is a sequence
in order of arrival; readers sort it by timestamp, with the order of equal
timestamps left open by `LastOf`. With `ConsistentReads = FALSE` a scan may miss
any entries, which is what `ScanCommand` without `ConsistentRead` allows.
`AppendUnacknowledged` is a put whose response is lost and which the client
library sends again; the condition `attribute_not_exists(entryId)` makes the
second one harmless. `Lost` stops an invocation anywhere; `Redeploy` puts another
configuration in force (calibration, bounds, consent age and key), and an
invocation loads the one of its start. A hash (`Digest`) is the two parts of the
hashed text that tell entries apart: the fresh id, and `nextConsentNonce`, which
is a key with the value `undefined` when an entry is hashed and no key once it is
`Stored`. `Linked` and `Recomputes` are the two checks of `verifyChain`.

**WriteAheadLog** is what a caller may rely on: no answer before its record, one
record per decision, records never change.

**AgentSession** composes the session manager and the auto-cap middleware: a
handler and everything its listeners do is one step, since all of it is
synchronous. `Persist` lists the snapshots a handler writes in turn; a failed
write is ignored, as in the code. Actions are ids; a checkpoint's file snapshot
is the set of ids it covers. Nothing in the repository requests
`AutoCapMiddleware` from the container yet; the model has it running next to the
manager, as its bindings declare. `actionCounter` with the time makes ids unique,
so the model never reuses one.

**CheckpointTimeline** composes the timeline, the checkpoint service, the commands
and widgets that drive them, and the orchestrator's listener. A gesture is a
function of the workbench's state: `Rewound` restores the open editors, then adds
a clip (`Clipped`), which changes the timeline (`Changed`), which makes a
checkpoint (`Checkpoint`), which prunes (`Prune`). A file's text is a version
number.

**FrontendConnection** models the connection below the calls: a front end opens
socket after socket, and each negotiates a first or a renewed connection with the
server (`SocketConnect`, `InitialConnect`, `ReconnectFrontend`). A break loses
what is under way; the two sides learn of it separately (`ClientNotices`,
`ServerNotices`), the server possibly after the next socket has reconnected.
`held` and `buffer` are the two `SocketWriteBuffer`s; `watch` is the channel that
the `disconnect` handler of a socket closes over; `timers` and `handle` are the
close timers that are set and the ones `closeTimeouts` knows. `timeout` stands
for `frontendConnectionTimeout`.

**RpcProtocol** has the state of the calls made over one service path and says,
operator by operator, what a handler does to it and which messages it writes:
the request, its id, its cancellation, its answer, the path that is opened,
closed, reopened or forgotten.

**Messaging** composes the two, one action per event handler with all it does on
both layers: when a channel closes, its paths close and its requests are
rejected in the same step; when a path opens, the calls that waited for it are
sent. **RemoteCall** is what a caller may rely on: a call runs at most once, is
answered only by its run and is settled at most once. `Messaging` implements it.

**EditorModel** models one file open in one editor. `queue` is the chain of
promises in which `run` puts saves and syncs, `step` the await the first one is
at, `job` what it holds in local variables across that await. `Type` and `Undo`
come in anywhere. `changes` is `contentChanges`, which an incremental save sends
in place of the text; `Patch` is the back end reading the file and applying them
(`updateFile`), `Write` the write of it or of the whole text, `UpdateValidates` and
`WriteValidates` the check of mtime and size before them, `SaveFinishes` the look
at the result, `Overwrite` and `Refuse` the question that follows a conflict. A
sync reads the text and looks at the version (`SyncReads`, `SyncStats`) in either
order, since `doReadAsFileStream` lets the two run in parallel; other programs
write in between (`ForeignWrite`). The watcher reports
a change later (`ChangeArrives`), and what it leads to awaits again (`CheckSync`).

**ReferenceCollection** models `acquire` for one key down to the single promise
reactions, since clients may release or dispose between any two of them: `jobs`
is the queue of those pending, `waiters` the calls that wait on the factory's
promise.

`MCGuardianLog` gives the Guardian its configurations and its requests: a choice
with consent that does not measure every dimension, one whose token is dated
ahead, one whose token breaks the parser, and an action that is more loving and
drifts more. `MCEditorModel` says what another program writes into the file. The
other modules are instantiated by their configurations alone.
The proofs of a module `M` are in `M_proofs`, and `Folding` has the facts about
lists that three of them share.

Each module also holds a few definitions commented "Seeded fault": plausible
slips in the code, placed before the definition they would replace. They take
part in no specification; replacing the definition by the fault makes TLC report
the property the fault is for, which shows that the property can fail.

## The runs

| Run | What it checks |
|---|---|
| `progress_store` | type, exclusion, no lost update, history follows, only a failed read resets the record, every call returns |
| `progress_stale_lock` | *violated*: the lock a time-out removes is stale |
| `guardian_log` | type, the chain verifies as far as it can, a token opens one decision unless it is dated ahead, allowed actions preserve the agency that is measured, `WriteAheadLog` is implemented |
| `guardian_fork` | *violated*: the entries link up with overlapping invocations |
| `agent_session` | type, checkpoints describe the history, a reload restores, the cap forces a checkpoint |
| `agent_rewind` | *violated*: a rewind keeps nothing recorded after its checkpoint |
| `checkpoint_timeline` | type and limit, newest first, the current one is the newest, what the newest checkpoint holds survives any gesture |
| `messaging` | type, both sides agree, close timers are current, answers and cancellations meet their call and nothing strays, calls are settled, `RemoteCall` is implemented |
| `editor_model` | type, the kept changes lead from the file to the text, clean is known, no edit is lost to a sync, a clean editor follows the file |
| `editor_save` | *violated*: after a save that leaves the editor clean, the file holds its text |
| `editor_torn` | *violated*: a text that was read is not older than the version it is given |
| `references` | type, references are counted on their own object, one object, no leak, waiting calls are spared, every acquire is answered |

Deadlock is not checked: every model stops when its bounds are used up.

### Fairness

- `progress_store`: weak fairness of each caller's own steps (`WF_vars(Step(c))`).
  The event loop polls the lock every 50 ms and the file system answers.
- `messaging`: weak fairness of `Program`, the handlers of both sides. Event loops
  go on, socket.io keeps trying to reconnect, a service answers, a timer fires.
- `editor_model`: weak fairness of `Program`, that is of the awaits of the
  operation at the head of the queue, and of the watcher.
- `references`: weak fairness of `RunJob` (the microtask queue is run to its end)
  and of the factory's return, with an object or an error.

In each case nothing is assumed about users, crashes, refused writes, broken
sockets or other programs. The other modules state safety only: a Lambda
invocation may stop anywhere, and the session and the timeline are synchronous.

### Bounds, and why they are enough

- `progress_store`: two callers, three calls, one lesson, one fault (a crash, a
  refused write or a failed read). Two callers
  give every pairwise interleaving, the third call meets what the first two left
  behind (an orphaned lock, a partial temporary file). One lesson suffices
  because lessons share nothing but the counter. `MasteryCap = 1` reaches the cap
  with two practices. The safety part is proved for all values.
- `guardian_log`: two invocations, two entries, a clock up to three, one fault, two
  configurations, which differ in calibration, bounds, key and consent age: enough
  for a fork, a missed entry, a repeated put, a crash on either side of the put, and
  a redeployment between two uses of a token. A token that lives two units can be
  offered twice while it is valid; one that lives one unit and is dated ahead is still
  valid after its nonce, remembered for two, was forgotten.
  Invocations are interchangeable (`Symmetry`), and every property checked under it
  is one of safety. Proved for all values. `guardian_fork` needs no fault and one
  configuration.
- `agent_session`: a periodic checkpoint every 2 actions instead of 5, at most 3
  stored actions instead of 200, thresholds 2 and 3 instead of 20, four actions.
  The periodic and the forced checkpoint can then fall on the same action, on
  neighbouring ones, or apart, and the stored history can be cut. Proved for all
  values.
- `checkpoint_timeline`: a list of two checkpoints instead of 50, four clips, two
  edits of one file: the list overflows with any mix of kinds, and a gesture can
  make several checkpoints. Proved for all values.
- `messaging`: two broken sockets, so that a reconnect can itself be interrupted,
  and the five sockets this leads to at most; two calls, so that one can be under
  way while another is held back; a buffer of two messages, which overflows with
  the request, the answer or the cancellation of the second; one cancellation;
  the time-out zero (close at once) and positive. The safety part and the
  refinement are proved for all values.
- `editor_model`: two lines with two texts, two edits, two saves or reverts and
  one write of another program, of a text with one line filled. An edit can fall
  before, within and after each save, the second operation can cancel the first, and
  the size of a file (which the check before a write compares) can both agree and
  differ. The safety part
  is proved for all values. `editor_save` needs one save only, `editor_torn` two
  writes of any text by another program and no edit.
- `references`: five calls of `acquire`: three to overlap on one object, a fourth
  to come between its factory's return and its answers, a fifth to make the next
  object.

### What the violated runs mean

- **A live lock is removed.** After three seconds `acquireLock` unlinks the lock
  without knowing whether its holder is alive; `releaseLock` unlinks it without
  looking whose it is. Everything else about the store is conditional on this not
  happening (`~stolen`), and it is all that can break exclusion.
- **The chain forks** as soon as two invocations overlap; nothing compares what
  was read with what is there at the put. With invocations one at a time, at
  distinct times, and complete scans every entry links to the one before it
  (`OrderlyChainVerifies`).
- **A rewind keeps later actions** after an undo went below the checkpoint.
- **A save marks unsaved text clean** when the user types while it is awaited:
  `doSave` looks at its cancellation token only, which typing does not cancel.
  Auto save and the question on closing then skip the text. `CleanIsKnown` is what
  remains true without that (`misled`).
- **A torn read.** When another program writes between the read of a file and its
  stat, the old text is shown under the new version; `isInSync` is then true, so
  the editor stays clean and wrong until the file changes again. What the other
  properties say holds without that (`astray`).

### Divergences the models follow without a run

The first six are of some weight. The models behave as the code does, and a
property of a run says what remains true.

- A failed read resets the student. `safeReadJson` (`progress-service.ts:90`) answers
  any error with the default record; the call goes on and saves it, and
  `lessonsCompleted` is no longer the "Total number of lessons completed across all
  courses" (`progress-protocol.ts:75`). `RecordSurvives`: nothing else resets the
  record.
- Hashes do not recompute. `emit` (`guardian.ts:173`) hashes `nextConsentNonce:
  undefined` for every decision that is not ALLOW, and `removeUndefinedValues`
  (`wal-dynamo.ts:32`) keeps that key out of the table. So `verifyChain` over the
  table stops at the first such entry, however orderly the invocations were.
  `OrderlyChainVerifies`: the links hold, and the entries that allow recompute.
- A token dated ahead is used twice. Nobody checks `iat` against the clock, so such a
  token outlives the window over which its nonce is remembered, although
  `handler.ts:86` says older nonces belong to expired tokens. `NonceUsedOnce`: no
  token dated at or before its first use does.
- A missing dimension passes. `undefined < min` is false (`agency-envelope.ts:28`), so
  an envelope that leaves out a dimension is within all bounds on it, and it reduces
  nothing against the counterfactual. `AllowPreservesAgency` speaks of what is
  measured.
- Manual checkpoints are pruned when only manual ones remain
  (`checkpoint-service.ts:207`), which lines 14 and 198 say they never are.
  `ManualsGoLast`, proved but in no run, is what remains true.
- A rewind overwrites texts that no checkpoint holds: those typed since the newest
  one (`checkpoint-service.ts:126`), although the service "can restore any previous
  state". `NewestSurvives`: what the newest checkpoint holds is not lost by the
  rewind and what it sets off.
- `lessonsInProgress` (`progress-protocol.ts:77`) counts starts, not lessons, since
  `progress-service.ts:154` raises it for a lesson that is already in progress.
- "Rewind to last" (`checkpoint-commands.ts:76`) goes back and forth between two
  states, since each rewind makes a checkpoint that becomes the current one.
- The comment at `websocket-frontend-connection-service.ts:86` excludes that
  `closeConnection` finds no connection; a socket that takes over too early leads
  there (`orphaned`).
- `reference.spec.ts:124` says an object is not disposed while an acquire waits;
  one that falls between the return of the factory and its answers loses it
  (`gap`).

### What the properties excuse

Some histories break what the rest of the code upholds. Each is a variable, set
where it happens, and a property it is excused from says so:

- `stolen` (`ProgressStore`): a lock was removed while its holder was alive.
- `lost`, `misread` (`ProgressStore`): a call whose read failed; `NoLostUpdate` and
  `HistoryFollows` count what its save forgot, `RecordSurvives` allows that save.
- `orderly` (`GuardianLog`) is the reverse: true while invocations come one at a
  time, at distinct times, and scans return the whole table.
- `dangling`, `lagging` (`AgentSession`): an undo went below a checkpoint or a
  reload cut the history short; the last write to sessionStorage failed.
- `overtaken` (`Messaging`): a socket took over from one of the same front end
  whose `disconnect` the server had not seen. That event then detaches the new
  socket.
- `Excused` (`Messaging`): a message lost with its socket while the server kept
  the connection, and a path whose first opening was cut off; nothing sends
  either again.
- `astray`, `misled`, `interrupted` (`EditorModel`): a torn read, a write that
  nothing could see, a sync over changes that were kept, a save that was skipped
  for its cancelled token; a text marked clean too early; a sync that an edit stopped.
- `gap` (`ReferenceCollection`): a call that overtakes the one an object was made
  for.

## The proofs

`ProgressStore_proofs` proves, for every set of callers and lessons and any
number of calls, crashes, refused writes and failed reads (from the named assumptions on the
constants only):

- `TypeCorrect`: `Spec => []TypeOK`. `TypeOK` is inductive by itself because
  `CallType` says what a call holds in memory at each control point.
- `ExclusionHolds`: `Spec => []Exclusion`. As long as no live lock was removed, a
  call between load and release owns the lock; a time-out can then only remove
  the lock of a call, which sets `stolen`, or an orphan, whose creator is gone.
- `NoLostUpdateHolds`: `Spec => []NoLostUpdate`. The invariant has to be
  strengthened: exclusion alone does not say that what a call holds in memory was
  computed from the file as it is. `DataInv` adds that a call between load and
  rename holds the tally of the current file, or of the default record if its read
  failed (`Fresh`), that the temporary file
  holds that same value once filled, and that the file's counters are those of
  the calls that reached it, less what was lost. `TallyCounts` is the arithmetic of
  one update.
- `RecordSurvivesHolds`: the action property, from the same invariant: the only
  step that writes the progress file is the rename, and unless its call misread the
  file it installs a tally of the record that is there.

- `HistoryFollowsHolds`: the history file differs from the progress file,
  lesson by lesson, but by the start under way and those that faults interrupted
  or a failed read forgot.
  `HistoryInv` adds that a call about to replace the history file holds that file
  with its own lesson logged (`HistoryFresh`).

`GuardianLog_proofs` proves, for every set of invocations, requests and
configurations, incomplete scans, lost acknowledgements, failures and
redeployments (from the assumptions on the constants, which say of a request no
more than that what is there of an envelope and of a token's dates is a number):

- `TypeCorrect` and `ImplementsWriteAheadLogHolds`: the refinement. Its invariant
  `IdInv` says that an entry id is in the table at most once and only for the
  invocation that put it, so a put that is sent again changes nothing; then every
  step of an invocation is a `Record`, an `Answer` or a stutter.
- `OrderlyChainVerifiesHolds`: with invocations one at a time at distinct times
  and complete scans every entry links to the one before it. `OrderlyInv` says that
  the last entry in time is the last in the table and that what an invocation read
  is that entry. And always, the hash of an entry that allows is that of what is
  stored: such an entry has a nonce from its decision on, so storing it changes
  nothing (`HashInv`).
- `NonceUsedOnceHolds`: where invocations are orderly, a consent token opens one
  decision, whatever became of the earlier entry that carries its nonce. An entry
  the window has forgotten is older than twice the consent age of the invocation
  that forgets it; a token dated no later than that entry and no longer lived than
  that age has expired.
- `AllowPreservesAgencyHolds`: whatever is allowed, by whatever path through the
  checks, lies within the bounds the entry records on every dimension it measures,
  and what is chosen as more loving takes no measured agency away (`AllowInv`).

`AgentSession_proofs` proves, for any thresholds, interval, limit and length of
the history:

- `AutoCapForcesHolds` by `CapInv`, which ties the counter to the tool calls since
  the last forced checkpoint.
- `CheckpointsDescribeHistoryHolds` and `ReloadRestoresHolds` by `SessionInv`: as
  long as nothing dangles, a checkpoint's index and its files agree with a prefix
  of the history, in memory and in what was last stored; as long as no write
  failed since, what is stored is the snapshot of what is in memory.
- `TypeCorrect`.

`ReferenceCollection_proofs` proves, for any number of calls of `acquire`, with
factories that fail and clients that release and dispose between any two promise
reactions:

- `TypeCorrect`, by `QueueInv`: a call that waits is at one place of the queue
  (`Placed`); the calls of a job are for one object (`Together`); an object that
  is being made has one job that stores it, and the calls that came late are
  behind that job (`Phases`). It holds whatever happens. `Moved` describes a step
  as "the first job leaves, these join", and `Requeued`, `Joined` and `Advanced`
  say once what such a step keeps.
- `CountedOnItsObjectHolds`, `OneObjectHolds`, `NoLeakHolds` and
  `PendingSparedHolds`, by `CountInv`: as long as no call fell into the gap, the
  stored object goes through three stages (`Storing`, `Joining`, `Settled`), in
  which some job is still to count calls for it, or an answer is under way to a
  call that is counted, or its references alone decide. Only in the last can its
  reference count drop to nothing, and then nobody waits (`LastReference`). The
  invariant is about the order of the jobs in the queue: a late call is adopted
  ahead of the job that counts the creator's, and is counted behind it.

`CheckpointTimeline_proofs` proves, for any files, clips and edits and any limit
on the list (from `WorkbenchAssumption`):

- `TypeCorrect`, `NewestFirstHolds` and `CurrentIsNewestHolds`. A gesture is a
  chain of functions on the workbench, so the invariant `Good` is stated of any
  workbench and each function is shown to keep it (`PruneKeeps`,
  `CheckpointKeeps`, ... `RewoundKeeps`); `TimelineInv` is `Good` of the state.
  `Ordered` says that ids and times fall along the list and stay below the next
  id and the clock, which makes the newest checkpoint the first one also after
  pruning from the middle.
- `ManualsGoLastHolds`: `Follows` relates the lists before and after and is a
  preorder, so that a gesture that makes many checkpoints (muting several clips)
  is as good as one.
- `NewestSurvivesHolds`: among functions that leave the texts alone, the newest
  checkpoint keeps showing what it showed, or at most one automatic one is left
  (`ShowsOn`, a preorder like `Follows`). A rewind changes the texts before it makes
  its one checkpoint, so the one that was newest is then the second, which pruning
  spares unless no other automatic one is left (`Restorable`).

`EditorModel_proofs` proves, for any set of lines and texts, any number of edits,
undos, saves, reverts and writes of other programs, and any interleaving of them
with the awaits of a save or a sync (from the assumptions on the constants):

- `ChangesLeadHolds`, `CleanIsKnownHolds` and `NoEditLostHolds`, by `EditorInv`.
  The properties speak of the editor alone and are not inductive: a save holds,
  over its awaits, the text and the changes it began with, and the user goes on
  typing. `Saving` says what it holds: the kept changes begin with its own, and
  these lead from the file to its text (`SaveFile`, with what it knows of the file
  at each await); coming back to the id it began with is coming back to that text
  (`SaveText`). `Stacked` orders the ids on the undo stack, so that no id stands
  for two texts. `SavedKnown` ties the id that counts as saved
  to a text of the file, `CleanKnown` says which pending reverts may
  leave a clean mark on a text that is not.
- `TypeCorrect`. That the file has at most as many versions as were asked for needs
  `WritesBounded`: each save that has still to write can be given a number of
  its own among the requests.

`Messaging_proofs` proves, for any number of calls, cancellations and broken
sockets, any size of the buffers and any of the time-outs (from
`ConnectionAssumption` and `CallsAssumption`), `InvHolds`, an inductive invariant
with a part for each layer, and from it every safety property of the run:

- `AgreementHolds` and `TimersAreCurrentHolds`. What the two sides believe agrees
  only when nothing is under way, so the invariant says what may be under way.
  `Negotiation`: a socket negotiates once, as its first message each way.
  `Channels`: a channel of the server belongs to one page load, and the socket
  whose `disconnect` closes over it knows it. `Latest`: where the newest socket
  stands in between, by what is in the queues. `Serving`: unless a socket took
  over too early, each socket the server believes in serves its front end, and no
  timer waits for that one. `Budget` counts sockets against breaks: each break
  leads to a refused socket and a fresh one at most, which is why `Sockets`
  suffices.
- `AnswersMatchHolds`, `CancelsMatchHolds` and `NothingStrayHolds`. The ids start
  again from zero with each protocol of the front end, so a request in a queue, a
  buffer or a handler can carry the id of another call. `CallsInv` gives the
  protocol its own set of calls (`Instance`): their ids differ, and everything
  between the two sides, in either queue, either buffer or a running handler that
  can still answer, is about one of them. `RequestsOnce` and `OpeningOnce` say
  that a message is in one place only: the request of a call that ran is in none.
- `RemoteCallImplemented`: `Spec => ImplementsRemoteCall`. Every step maps to a
  step of `RemoteCall` or to a stutter; that a request is read only for a call that
  has not run, and an answer only for one that has, is `RequestsOnce` and
  `Replying`.
- `TypeCorrect`: needs `Budget` for the numbers of sockets and page loads, and
  `CallsInv` for ids and counts of runs.

The step lemmas follow the layers: `BudgetStep` to `ServingStep` look at an action
only as far as the connection goes (`Negotiates`, or `PayloadStep` when it only
moves data), `CallsStep` takes one lemma per action. The parts about the calls
rest on a small theory of the queues (`Carries`, `Single`): what one carries after
a message was read, sent, buffered or flushed. TLC checked the whole invariant on
the states of the `messaging` run before it was proved.

`Folding` holds what these use about lists. The library's induction theorem takes
an operator, so `Induction` is proved for a set of numbers, from the theorem that
`<` on the naturals is well-founded; from it follow the equations of `FoldLeft`
for one step, two lists in a row (`FoldedConcat`) and an invariant
(`FoldedKeeps`). `ApplyAll` of the editor and the muting of all clips are such
folds; for `Messaging`, `Induction` gives the list of requests that is written
when a path opens (`RequestsForm`).

Each proof goes the usual way: the invariant holds initially, each action
preserves it (one step per action), it implies the property. A few lemmas on
sequences (appending, cutting, a selection in order) are stated once.

Only model-checked: liveness (`EveryCallReturns`, `CallsSettle`, `FollowsFile`,
`AcquireSettles`), since fairness and `ENABLED` are out of the prover's reach.

## What the models leave out

- Progress store: the contents a process still writes through an open descriptor
  after its temporary file was renamed; `setStorageDirectory`; scores, dates and enrolments.
- Guardian: signing and HMAC as computations; the JSONL and in-memory stores; a
  put that reaches the table after its invocation was stopped and given up; which
  of its reasons refuses a consent; a configuration that does not parse (the
  invocation answers 500 and touches nothing); the recorded asymmetry. An entry the
  client library refuses to send is a put that fails (`AppendFails`).
- Agent session: the plan; searching, diffs and exports, which change nothing.
- Checkpoints: line diffs, stored labels, `clear()` and `clearTimeline()`, which
  nothing calls; the conversation part of a rewind, which the code does not do.
- Connection: messages are counted, not measured in bytes; whether a window asked
  to be closed with its socket and whether a refused front end reloads its page
  are free choices; notifications, calls from the back end to the front end,
  closing one sub-channel, and the Electron transport are left out. An answer is
  a value or an error alike.
- Editor: a document is a function from lines to texts; encodings, redo, deletion
  and creation of the file, read-only files, files that are read in several chunks
  and closing the editor are left out. The mtime of a file grows with every write.
- References: `clear` and `dispose` of a whole collection, the synchronous
  collection (which has no awaits), a second disposal of a dead object.

### Not modelled

- Pulse, notification orbit, friction, teachable moments, spiral review, message
  queue and handoff, agent mode, and what the orchestrator does with them: single
  pages of synchronous bookkeeping with timers that nothing durable depends on.
  Reading them showed a slip that no run has: a flash over 'thinking' restores
  'thinking' (`pulse-service.ts:66`), and the reset after a friction
  (`teacher-orchestrator.ts:171`) acts on 'suggesting' only, which the handoff in
  between has replaced; nothing then ends the 'thinking' until the next lesson.
- The plan of an agent session: a status per step that no other part reads.
- Profile, streaks and milestones: read, await, write without a lock. What
  `progress_store` shows of an unlocked update applies to them as it is.
- Skill engine, model bootstrap and router, ASI bridge, assessment, curriculum,
  recommendation, training data, redactor: texts, prompts and requests to
  services outside the repository.
- The rest of Theia: the plug-in host, shell, terminals, debugger, language
  clients and AI chat are systems of their own.

`PROJECT.json` gives each part its reason.
