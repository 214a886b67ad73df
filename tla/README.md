# Sparrow runtime: models, checks and proofs

Sparrow is a single-node stream-processing runtime. A *pipeline job* reads rows
from replayable files or live connectors, runs them through operators (project,
filter, window, IoT rules, lookups, unions) joined by bounded mailboxes, and
hands results to sink connectors. A *supervisor* validates a pipeline, starts
its job, takes *aligned checkpoints* of it and restarts it from one. This
directory holds TLA+ models of the parts whose correctness depends on the order
in which things happen, TLC configurations that check them on small instances,
and TLAPS proofs for instances of any size.

`PROJECT.json` lists components, runs, mutants, the map from definitions to
source lines, hazards and theorems. Paths below are relative to
`src/crates/`.

## 1. Inventory

### Components that are modelled

| component | state | operations | talks to | hard behaviour |
|---|---|---|---|---|
| **checkpoint store** (`sparrow-runtime/src/checkpoint.rs`) | generation directories `chk-<id>`, `CURRENT`, `PUBLISHED` markers, `next_id`, pin, `WRITER_LOCK` | `commit_bytes`, recovery, `repair` of a marker, pruning, pinning, start decision of the supervisor | coordinator and worker commit; supervisor restores | power loss, kill or I/O error between any two file-system calls; half-done pruning; damaged files; quota and retention full |
| **aligned checkpoint of a graph** (`sparrow-runtime/src/barrier.rs`, `kernel.rs`, `kernel/graph.rs`, `sparrow-control/src/supervisor/graph.rs`, `sparrow-model/src/inflight.rs`) | ACK registry, Cut channels, barriers under way, alignment of the union, window freeze, in-flight counter of the sink | begin, cut, barrier, align, freeze, flush, collect, abandon, commit, restart | sources, union, window, sink, store | barriers of abandoned attempts, back-pressure, dropped results, crash and replay |
| **checkpoint admission** (`sparrow-control/src/checkpoint.rs`, `supervisor.rs`) | permit, `CheckpointStatus`, command channel, request, reply | `try_begin`, send, take, inject, align, commit, `finish`, `Drop`, cancel, join | API, periodic scheduler, source actor, worker task, blocking pool | a caller times out or goes away while the request goes on; stop during back-pressure; late commits |
| **durable outbox** (`sparrow-control/src/outbox.rs`, `supervisor/outbox.rs`, `sparrow-connectors/src/http_durable.rs`) | SQLite table of entries, `paused`, `next_id`, sender task, registry of tasks | enqueue, acknowledge, reserve, POST, settle, pause, resume, start, replay, purge | job ingress, checkpoint cut, HTTP receiver, operator | lost answers, crash between POST and settlement, full queue and DLQ, command against sender |
| **mailbox** (`sparrow-runtime/src/mailbox.rs`) | byte semaphore, slot semaphore, channel, envelopes held, closed flag, observer gauges | `send`, `try_send`, `recv`, `try_recv`, drop of envelope and receiver, cancel | every pair of neighbouring stages | sends that end half way, drop of the receiver between two steps of a sender, fairness of credit |
| **JetStream source** (`sparrow-connectors/src/jetstream/`, `sparrow-control/src/supervisor/jetstream_source.rs`, `input_dlq.rs`) | ownership entry and consumer at the broker, delivery ledger, pull, deferred record, input DLQ with its replay floor, checkpoint workers | open, pull, read, decode, quarantine, publish, cut, commit, ACK with retries, purge, close | broker, Kernel inbox, checkpoint store, operator | redelivery, lost frames, evicted messages, a lost ACK, crash between commit and ACK, ledger or DLQ full |
| **job supervisor** (`sparrow-control/src/supervisor.rs`, `store.rs`) | desired and actual rows, the map of running jobs, retry times, the `transition` mutex, shutdown token | convergence (reap, list, visit, start, stop), kill, stop-all, boot; requests that write the catalog | HTTP API, catalog, job tasks | requests between any two steps, stale lists, callers that leave, failing catalog calls, crash and safe mode |
| **event time** (`sparrow-runtime/src/watermark.rs`, `window.rs`, `kernel/graph.rs`, `kernel.rs`) | watermarks per source, `WatermarkHub` of the union and the window, holdback, open windows | send with watermark, idle, active, end of input, combine, assign, close, freeze, restore | sources, union, window, downstream stages | fast, idle, ended and returning inputs, late and future rows, restart with fresh watermarks |

### Components that are not modelled yet

Memory owners, recovery operations, reference tables, ordered and paused time,
accumulators and the other window kinds, IoT operators, lookups and joins,
plugins. Not to be modelled: the SQL compiler, plan, expressions and formats
(pure functions over large data types), connectors' transports, server routes
and command line (pure I/O). Section 8 has the reasons.

### How the parts interact

A caller takes the admission (*CheckpointAdmission*); the source actor cuts the
dataflow (*AlignedGraph*), whose channels are mailboxes (*Mailbox*); the worker
or coordinator commits the collected cut (*CheckpointStore*). A durable sink
acknowledges a batch to the dataflow once its row is in the outbox (*Outbox*),
which is what lets a cut pass it. After a crash the supervisor asks the store
what to restore, seeks the sources and rebuilds the stages. Which jobs run at
all is decided from the catalog (*Supervisor*). A JetStream job is its own cut
and acknowledgement protocol on top of the store (*JetStreamSource*), and what
flows between the barriers of a graph job in event time, rows, watermarks and
activity, is *EventTimeWindow*.

Each module takes from its neighbours exactly the outcomes their interface has:
`AlignedGraph` and `CheckpointAdmission` see a commit that succeeds, fails or
fails after publication; `Outbox` sees a source position that a published cut
reaches; the abstract module `CheckpointRegister` states what they rely on.

### What makes each part correct

* store: what was acknowledged is recovered, from a checkpoint that was really
  published, never from leftovers; an automatic start never begins empty by
  accident;
* graph: the rows before the committed positions are in the committed state or
  delivered, none is in both the state and the replay; attempts end and the
  dataflow drains although attempts were abandoned;
* admission: one attempt at a time, and status, reply and `CURRENT` agree
  however it ends; stop, deadline and gate always work;
* outbox: at-least-once across the cut, bounded attempts, bounded tables, no
  request in flight that a command does not know of;
* mailbox: credit is conserved on every path, the gauges are exact, no sender
  is left behind by a stop;
* JetStream source: the broker is told to forget only what a published
  checkpoint covers, a checkpoint holds each row up to its cut once, a poison
  record is quarantined once, no consumer is left behind, and a source that is
  full frees itself;
* supervisor: one job per pipeline, jobs follow the catalog, what is held or
  used up is not started, nothing runs after a shutdown;
* event time: a row is late only by its own source's watermark, a final comes
  before the watermark that covers it and once, windows close.

## 2. Modules

| module | role |
|---|---|
| `CheckpointStore` | the directory protocol, one file-system call per action |
| `CheckpointRegister` | abstract: a durable register of checkpoint ids |
| `MCCheckpointStore` | the refinement mapping from the one to the other |
| `CheckpointStoreProofs` | theorems about the store |
| `AlignedGraph` | barriers through sources, union, window and sink |
| `AlignedGraphProofs` | theorems about the graph job |
| `CheckpointAdmission` | callers, admission, source actor, worker |
| `CheckpointAdmissionProofs` | theorems about the admission |
| `Outbox` | queue, sender, operator commands, checkpoint cut |
| `OutboxProofs` | theorems about the outbox |
| `Mailbox` | byte and slot credit between two stages |
| `MailboxProofs` | theorems about the mailbox |
| `JetStreamSource` | broker, reader, ledger, input DLQ, cuts and ACKs of a JetStream job |
| `JetStreamSourceProofs` | theorems about the JetStream source |
| `Supervisor` | catalog rows, lifecycle operations under the mutex, requests, restarts |
| `SupervisorProofs` | theorems about the supervisor |
| `EventTimeWindow` | sources with watermarks, union, hopping window, holdback |
| `EventTimeWindowProofs` | theorems about event time |

A definition that nothing uses and that stands just before another one
(`TimedOutNever`, `DropQueuedLeaky`, `CreditPolled`, ...) is a faulty variant of
it: in its place, the property that `PROJECT.json` ("mutants") names fails. They
document which mistake each property catches.

### CheckpointStore

`seen[i]` are the entries of generation `i` (its directory, chunks, ACK,
MANIFEST, PUBLISHED) as a process sees them, `durable[i]` those that the last
fsync of their directory has made safe; `cur` and `curDisk` are the same for
`CURRENT`. `damaged` are entries whose checksum fails. `pc` walks through
`commit_bytes`: repair of the marker, prune, quota, mkdir, chunks, ACK,
MANIFEST, rename of `CURRENT`, marker, trim, each with its fsync as a step of
its own. `CommitFails`, `PruneFails`, `MaintenanceFails` are the error returns;
`Kill` ends the process, `PowerLoss` also drops any subset of the unsynced
directory entries; `Damage` destroys an entry at rest. `StartResumed`,
`StartFresh`, `StartAt` are the restore decisions of the supervisor
(`supervisor.rs`, with `resume_latest`).

The file system is the weakest that POSIX allows: data is safe after fsync of
the file, a directory entry only after fsync of the directory, and unsynced
entries survive or vanish one by one. `Kill` and `CommitFails` may break a
commit off between any two operations. `LostSyncs` is the set of directory
fsyncs that may fail, or before which the process may be killed, so that the
next writer continues over updates that were not synced. The claims about the
store differ in what they need of it, and say so: `AckedSurvives` and the
refinement need the one fsync behind the rename of `CURRENT`, the properties
with damaged files need all of them.

Abstracted: the snapshot codec ("checks" or "damaged"), byte sizes (payload
units against `MaxUnits`), errors of loading that change nothing (incompatible
version, memory credit).

### CheckpointRegister

`value` is what a restart would recover now, `floor` the oldest it might
recover after a power loss, `acked` what was promised. Commit shows, settles,
acknowledges; a power loss falls back to no less than `floor`. The mapping is
`value <- Latest`, that is `RecoverCommitted(seen, cur)`, and `floor <- Floor`, so the refinement
says at once that ids grow, that `floor` never falls, and that nothing is
acknowledged before it is stable.

### AlignedGraph

File sources (cursor, the batch polled but not fully sent, the Cut channel of
capacity one, the barrier being injected), a source stage, a `UnionAll`
(`blocked`, `aligning`, `completed`, `checked` and `hand`: finding the request of
the alignment live, taking an envelope and handling it are three steps, as in
the biased `select!`, so the request may go away and the next one begin in
between; the barrier that completes an alignment stays in `hand`, with all
inputs blocked, until there is room behind the union), a window that absorbs
rows and emits one result, a sink stage that waits for receipts before it
acknowledges a barrier (`flushing`, `failed`, `marked` of `InflightCounter`),
the connector, and the coordinator (`phase`, `toCut`, `replies`, `acks`,
`refused`, `frozen`). `Timeout` abandons an attempt at any point;
`InjectTimesOut` loses a source's reply; `DropResult` is a connector that
gives up; `UnionFails` is the union's error for a barrier that conflicts with
its alignment. It, another failure of the job and a crash (`Crash`) restart from
`committed`, after a commit under way has landed or not (it holds
`WRITER_LOCK`). The id after a
restart is any id above the committed one.

Left out: `EndOfInput`, routers, side outputs, ordered time. Freezing the
window and forwarding the barrier are one step (one task, no await that
depends on another participant in between).

### CheckpointAdmission

A linear aligned file job. `req[r].pc` follows one admission from the permit
through status, command channel, injection, alignment, blocking commit,
`finish`, reply and release of the permit, or through `Drop`. Taking the permit
and writing the status are two steps, as are `finish` and the reply, and the
end of `Drop` and the return of the permit. `Deadline` may pass at any time;
`WaiterGone` drops the caller's future at any time. A failed commit may have
renamed `CURRENT` already (the fsync of the directory failed): then the status
carries an error and the id it names may be behind.

The dataflow and the store appear by their outcomes only. The counterpart in
graph jobs and JetStream jobs uses the same `CheckpointControl`.

### Outbox

One step per SQLite transaction (`BEGIN IMMEDIATE`, `synchronous=FULL`; that a
committed transaction survives is an assumption about SQLite). `entries` is the
table, `task` the two latest sender tasks with what they hold in memory,
`registry` the supervisor's task list, `ctl` the command that holds the
transition lock (pause, resume, start with their steps: write the flag, reap the
old task, await it, ensure a new one). `Replay` and `Purge` take the lock and
run in one transaction each. The receiver may accept a request whose answer is
lost. `cut` is the position of the last published checkpoint and may only pass
batches that were acknowledged.

Clock readings are abstracted to what they are compared for: not due, due, past
the elapsed-time budget. All bodies have one size, so byte limits coincide with
entry limits. Graceful shutdown is a `Crash` at a convenient moment. Not
modelled: identity binding, retirement, digests and the audit log (apart from
an audit failure ending the sender).

### Mailbox

Both semaphores are tokio's: FIFO, and a waiter gets its whole request at once
or waits (tokio assigns permits to the head of the queue bit by bit; nobody
behind it can overtake, which is all the model uses). A send goes through
credit, accounting, slot, publication, and every exit in between. Dropping the
receiver is three steps: the flag, the byte semaphore, the channel. Counting
and uncounting by the observer are apart from acquiring and returning the
permits, as in the code. An envelope is its size; what a set of holders has
together (`Total`) is the number of its units, one per byte and holder, a form
that can be proved about where a recursive sum cannot. Left out: waiting-time
statistics, peaks and the waiting-sender gauge.

### JetStreamSource

The broker is `first` (retention), `binding` (the ownership entry), `consumers`
and the newest consumer's delivery and ACK state; `wire` holds the frames of the
open pull, which may be dropped and are redelivered. An attempt opens in three
calls (delete the old consumer, CAS of the binding, create), each of which a
crash may separate. The actor's loop is `pc`: pull, read, decode, quarantine,
poll for more, publish; a barrier is cut at its gate, a worker commits it, and
`JoinReturned` makes the ledger's prefix eligible for ACK. An ACK is sent,
confirmed or retried `AckTries` times by the driver (`Confirm`). `hist` are the
retained checkpoints with the rows and the cut of each; `Purge` retires DLQ
records and raises the replay floor, below which no cut starts.

A message is its sequence; the ones in `Poison` do not decode. The job behind
the inbox is one stage that applies batches in order. Left out: a second node
with copied owner files, replay ranges, byte limits apart from entry limits.

### Supervisor

`desired` and `actual` are the catalog's rows, `jobs` the map, `live` counts the
jobs of a pipeline whose tasks run (also those being joined). `op` is the
operation that holds `transition`: its program counter, the pipelines it has not
visited, the rows it listed, the start under way. Requests (start, publish,
publish and start, stop, kill) commit between any two of its steps. A catalog
call of an operation may fail (`MaxLost`), with the consequence the code gives
it: the pipeline is skipped, the write is lost, or the start counts as failed. A
caller may leave a kill at any time; the spawned task goes on
(`AfterCallerLeft`). `Exit` is a crash, or the end of a shutdown; `Boot` resets
the actual rows and latches what requires an explicit restart. `used`, `failed`
and `streak` record what the properties need of the past.

What a start builds is one step with three outcomes (running, refused, waiting
for capacity). Left out: attempt history, audit, live lookup refresh, status
reporting.

### EventTimeWindow

Each source has the runtime's `SourceTime` (`src`) and what stands behind it
(`feed`: batches sent, what it has promised, whether it was ever idle, whether
it is done). `Send` is `send_source`: an Active mark after idleness, the batch,
then the watermark its timely rows allow. `Union(s)` handles one envelope with
all that follows it (activity change, progress); `Window` handles one message
with the emission it causes (`Drain`: finals of all windows that end by the new
output watermark, then the watermark). The hub's operators are shared by union
and window, as `WatermarkHub` is. A row too far ahead of the clock moves no
watermark at the source and is dropped by the window if it is still ahead there.

`Checkpoint` takes the cut where the barrier finds the channels drained, which
every aligned cut is equivalent to (sources are independent, and the union
blocks an input behind its barrier). `Restart` gives sources, union and the
window's hub their initial state, and the window its entries, its holdback and
`last_effective`. Left out: punctuation by the owner of a source, groups and
accumulators, linear jobs that generate watermarks inside the window, the
buffered (sliding, session) executors, side outputs.

## 3. Runs

All runs finish in well under five minutes. `CHECK_DEADLOCK FALSE` is set
throughout because every bounded instance ends when its rows, ids or faults are
used up; that the real system does not get stuck is what the liveness
properties say.

| run | instance | shows |
|---|---|---|
| `store_default` | default retention (3 generations), 4 ids, operator restores and pins, 3 faults, every fsync but the one behind the rename of `CURRENT` may be lost | `AckedSurvives`; the store implements `CheckpointRegister` |
| `store_damage` | 3 generations, 4 ids, operator restores and pins, 2 faults (errors, kills, power losses), 2 media faults, every fsync honoured | `FallbackRetained`: no step takes away the acknowledged checkpoint before `CURRENT` while nothing is pinned and no half-pruned generation is left; `RestoreOnlyNamed`, `RecoveryNeverRegresses`, `NoSilentFreshStart` |
| `graph_crash` | 2 sources, 1 row each, 2 attempts, one fault, one dropped result, one crash | `NoLossBeforeCut`, `CutIsClean` |
| `graph_progress` | 2 sources, 2 attempts, one abandoned | `AttemptEnds`, `Drains` |
| `admission` | a manual and a periodic caller, 2 admissions | one attempt, truthful status, durable answers, quiet end; stop, gate and callers make progress |
| `outbox_queue` | 2 batches, 3 entries, 2 attempts, queue of 2, DLQ of 1, one replay, one crash | `CutCovered`, `LimitsHold` (attempts and stored totals), `InFlightReserved` |
| `outbox_commands` | pause, resume, start against a sender that may fail, one policy change | `PauseQuiesces`, `BoundByResume`; `EveryEntrySettles`, `CommandReturns` |
| `mailbox` | 2 senders, sizes 1, 2 and 4 (too large), 3 bytes, 2 slots | `AccountsExact` (`CreditConserved` and `GaugesExact`); `StopReleasesSenders`, `NoStarvation` |
| `jetstream` | 3 messages, 2 of them poison, ledger of 2, DLQ of 1, 2 checkpoints kept, 3 attempts, 1 command, 3 faults of any kind | `AckedIsDurable`, `DurableExact`, `QuarantinedOnce`, `NoOrphanConsumer`; `BlockedSourceDrains` |
| `supervisor` | 1 pipeline, 2 revisions, one of which requires an explicit restart, 2 attempts, 2 requests, a kill, a restart in either mode, a failing catalog call | `OneJob`, `ShutdownIsFinal`, `NoUnattendedRestart`; `Converges` |
| `supervisor_replay` | the same without kill and failing calls | violation of `ReplayNeedsExplicitStart`, see below |
| `event_time` | 2 sources, windows of 2 sliding by 1, lateness, disorder and skew, 3 batches, one idle period, a checkpoint, a restart | `PromiseKept`, `FinalBeforeWatermark`; `WindowsClose` |

`supervisor_replay` documents a disagreement between code and comment.
`store.rs:1352` says that a revision that requires an explicit restart is not
replayed after a process restart without a fresh explicit start. The convergence
starts the revision of the row it listed, but whether the latch holds it is
decided from the row as it is then (`supervisor.rs:1127`): a stop that commits
in between clears the revision, the latch no longer applies, and the pinned
checkpoint is replayed once before the next convergence stops the job.
`NoUnattendedRestart` shows that without such a race the latch holds.

Why the bounds are enough to be interesting:

* store: two ids are needed for a fallback, three to prune, four for a prune
  under a generation that is half written. Four ids and three faults are also
  what it takes to lose an acknowledged checkpoint when the fsync behind the
  rename of `CURRENT` may be lost (section 6), so `store_default` shows that
  this fsync is the one that matters. Two damaged generations in `store_damage`
  make recovery depend on the third, and a pin beside a damaged `CURRENT` fills
  the slots so that the trim after a commit has something to remove.
* graph: the second attempt is the one that meets the barriers and Cuts of the
  abandoned first; capacity one makes every channel push back; two sources make
  alignment real.
* admission: the second request meets everything the first may have left
  (permit, status, worker, commit).
* outbox: a DLQ of one is full with the first dead letter; two attempts make
  retry, exhaustion and a lost attempt differ; one crash may fall between any
  two transactions.
* mailbox: one large and two small sends make the FIFO order matter; size 4
  exceeds the limit and is refused at once.
* JetStream: a ledger of two with three messages is full while one is missing;
  a DLQ of one is full with the first poison record, so the second must wait for
  a purge; the third attempt replays what the second replayed.
* supervisor: pipelines share only the mutex, so one of them with requests in
  between meets every order of list, hold check, start and write; two revisions
  are what a stale list can confuse; two attempts reach the limit.
* event time: a batch that holds its own latest and its earliest row, one source
  ahead of the other, and a third batch that may be late against both.

For the safety properties that section 5 proves, the proofs remove these bounds.

## 4. Fairness

* `graph_progress`: weak fairness of every task step and of delivery; none for
  deadlines, new attempts, polling, closing of windows, crashes, drops. Tokio
  runs a woken task again, and the sink connector keeps draining its queue.
* `admission`: callers and tasks that can run do, deadlines pass, a blocking
  commit ends. Nothing is assumed of the dataflow: a barrier may wait for room
  for ever, alignment may never come.
* `outbox_commands`: every await of command and sender is finite (the HTTP
  client has a timeout, a backoff ends). Nothing is assumed of the job, the
  operator, acceptance or faults. `EveryEntrySettles` is about a live sender: a
  sender that ended with an error is not started again while its job runs, and
  `docs/DURABLE_OUTPUT.md` asks for a resume.
* `mailbox`: senders and the drop of the receiver run on; the consumer may stop
  reading and keep its envelopes. Only `NoStarvation` assumes a consumer, and
  says so as its premise.

* `jetstream`: the actor, its workers, the ACK driver and the job run on. The
  actor's `select!` is biased towards signals, joins and commands, so these are
  not passed over for ever while the loop turns through input: strong fairness
  of acknowledgement service, joins, forced cuts and commands. Nothing is
  assumed of the broker, faults or the operator; an ACK that is not confirmed
  within its tries ends the attempt.
* `supervisor`: an operation goes on once it has begun (it is spawned, and every
  join ends because the job was cancelled), retry times pass, an exited process
  is started again. The mutex is FIFO, so a waiting kill and a waiting shutdown
  get it although convergences keep coming: strong fairness of the two.
* `event_time`: the stages take the messages they have; the union's cursor
  serves its inputs in turn. Nothing makes a source send, go idle, return or
  end, and nothing makes the clock tick.

## 5. Proofs

TLAPS proves these for every value of the constants that satisfies the named
assumption of the module (any number of ids, generations, faults, callers,
requests, senders, entries, messages, pipelines).

`CheckpointStoreProofs` (from `StoreAssumption`):

* `TypeCorrect`: `Spec => []TypeOK`. Needs `Busy` (a commit under way has a real
  id) beside the types, and `MaxOfBounded` (the maximum of a bounded nonempty
  set of naturals exists), proved from the well-foundedness of `<`.
* `RestoreIsNamed`: `Spec => []RestoreOnlyNamed`, with damage, power loss and
  all. The invariant `NamedInv` says that whatever recovery can return
  (`CURRENT` on disk or in memory, a generation with a PUBLISHED marker, and
  `id` in the steps behind the rename) was named.
* `AckedNeverLost`: `"currentSync" \notin LostSyncs` implies
  `Spec => []AckedSurvives`, whichever other fsyncs are lost. `IntactInv` says for each step of `commit_bytes` which entries of the generation being
  written are visible and durable, and that every value `CURRENT` may have after
  a power loss is a complete generation no older than anything acknowledged.
  Directory entries are lost one by one, so it speaks of `seen \cap durable`;
  pruning keeps it because the generation of `CURRENT` loads, which makes it the
  protected one.
* `RecoveryIsMonotone`: `LostSyncs = {}` implies `Spec => RecoveryNeverRegresses`,
  with media faults and pins. `DiskInv` says that the generation being written is
  the newest, undamaged, and without a MANIFEST before its files are synced
  (`Writing`); that `CURRENT` is certain on disk except between its rename and
  the fsync (`CurrentKnown`); that the entries of a generation with a MANIFEST
  are synced but for the marker whose fsync is the next step (`Solid`); and that
  up to the prune `keep` is what recovery returns (`Protected`). `Floor` is a
  minimum over the values `CURRENT` may have: a prune keeps it because it spares
  `keep` and `CURRENT`, the rename because the new generation is complete and
  synced by then. With a damaged `CURRENT` recovery returns the fallback, which
  is why the code protects that one.
* `FreshStartIsFirst`: `Spec => NoSilentFreshStart`, without any assumption.
  `NeverEmpty` says that once a commit has passed the fsync of the root, and so
  before it is acknowledged, no power loss leaves a store without `CURRENT`.
* `StoreImplementsRegister`: `"currentSync" \notin LostSyncs` and no media
  faults imply `Spec => ImplementsRegister`. Under `Intact` recovery returns what `CURRENT`
  says (`IntactRecovers`), so `value` is `cur` and `floor` the oldest of
  `curDisk`; the rename is the register's show, the fsync of the root its
  settling, a power loss a fall to one of `curDisk`.
* `FallbackAlways` and `FallbackStays` (`FallbackRetained`), assuming `Roomy`:
  `LostSyncs = {}`, no requests for old snapshots, at least three generations and
  three units. `Backed` strengthens `HasFallback` from acknowledged checkpoints to
  all that have a marker, since a prune removes unmarked ones first;
  `MarkedUpTo` says that no marker is newer than `CURRENT` and that `CURRENT`
  has its own before the next generation is begun. Two generations always fit
  beside the one to be written (`TwoFit`), so the newest fallback and `CURRENT` are
  never pruned, and `CURRENT` is a fallback when it is replaced.

`AlignedGraphProofs` (from `GraphAssumption`), from one inductive invariant
`GraphInv`:

* `RestartLosesNothing` (`NoLossBeforeCut`), `RestartCountsOnce` (`CutIsClean`), and the types, for any
  number of sources, rows, attempts, faults, drops and crashes and any channel
  capacity.
* `IdsBegun`, `RequestPhase` and `UnionRegisters` are about ids: everything
  that carries one is of an attempt that has begun, so the union can tell the
  barriers of abandoned attempts from the active one by comparing ids.
* `Safe(pos, h)` says that a restart from positions `pos` with window state `h`
  loses and repeats nothing: the rows before `pos` are delivered or in `h`, and
  those of them still in flight are in `h`. Every move of rows keeps it, because
  rows come into flight only from behind the cursors and leave only when they
  are delivered or dropped (`FlowStep`). It holds of `committed` always, and of
  `replies` and `frozen` while the coordinator commits them.
* `Attempt` is how `Safe(replies, frozen)` comes about. The barrier of the
  active attempt is once in each source's line (channel, mailbox, the union's
  hand), with exactly the rows before the source's reply in front of it
  (`Dividing`); until the union is aligned only such rows pass it (`NotAligned`),
  so the window holds no other when the barrier reaches it (`Unfrozen`) and
  freezes what it holds. Rows before the barrier that are not frozen are in front
  of it on the way to the sink (`Freezing`), which acknowledges only after every
  receipt. Then `Accounted` closes the argument: while no result was dropped,
  what was read is in flight or delivered; after a drop the sink refuses, and the
  attempt is not committed.
* After a crash, whose state is built from `committed`, the invariant is
  established anew (`CrashInvariant`). TLC checked `GraphInv` on the instance of
  `graph_crash` and with two rows per source, batches and channels of two
  before it was proved.

`EventTimeWindowProofs` (from `EventTimeAssumption`), from `EventInv`:

* `FinalsPrecedeWatermarks` (`FinalBeforeWatermark`), `PromisesAreKept`
  (`PromiseKept`) and the types, for any batches whose event times have a latest
  one (`Forever`, the model's `i64::MAX`, lies above it).
* `FinalInv`: an open window ends after the watermark the window has emitted,
  the stages behind it have seen no later one, and the same holds in the
  checkpoint a restart takes.
* `LateInv`: in front of a batch whose source was never idle nothing carries a
  watermark above what that source had promised when it sent the batch: not in
  its inbox, at the union's hub, in the channel to the window or at the window's
  hub. The hub takes the minimum over the active inputs, so the source that is
  waited for holds the others back (`Steady`).

`CheckpointAdmissionProofs` (from `AdmissionAssumption`), all from one
inductive invariant `AdmissionInv`:

* `AdmissionTyped` (types), and `AtMostOneAttempt`, `StatusTellsTheTruth`,
  `AnswersAreDurable`, `EndIsQuiet`: the four safety properties of the run
  `admission`.
* `AdmissionInv` adds to `OneAdmission` the order of the counters
  (`status.last <= durable < nextId <= admitted + 1`, and equality of the first
  two unless a request stands before `finish` or an error is shown) and, for
  each request, what its position says of ids, channel, actor, status and
  answer. The ids are what makes it inductive: a request in front of the actor
  has no id yet, one behind it has an id above everything published, so a
  commit never moves `CURRENT` back and `EndedMeansQuiet` can tell a worker from
  a queued command. `OneAdmission` then reduces every step to the one live
  request (`MoveKeeps`); steps that touch none are `QuietKeeps`.

`SupervisorProofs` (from `ConstantsAssumption`):

* `OwnerInvariant`, and from it `TypeCorrect`, `OneJobAtATime` (`OneJob`) and
  `ShutdownLeavesNothing` (`ShutdownIsFinal`). `OwnerInv` ties the tasks that
  exist to the map of jobs and to the operation that holds the mutex: a job in
  the map has its tasks until they end, and a job that was taken out of the map
  has tasks only while the operation that took it out joins them (`Owned`).
  That a second job is never opened beside the first needs, for each place in
  the operation, what it has made sure of there (`OperationInv`): an entry that
  is to be reaped has ended, a start finds the slot empty.
* `HoldInvariant` and `NothingRestartsUnattended`: the action property
  `NoUnattendedRestart`. `HoldInv` says that the catalog knows the failures
  (`Recorded`), that a start under way still satisfies the hold check it passed,
  because requests only lift holds (`Admitted`), and that a fixed revision which
  is wanted and was started once is in the map, latched or completed
  (`Latched`).

`OutboxProofs` (from `OutboxAssumption`), all from `OutboxInv`:

* `SenderInv` gives `NoStaleCompletion` (`InFlightReserved`), `PausedIsQuiet`
  (`PauseQuiesces`) and `BindingIsFresh` (`BoundByResume`). At most one sender
  is under way because a command cancels and awaits the old one before it makes
  the next, and holds the transition lock over both (`OneSender`, `Replaced`);
  the `worker` flag of the sender plays no part in it.
* `TableInv` says what the table holds for each entry a sender has reserved
  (`Holds`), that a result is about the entry as it is (`Truthful`), and how
  attempts and POSTs count up together; `LimitsAreKept` (`LimitsHold`) follows.
* `CoverInv` gives `NothingLostBehindTheCut` (`CutCovered`): a batch the cut has
  or the position of the job has passed was received, is stored, or was
  discarded by an operator. `Truthful` is what it needs of the sender, which
  deletes an entry only after an answer that says the body was delivered.

`JetStreamSourceProofs` (from `JetStreamAssumption`), from `SourceInv`:

* `AcksFollowCheckpoints` (`AckedIsDurable`), `CheckpointsAreExact`
  (`DurableExact`), `PoisonIsCapturedOnce` (`QuarantinedOnce`),
  `BindingNamesTheConsumer` (`NoOrphanConsumer`), the types, and
  `SourceKeepsLimits` (checkpoints kept, DLQ, ledger and inbox stay within their
  limits).
* What makes `DurableExact` inductive is where each row stands: in the job's
  state, in one batch of the inbox, or ahead of the reader. `Placed` names, for
  each batch of the inbox, the position the job has when it has taken it; a cut
  records such a position (`Cuts`, `Aligned`), so a commit writes the rows up
  to it and no other. Redelivery is harmless because the reader takes messages
  in order (`Reading`, `Sorted`) and what is below the position is in the ledger
  or covered (`Covered`, `Committed`). The input DLQ and its floor are in
  `Captured` and `Gate`; `ConsumerInv` is the binding protocol.

`MailboxProofs` (from `MailboxAssumption`):

* `AccountsBalance`: `Spec => []AccountsExact`, for any number of senders, any
  sizes and limits. Sums are numbers of units, so the three facts they need
  (`TotalUpdate`, `TotalAppend`, `TotalTail`) come from the theorems on finite
  sets. `MoveKeeps` reduces each step of a sender to what it takes and what it
  gives back. Beside the accounts the invariant has the types and the places a
  sender may be in; that the gauge never exceeds the limit follows because who
  is counted holds credit. The queues of waiters play no part in it: they
  matter to liveness alone.

Every safety invariant and action property of the passing runs, and the
refinement, is stated by a theorem. Only model-checked: the liveness properties
(the prover does not handle fairness), and what the store does outside the
theorem's assumptions for `FallbackRetained`: the run has pins, the theorem none.

## 6. Limits that the models made visible

* `FallbackRetained` is claimed for a writer without a pin, with every fsync
  honoured and no half-pruned generation on its disk, and fails without each of
  these. A pin takes one of the retention slots; a marker that was not synced
  before a kill looks published to the next writer. Past pins count through what
  they leave: with two faults, a generation that is published and was not
  acknowledged because of a power loss can be removed half way by the prune of a
  writer that is pinned to the one before it; a later prune without a pin then
  removes that older one first, because the leftover still counts as published.
* If the fsync of the root behind the rename of `CURRENT` fails, or the process
  is killed before it, and the next writer goes on, an acknowledged checkpoint
  can be lost: nothing syncs the root before that writer prunes. With a pin: a
  kill between the rename and the fsync, a next writer that is pinned elsewhere
  and prunes the old generation, then a power loss that keeps the removal and not
  the rename. Without pins it takes three faults and four ids: the fsync after
  the rename of 2 is lost and the next writer marks 2; a power loss takes
  `CURRENT` back to 1 and keeps the marker of 2; the fsync after the rename of 3
  is lost too, and the next writer's prune removes 1 before it syncs the root.
  `AckedSurvives` and the refinement are claimed, checked and proved only
  without this (`"currentSync" \notin LostSyncs`). File systems that order
  directory updates exclude it, and `docs/PRODUCTION.md:18` lists power loss as
  not tested.
* With damaged files, a lost fsync can make recovery worse:
  `RecoveryNeverRegresses` is claimed for `LostSyncs = {}` only. Without damage
  the refinement covers it, as the register's floor never falls.
* The union can end its job with "conflicting active graph barrier"
  (`kernel/graph.rs:1190`) after an abandoned attempt, where `docs/DAG.md:133`
  says that abandonment releases the blocked inputs: the select polls the
  abandonment token first (`:1106`) and the inputs after it (`:1109`); if in
  between, on other threads, the attempt is dropped, the next one begun and its
  barrier queued, the union takes that barrier while `aligning` still names the
  dropped attempt. The model reaches it (`UnionFails`). No row is lost or
  repeated: the job restarts from the committed cut, and `NoLossBeforeCut`,
  `CutIsClean`, `AttemptEnds` and `Drains` hold through it.
* An id is used twice only after media damage of `CURRENT` together with a
  missing marker.
* A checkpoint command queued behind a publish that never finds room keeps the
  gate closed beyond its deadline, until the job is cancelled; its caller
  returns in time. `GateReopens` is stated for requests the actor has taken.

* A failure of an old revision that is reaped after an explicit start of a new
  one sets the latch and the count again (`supervisor.rs:1019`); in safe mode
  the new revision is then held without having been tried.
* A start of revision 2 followed by one of revision 1, before the supervisor
  looked, leaves the reported status at `stopped` while revision 1 keeps running
  (`supervisor.rs:926`).
* A source that was idle before a restart is active and silent after it: no
  window behind the union closes until it speaks or is declared idle again.

## 7. Plan

In order of importance; the project keeps to a dozen runs and few, strong
properties.

1. Done: store, register, graph, admission, outbox, mailbox, JetStream source,
   supervisor, event time.
2. Done: theorems for every safety property of these modules and for the
   refinement of `CheckpointRegister`.
3. Memory owners: hierarchical credit with leases; conservation as in `Mailbox`.
4. Recovery operations; reference tables' journal.
5. Aggregates and IoT operators as functions against a reference definition.

## 8. Not modelled, and why

| part | reason |
|---|---|
| SQL, plan, expressions, formats | pure functions over large data types; tests and fuzzing fit better than TLC |
| specification and validation | static checks, no state |
| connectors | transport I/O; their receipts, losses and duplicates are external actions of the models |
| server, command line | routes and printing over supervisor operations |
| aggregates, processing-time, count, sliding and session windows, IoT operators, lookups, joins | data-heavy sequential code, later as operators against a reference |
| ordered and paused time | a separate decision-log protocol, after the core |
| control store beyond the lifecycle rows | tables, secrets, plugins and history are independent SQL transactions |
| memory owners, recovery operations, reference tables, plugins | planned, section 7 |
