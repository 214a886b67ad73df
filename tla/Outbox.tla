------------------------------- MODULE Outbox -------------------------------
(***************************************************************************)
(* The durable HTTP outbox: a bounded SQLite queue between a job and an    *)
(* HTTP receiver.  Four actors share it.                                   *)
(*                                                                         *)
(*  - The job's ingress commits one encoded batch as one entry and only    *)
(*    then acknowledges it, so a checkpoint cut may pass the batch.        *)
(*  - A sender task reserves an attempt of the head entry in the database, *)
(*    POSTs it, and settles the outcome in the database.                   *)
(*  - An operator pauses, resumes, replays and purges, through commands    *)
(*    that hold the supervisor's transition lock.                          *)
(*  - The receiver may accept a request and lose the answer.               *)
(*                                                                         *)
(* Each database transaction is one step (the connection sits behind a     *)
(* mutex and a transaction is IMMEDIATE); everything between two           *)
(* transactions interleaves, and the process may crash between any two     *)
(* steps.  Clock readings are abstracted to what next() and settle()       *)
(* compare them for: not yet due, due, or past the elapsed-time budget.    *)
(* Bodies have one size, so the byte limits coincide with the entry limits *)
(***************************************************************************)
EXTENDS Naturals, FiniteSets, FiniteSetsExt, Functions

CONSTANTS
  MaxAttempts,  \* spec.max_attempts
  PendingCap,   \* spec.max_pending_entries
  DlqCap,       \* spec.max_dlq_entries
  Commands,     \* the commands issued: of "pause", "resume", "start"
  Batches,      \* bound: how many batches the source holds
  MaxId,        \* bound: how many entries are ever enqueued
  MaxGen,       \* bound on replay_generation (1000 in the code)
  MaxPolicy,    \* bound: how often the target policy is changed
  MaxCrashes,   \* bound: process crashes
  MaxFaults     \* bound: failed transactions and sender errors

ASSUME OutboxAssumption ==
  /\ MaxAttempts \in Nat \ {0}
  /\ PendingCap \in Nat \ {0}
  /\ DlqCap \in Nat \ {0}
  /\ Commands \subseteq {"pause", "resume", "start"}
  /\ Batches \in Nat
  /\ MaxId \in Nat
  /\ MaxGen \in Nat
  /\ MaxPolicy \in Nat
  /\ MaxCrashes \in Nat
  /\ MaxFaults \in Nat

VARIABLES
  entries,    \* the table: a function whose domain is the set of stored ids
  nextId,     \* meta.next_id
  paused,     \* meta.paused
  task,       \* the sender tasks, running or finished
  worker,     \* Outbox::worker, the single-sender flag
  registry,   \* the task listed in Supervisor::outbox_workers, 0 if none
  ctl,        \* the command that holds the transition lock
  policy,     \* version of the target policy and credentials in the catalog
  job,        \* the job's ingress task
  cut,        \* source position of the last published checkpoint
  received,   \* bodies the receiver has accepted
  purged,     \* bodies an operator has discarded
  posts,      \* history: POSTs begun for an id in its current generation
  resumedAt,  \* history: policy version read by the last completed resume
  crashes, faults

vars == <<entries, nextId, paused, task, worker, registry, ctl, policy, job,
          cut, received, purged, posts, resumedAt, crashes, faults>>

db      == <<entries, nextId, paused>>
senders == <<task, worker, registry>>
input   == <<job, cut>>
remote  == <<received, posts>>

Ids   == 1 .. MaxId
Tasks == 1 .. 2
Outcomes == {"Delivered", "Retry", "Dead"}

NoTask == [pc |-> "none", id |-> 0, attempt |-> 0, hit |-> FALSE,
           outcome |-> "Retry", bound |-> 0, cancelled |-> FALSE]
NoCommand == [op |-> "none", pc |-> "idle", version |-> 0, old |-> 0]

-----------------------------------------------------------------------------
(* The table.                                                              *)

InState(S) == {i \in DOMAIN entries : entries[i].state \in S}

\* totals(): blocked entries count against the pending limits.
PendingTotal == Cardinality(InState({"pending", "blocked"}))
DlqTotal == Cardinality(InState({"dlq"}))

\* capacity()
PendingRoom == PendingTotal < PendingCap
DlqRoom == DlqTotal < DlqCap

\* check_bounds(), evaluated whenever the outbox is opened.
WithinBounds == PendingTotal <= PendingCap /\ DlqTotal <= DlqCap

\* dead(): a terminal failure goes to the DLQ, or blocks if it has no room.
DeadState == IF DlqRoom THEN "dlq" ELSE "blocked"
DeadDropped(id) ==
  IF DlqRoom THEN [entries EXCEPT ![id].state = "dlq"]
             ELSE Restrict(entries, DOMAIN entries \ {id})
Dead(id) == [entries EXCEPT ![id].state = DeadState]

\* The entry next() looks at: the lowest id that is not in the DLQ.
Waiting == InState({"pending", "blocked"})
IsHead(id) == id \in Waiting /\ \A j \in Waiting : id <= j

-----------------------------------------------------------------------------
(* The job's ingress and the checkpoint behind it.                         *)

\* enqueue() commits the batch at the current source position.
Enqueue ==
  /\ job.pc = "running"
  /\ job.pos < Batches
  /\ nextId <= MaxId
  /\ PendingRoom
  /\ entries' = [i \in DOMAIN entries \cup {nextId} |->
                   IF i = nextId
                     THEN [state |-> "pending", body |-> job.pos,
                           attempts |-> 0, gen |-> 0]
                     ELSE entries[i]]
  /\ nextId' = nextId + 1
  /\ job' = [job EXCEPT !.pc = "committed"]
  /\ UNCHANGED <<paused, senders, ctl, policy, cut, remote, purged, resumedAt,
                 crashes, faults>>

\* The same blocking closure acknowledges the batch after the commit.
Ack ==
  /\ job.pc = "committed"
  /\ job' = [pc |-> "running", pos |-> job.pos + 1]
  /\ UNCHANGED <<db, senders, ctl, policy, cut, remote, purged, resumedAt,
                 crashes, faults>>

\* No room, or the transaction failed: the batch is dropped without an
\* acknowledgement and the ingress loop ends, which fails the job.
RefusedAcked == job' = [job EXCEPT !.pos = @ + 1]
Refused == job' = [job EXCEPT !.pc = "stopped"]
EnqueueFails ==
  /\ job.pc = "running"
  /\ job.pos < Batches
  /\ \/ ~PendingRoom /\ faults' = faults
     \/ faults < MaxFaults /\ faults' = faults + 1
  /\ Refused
  /\ UNCHANGED <<db, senders, ctl, policy, cut, remote, purged, resumedAt,
                 crashes>>

\* A checkpoint is published only when every batch before it is acknowledged.
Checkpoint ==
  /\ job.pc = "running"
  /\ cut < job.pos
  /\ cut' = job.pos
  /\ UNCHANGED <<db, senders, ctl, policy, job, remote, purged, resumedAt,
                 crashes, faults>>

\* kill or stop of the pipeline: the sender keeps running.
StopJob ==
  /\ job.pc = "running"
  /\ ctl.pc = "idle"
  /\ job' = [job EXCEPT !.pc = "stopped"]
  /\ UNCHANGED <<db, senders, ctl, policy, cut, remote, purged, resumedAt,
                 crashes, faults>>

-----------------------------------------------------------------------------
(* The sender task: run_durable_sender.                                    *)

Set(t, rec) == task' = [task EXCEPT ![t] = rec]

\* The task returns; dropping its BoundQueue clears the single-sender flag.
Exit(t) ==
  /\ Set(t, NoTask)
  /\ worker' = FALSE
  /\ UNCHANGED <<db, registry, ctl, policy, input, remote, purged, resumedAt,
                 crashes, faults>>

\* An error out of run_durable_sender: the queue handle is dropped first, the
\* audit record is written while the task is still alive.
Fail(t) ==
  /\ Set(t, [NoTask EXCEPT !.pc = "failing", !.cancelled = task[t].cancelled])
  /\ worker' = FALSE
  /\ UNCHANGED <<db, registry, ctl, policy, input, remote, purged, resumedAt,
                 crashes>>

AuditFailure(t) ==
  /\ task[t].pc = "failing"
  /\ Set(t, NoTask)
  /\ UNCHANGED <<db, worker, registry, ctl, policy, input, remote, purged,
                 resumedAt, crashes, faults>>

\* next() gives an entry up when it is blocked, when its attempts are used up,
\* or when the clock says that its elapsed-time budget is (late).
GivenUp(id, late) ==
  \/ entries[id].state = "blocked"
  \/ entries[id].attempts >= MaxAttempts
  \/ late

\* next() reserves an attempt of a due head in the database, then hands out
\* the body.
ReservedLater(id) == entries
Reserved(id) == [entries EXCEPT ![id].attempts = @ + 1]
Reserve(t, id) ==
  /\ task[t].pc = "idle" /\ ~task[t].cancelled
  /\ ~paused
  /\ IsHead(id)
  /\ ~GivenUp(id, FALSE)
  /\ entries' = Reserved(id)
  /\ Set(t, [task[t] EXCEPT !.pc = "taken", !.id = id,
                            !.attempt = entries[id].attempts + 1,
                            !.hit = FALSE])
  /\ UNCHANGED <<nextId, paused, worker, registry, ctl, policy, input, remote,
                 purged, resumedAt, crashes, faults>>

NextDeadBlocked(t, id, late) ==
  /\ task[t].pc = "idle" /\ ~task[t].cancelled
  /\ ~paused
  /\ IsHead(id)
  /\ entries[id].state = "blocked"
  /\ entries' = Dead(id)
  /\ UNCHANGED <<nextId, paused, senders, ctl, policy, input, remote, purged,
                 resumedAt, crashes, faults>>

\* next() moves a given-up head towards the DLQ and returns nothing.
NextDead(t, id, late) ==
  /\ task[t].pc = "idle" /\ ~task[t].cancelled
  /\ ~paused
  /\ IsHead(id)
  /\ GivenUp(id, late)
  /\ entries' = Dead(id)
  /\ UNCHANGED <<nextId, paused, senders, ctl, policy, input, remote, purged,
                 resumedAt, crashes, faults>>

\* next() fails: clock before the creation time, no memory credit, damaged
\* body, database error.
NextFails(t) ==
  /\ task[t].pc = "idle" /\ ~task[t].cancelled
  /\ faults < MaxFaults /\ faults' = faults + 1
  /\ Fail(t)

\* The POST goes out.  The select is biased towards cancellation.
Post(t) ==
  /\ task[t].pc = "taken" /\ ~task[t].cancelled
  /\ Set(t, [task[t] EXCEPT !.pc = "posting"])
  /\ posts' = [posts EXCEPT ![task[t].id] = @ + 1]
  /\ UNCHANGED <<db, worker, registry, ctl, policy, input, received, purged,
                 resumedAt, crashes, faults>>

\* The receiver accepts the request (external).
RemoteAccepts(t) ==
  /\ task[t].pc = "posting" /\ ~task[t].hit
  /\ Set(t, [task[t] EXCEPT !.hit = TRUE])
  /\ received' = received \cup {entries[task[t].id].body}
  /\ UNCHANGED <<db, worker, registry, ctl, policy, input, posts,
                 purged, resumedAt, crashes, faults>>

\* post_durable returns: 2xx, a permanent refusal, or anything retryable, a
\* lost answer of an accepted request included.
Answer(t, o) ==
  /\ task[t].pc = "posting" /\ ~task[t].cancelled
  /\ o = "Delivered" => task[t].hit
  /\ o = "Dead" => ~task[t].hit
  /\ Set(t, [task[t] EXCEPT !.pc = "answered", !.outcome = o])
  /\ UNCHANGED <<db, worker, registry, ctl, policy, input, remote, purged,
                 resumedAt, crashes, faults>>

\* settle() refuses a completion whose entry is not pending with this attempt.
Stale(t) ==
  LET id == task[t].id IN
  \/ id \notin DOMAIN entries
  \/ entries[id].state # "pending"
  \/ entries[id].attempts # task[t].attempt

\* What settle() writes; late says that the elapsed-time budget is used up.
SettledEntries(t, late) ==
  LET id == task[t].id IN
  CASE task[t].outcome = "Delivered" -> Restrict(entries, DOMAIN entries \ {id})
    [] task[t].outcome = "Dead" -> Dead(id)
    [] OTHER -> IF task[t].attempt >= MaxAttempts \/ late
                  THEN Dead(id) ELSE entries
Settle(t, late) ==
  /\ task[t].pc = "answered" /\ ~Stale(t)
  /\ entries' = SettledEntries(t, late)
  /\ Set(t, [task[t] EXCEPT !.pc = "idle", !.id = 0, !.attempt = 0,
                            !.hit = FALSE, !.outcome = "Retry"])
  /\ UNCHANGED <<nextId, paused, worker, registry, ctl, policy, input, remote,
                 purged, resumedAt, crashes, faults>>

SettleFails(t) ==
  /\ task[t].pc = "answered"
  /\ \/ Stale(t) /\ faults' = faults
     \/ faults < MaxFaults /\ faults' = faults + 1
  /\ Fail(t)

\* Cancellation is seen at the top of the loop, in the idle sleep and in the
\* select around the POST; never between an answer and its settlement.
Cancelled(t) ==
  /\ task[t].cancelled
  /\ task[t].pc \in {"idle", "taken", "posting"}
  /\ Exit(t)

-----------------------------------------------------------------------------
(* Commands: each runs to its end under the supervisor's transition lock.  *)

\* ensure_outbox_sender: a listed, unfinished task is kept as it is.  A new task
\* takes the first free slot of the model's two.
Alive == registry # 0 /\ task[registry].pc # "none"
Spawn(version) ==
  \E t \in Tasks :
    /\ task[t].pc = "none"
    /\ \A u \in Tasks : u < t => task[u].pc # "none"
    /\ Set(t, [NoTask EXCEPT !.pc = "idle", !.bound = version])
    /\ registry' = t
    /\ worker' = TRUE
EnsureOk == Alive \/ (WithinBounds /\ ~worker)
EnsureSender(version) ==
  IF Alive THEN UNCHANGED senders ELSE WithinBounds /\ ~worker /\ Spawn(version)

ResumeKeepsSender(op) == IF op = "pause" THEN "write" ELSE "ensure"
FirstStep(op) == CASE op = "pause"  -> "write"
                   [] op = "resume" -> "reap"
                   [] op = "start"  -> "ensure"

\* The command reads the catalog, the target policy included.
Begin(op) ==
  /\ ctl.pc = "idle"
  /\ op = "start" => job.pc = "stopped"
  /\ ctl' = [op |-> op, version |-> policy, old |-> 0,
             pc |-> FirstStep(op)]
  /\ UNCHANGED <<db, senders, policy, input, remote, purged, resumedAt,
                 crashes, faults>>

\* The pause flag is committed before the sender is cancelled.
WritePause ==
  /\ ctl.op = "pause" /\ ctl.pc = "write"
  /\ paused' = TRUE
  /\ ctl' = [ctl EXCEPT !.pc = "reap"]
  /\ UNCHANGED <<entries, nextId, senders, policy, input, remote, purged,
                 resumedAt, crashes, faults>>

AfterReap == IF ctl.op = "pause" THEN NoCommand ELSE [ctl EXCEPT !.pc = "ensure"]

ReapNoCancel ==
  /\ ctl.pc = "reap"
  /\ registry' = 0
  /\ ctl' = IF registry = 0 THEN AfterReap
            ELSE [ctl EXCEPT !.pc = "await", !.old = registry]
  /\ UNCHANGED <<db, task, worker, policy, input, remote, purged, resumedAt,
                 crashes, faults>>

\* Take the worker out of the registry and cancel its token.
Reap ==
  /\ ctl.pc = "reap"
  /\ registry' = 0
  /\ IF registry = 0
       THEN ctl' = AfterReap /\ task' = task
       ELSE /\ ctl' = [ctl EXCEPT !.pc = "await", !.old = registry]
            /\ task' = [task EXCEPT ![registry].cancelled =
                          (@ \/ task[registry].pc # "none")]
  /\ UNCHANGED <<db, worker, policy, input, remote, purged, resumedAt,
                 crashes, faults>>

\* old.task.await
AwaitSkipped == TRUE
AwaitDone == task[ctl.old].pc = "none"
Await ==
  /\ ctl.pc = "await"
  /\ AwaitDone
  /\ ctl' = AfterReap
  /\ UNCHANGED <<db, senders, policy, input, remote, purged, resumedAt,
                 crashes, faults>>

\* resume and start make sure of a sender; a start then activates the source
\* at the position of the last checkpoint.
Ensure ==
  /\ ctl.pc = "ensure"
  /\ EnsureSender(ctl.version)
  /\ \/ /\ ctl.op = "resume"
        /\ ctl' = [ctl EXCEPT !.pc = "write"]
        /\ job' = job
     \/ /\ ctl.op = "start"
        /\ ctl' = NoCommand
        /\ job' = [pc |-> "running", pos |-> cut]
  /\ UNCHANGED <<db, policy, cut, remote, purged, resumedAt, crashes, faults>>

\* Opening, binding or attaching fails: the command ends with an error.
EnsureFails ==
  /\ ctl.pc = "ensure"
  /\ \/ ~EnsureOk /\ faults' = faults
     \/ ~Alive /\ faults < MaxFaults /\ faults' = faults + 1
  /\ ctl' = NoCommand
  /\ registry' = 0
  /\ UNCHANGED <<db, task, worker, policy, input, remote, purged, resumedAt,
                 crashes>>

WriteResume ==
  /\ ctl.op = "resume" /\ ctl.pc = "write"
  /\ paused' = FALSE
  /\ resumedAt' = ctl.version
  /\ ctl' = NoCommand
  /\ UNCHANGED <<entries, nextId, senders, policy, input, remote, purged,
                 crashes, faults>>

\* replay: only a DLQ entry, only with pending room; a fresh budget under the
\* next generation.
ReplayableAnyState(id) == PendingRoom
Replayable(id) == entries[id].state = "dlq" /\ PendingRoom
Replay(id) ==
  /\ ctl.pc = "idle"
  /\ Replayable(id)
  /\ entries[id].gen < MaxGen
  /\ entries' = [entries EXCEPT ![id].state = "pending", ![id].attempts = 0,
                                ![id].gen = @ + 1]
  /\ posts' = [posts EXCEPT ![id] = 0]
  /\ UNCHANGED <<nextId, paused, senders, ctl, policy, input, received,
                 purged, resumedAt, crashes, faults>>

Purge(id) ==
  /\ ctl.pc = "idle"
  /\ entries[id].state = "dlq"
  /\ entries' = Restrict(entries, DOMAIN entries \ {id})
  /\ purged' = purged \cup {entries[id].body}
  /\ UNCHANGED <<nextId, paused, senders, ctl, policy, input, remote,
                 resumedAt, crashes, faults>>

\* The operator changes the allowlist or the credentials in the catalog.
ChangePolicy ==
  /\ policy < MaxPolicy
  /\ policy' = policy + 1
  /\ UNCHANGED <<db, senders, ctl, input, remote, purged, resumedAt, crashes,
                 faults>>

\* Everything in memory is lost; the table and the checkpoint survive.
Crash ==
  /\ crashes < MaxCrashes
  /\ crashes' = crashes + 1
  /\ task' = [t \in Tasks |-> NoTask]
  /\ worker' = FALSE
  /\ registry' = 0
  /\ ctl' = NoCommand
  /\ job' = [pc |-> "stopped", pos |-> 0]
  /\ UNCHANGED <<db, policy, cut, remote, purged, resumedAt, faults>>

-----------------------------------------------------------------------------
Init ==
  /\ entries = [i \in {} |-> 0]
  /\ nextId = 1
  /\ paused = FALSE
  /\ task = [t \in Tasks |-> NoTask]
  /\ worker = FALSE
  /\ registry = 0
  /\ ctl = NoCommand
  /\ policy = 0
  /\ job = [pc |-> "stopped", pos |-> 0]
  /\ cut = 0
  /\ received = {}
  /\ purged = {}
  /\ posts = [i \in Ids |-> 0]
  /\ resumedAt = 0
  /\ crashes = 0
  /\ faults = 0

SenderStep(t) ==
  \/ \E id \in DOMAIN entries :
       Reserve(t, id) \/ \E late \in BOOLEAN : NextDead(t, id, late)
  \/ NextFails(t)
  \/ Post(t)
  \/ RemoteAccepts(t)
  \/ \E o \in Outcomes : Answer(t, o)
  \/ \E late \in BOOLEAN : Settle(t, late)
  \/ SettleFails(t)
  \/ Cancelled(t)
  \/ AuditFailure(t)

CommandStep ==
  \/ WritePause
  \/ Reap
  \/ Await
  \/ Ensure
  \/ EnsureFails
  \/ WriteResume

Next ==
  \/ Enqueue
  \/ Ack
  \/ EnqueueFails
  \/ Checkpoint
  \/ StopJob
  \/ \E t \in Tasks : SenderStep(t)
  \/ \E op \in Commands : Begin(op)
  \/ CommandStep
  \/ \E id \in DOMAIN entries : Replay(id) \/ Purge(id)
  \/ ChangePolicy
  \/ Crash

Spec == Init /\ [][Next]_vars

\* The tasks run on the async runtime and every await they make is finite: the
\* HTTP client has a timeout and a backoff ends.  Nothing is assumed of the
\* job, the operator, the receiver's acceptance, crashes or faults.
SenderWork(t) ==
  \/ \E id \in DOMAIN entries :
       Reserve(t, id) \/ \E late \in BOOLEAN : NextDead(t, id, late)
  \/ Post(t)
  \/ \E o \in Outcomes : Answer(t, o)
  \/ \E late \in BOOLEAN : Settle(t, late)
  \/ SettleFails(t)
  \/ Cancelled(t)
  \/ AuditFailure(t)

FairSpec ==
  /\ Spec
  /\ WF_vars(CommandStep)
  /\ \A t \in Tasks : WF_vars(SenderWork(t))

-----------------------------------------------------------------------------
(* Properties.                                                             *)

EntryRecord == [state : {"pending", "dlq", "blocked"}, body : 0 .. Batches,
                attempts : 0 .. MaxAttempts, gen : 0 .. MaxGen]
TaskRecord == [pc : {"none", "idle", "taken", "posting", "answered", "failing"},
               id : 0 .. MaxId, attempt : 0 .. MaxAttempts, hit : BOOLEAN,
               outcome : Outcomes, bound : 0 .. MaxPolicy, cancelled : BOOLEAN]
CommandRecord == [op : {"none", "pause", "resume", "start"},
                  pc : {"idle", "write", "reap", "await", "ensure"},
                  version : 0 .. MaxPolicy, old : 0 .. 2]

\* Every variable of the outbox, its sender and its commands keeps its type.
TypeOK ==
  /\ DOMAIN entries \subseteq Ids
  /\ entries \in [DOMAIN entries -> EntryRecord]
  /\ nextId \in 1 .. MaxId + 1
  /\ paused \in BOOLEAN
  /\ task \in [Tasks -> TaskRecord]
  /\ worker \in BOOLEAN
  /\ registry \in 0 .. 2
  /\ ctl \in CommandRecord
  /\ policy \in 0 .. MaxPolicy
  /\ job \in [pc : {"stopped", "running", "committed"}, pos : 0 .. Batches]
  /\ cut \in 0 .. Batches
  /\ received \subseteq 0 .. Batches
  /\ purged \subseteq 0 .. Batches
  /\ posts \in [Ids -> Nat]
  /\ resumedAt \in 0 .. MaxPolicy
  /\ crashes \in 0 .. MaxCrashes
  /\ faults \in 0 .. MaxFaults

\* Every batch the source will not replay (it lies before the published cut)
\* has reached the receiver, is still stored, or was discarded by an operator:
\* acknowledging after the enqueue commit makes the outbox at-least-once
\* across full queues, full DLQs, failed transactions and crashes.
CutCovered ==
  \A b \in 0 .. Batches :
    b < cut => \/ b \in received \cup purged
               \/ \E i \in DOMAIN entries : entries[i].body = b

\* One generation of an entry is POSTed at most max_attempts times, however
\* often the sender is cancelled, fails or dies between reservation, POST and
\* settlement, because next() commits the attempt before it hands out bytes.
AttemptsBounded == \A i \in DOMAIN entries : posts[i] <= MaxAttempts

\* No path through replay, settlement, crash and restart exceeds a limit of
\* the outbox: neither the attempts of an entry nor the stored totals, so
\* check_bounds never refuses to reopen the outbox after a restart.
LimitsHold == AttemptsBounded /\ WithinBounds

\* What a sender holds is exactly the attempt reserved in the table, and no
\* other task holds anything: no command, no second sender and no restart can
\* replay, purge or re-reserve an entry under a request in flight, so a
\* completion that settle() would call stale does not arise.
InFlight(t) == task[t].pc \in {"taken", "posting", "answered"}
InFlightReserved ==
  \A t \in Tasks : InFlight(t) =>
    /\ ~Stale(t)
    /\ \A u \in Tasks : InFlight(u) => u = t

\* Once a pause command has returned, no request is in flight and none will
\* be settled until a resume: the flag stops next(), and the command waits for
\* the cancelled task.
PauseQuiesces ==
  paused /\ ctl.pc = "idle" => \A t \in Tasks : ~InFlight(t)

\* After a resume, no request goes out under a policy or credential binding
\* older than the one that resume read: the old sender is gone before the
\* pause flag is cleared.
BoundByResume == \A t \in Tasks : InFlight(t) => task[t].bound >= resumedAt

\* A running, uncancelled sender of an unpaused outbox gets every pending
\* entry delivered, dead-lettered or blocked, unless an older blocked entry
\* stands before it.
Draining == ~paused /\ \E t \in Tasks : task[t].pc \notin {"none", "failing"}
Stands(i) == i \in DOMAIN entries /\ entries[i].state = "pending"
             /\ ~ \E j \in InState({"blocked"}) : j < i
EveryEntrySettles ==
  \A i \in Ids : (Stands(i) /\ Draining) ~> ~(Stands(i) /\ Draining)

\* A pause, resume or start command always returns: the sender it waits for
\* leaves its loop, whatever it was doing when it was cancelled.
CommandReturns == (ctl.pc # "idle") ~> (ctl.pc = "idle")
=============================================================================
