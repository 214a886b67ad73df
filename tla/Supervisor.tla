----------------------------- MODULE Supervisor -----------------------------
(***************************************************************************)
(* The job supervisor of sparrow-control: requests write the desired row   *)
(* of a pipeline in the catalog, and one lifecycle operation at a time,    *)
(* under the `transition` mutex, makes the running jobs follow it and      *)
(* writes the actual row.  Requests never take that mutex, so they commit  *)
(* between any two steps of an operation.                                  *)
(*                                                                         *)
(* A job is its revision and whether its tasks run; what it computes is    *)
(* left out.  A catalog call of an operation may fail: the result of the   *)
(* write is then lost, as the code ignores it or gives up.                 *)
(***************************************************************************)
EXTENDS Naturals, FiniteSets

CONSTANTS
    Pipelines,     \* names in the catalog
    MaxRevision,   \* bound on the revisions published per pipeline
    Fixed,         \* revisions whose spec requires_explicit_restart
    MaxAttempts,   \* MAX_PIPELINE_ATTEMPTS
    SafeModes,     \* values the safe-mode flag of a process may have
    MaxRequests,   \* bound on requests
    MaxKills,      \* bound on kill requests among them
    MaxRestarts,   \* bound on process exits, by a crash or by a shutdown
    MaxLost        \* bound on failing catalog calls

ASSUME ConstantsAssumption ==
    /\ Pipelines # {}
    /\ MaxRevision \in Nat \ {0} /\ MaxAttempts \in Nat \ {0}
    /\ Fixed \subseteq 1..MaxRevision
    /\ SafeModes \subseteq BOOLEAN /\ SafeModes # {}
    /\ MaxRequests \in Nat /\ MaxKills \in Nat
    /\ MaxRestarts \in Nat /\ MaxLost \in Nat

VARIABLES
    latest,    \* pipelines.latest_revision
    desired,   \* desired_state rows
    actual,    \* actual_state rows
    safe,      \* Supervisor.safe_mode of this process
    shutdown,  \* the shutdown token
    drained,   \* stop_all has returned
    jobs,      \* Supervisor.running: the revision in the map, 0: none
    stable,    \* RunningJob.stable
    ended,     \* how the tasks of the job in the map ended
    live,      \* history: how many jobs of a pipeline have tasks that run
    retry,     \* next_retry_at: no entry, an instant to come, or a past one
    kills,     \* kill_named calls that wait for the mutex
    op,        \* the operation that holds the mutex
    used,      \* history: revisions started since the last explicit start and
               \*          not killed by a caller
    failed,    \* history: the last outcome recorded is a failure
    streak,    \* history: failures recorded since the last explicit start,
               \*          stable run or completion
    requests, killCount, restarts, lost

catalog == <<latest, desired, actual>>
mode == <<safe, shutdown, drained>>
running == <<jobs, stable, ended>>
process == <<mode, running, live, retry, kills, op>>
history == <<used, failed, streak>>
counters == <<requests, killCount, restarts, lost>>
vars == <<latest, desired, actual, safe, shutdown, drained, jobs, stable, ended,
          live, retry, kills, op, used, failed, streak, requests, killCount,
          restarts, lost>>

Revision == 0..MaxRevision    \* 0 is NULL
Status == {"stopped", "starting", "running", "waiting", "failed", "completed"}

Stopped == [status |-> "stopped", rev |-> 0]

DesiredRow == [status : {"running", "stopped"}, rev : Revision]
ActualRow == [status : Status, rev : Revision, fails : Nat, blocked : BOOLEAN]

\* Where an operation stands.  todo: the pipelines it has not visited; snap:
\* the desired rows converge_inner listed; at, rev: the start under way; err:
\* how it failed.
Operation ==
    [pc : {"idle", "reap", "stable", "each", "join_stop", "write_stop",
           "validate", "join_old", "write_starting", "start", "write_running",
           "start_failed", "kill_join", "kill_write", "all",
           "all_write", "exited"},
     todo : SUBSET Pipelines,
     snap : [Pipelines -> DesiredRow],
     at : Pipelines, rev : Revision, err : {"none", "waiting", "failed"}]

AnyPipeline == CHOOSE p \in Pipelines : TRUE

Idle == [pc |-> "idle", todo |-> {},
         snap |-> [p \in Pipelines |-> Stopped],
         at |-> AnyPipeline, rev |-> 0, err |-> "none"]

TypeOK ==
    /\ latest \in [Pipelines -> 1..MaxRevision]
    /\ desired \in [Pipelines -> DesiredRow]
    /\ actual \in [Pipelines -> ActualRow]
    /\ safe \in BOOLEAN /\ shutdown \in BOOLEAN /\ drained \in BOOLEAN
    /\ jobs \in [Pipelines -> Revision]
    /\ stable \in [Pipelines -> BOOLEAN]
    /\ ended \in [Pipelines -> {"no", "ok", "error"}]
    /\ live \in [Pipelines -> Nat]
    /\ retry \in [Pipelines -> {"none", "scheduled", "due"}]
    /\ kills \subseteq Pipelines
    /\ op \in Operation
    /\ used \in [Pipelines -> SUBSET Revision] /\ failed \in [Pipelines -> BOOLEAN]
    /\ streak \in [Pipelines -> Nat]
    /\ requests \in Nat /\ killCount \in Nat
    /\ restarts \in Nat /\ lost \in Nat

Init ==
    /\ latest \in [Pipelines -> 1..MaxRevision]
    /\ desired = [p \in Pipelines |-> Stopped]
    /\ actual = [p \in Pipelines |-> [status |-> "stopped", rev |-> 0,
                                      fails |-> 0, blocked |-> FALSE]]
    /\ safe \in SafeModes /\ shutdown = FALSE /\ drained = FALSE
    /\ jobs = [p \in Pipelines |-> 0]
    /\ stable = [p \in Pipelines |-> FALSE]
    /\ ended = [p \in Pipelines |-> "no"]
    /\ live = [p \in Pipelines |-> 0]
    /\ retry = [p \in Pipelines |-> "none"]
    /\ kills = {} /\ op = Idle
    /\ used = [p \in Pipelines |-> {}]
    /\ failed = [p \in Pipelines |-> FALSE]
    /\ streak = [p \in Pipelines |-> 0]
    /\ requests = 0 /\ killCount = 0 /\ restarts = 0 /\ lost = 0

-----------------------------------------------------------------------------
(* The rows of the catalog.                                                *)

\* set_actual_inner: only a counted failure counts, only a completion clears
\* the count, and only a start that got through or a completion unlatches.
FailsAfter(row, status) ==
    CASE status = "completed" -> 0
      [] status = "failed" -> row.fails + 1
      [] OTHER -> row.fails

BlockedAfter(row, status) ==
    CASE status = "failed" -> TRUE
      [] status \in {"running", "completed"} -> FALSE
      [] OTHER -> row.blocked

SetActual(row, status, rev) ==
    [status |-> status, rev |-> rev,
     fails |-> FailsAfter(row, status), blocked |-> BlockedAfter(row, status)]

\* start_revision: clears both holds; the same running revision is kept.
StartRow(row, r) ==
    LET same == row.status = "running" /\ row.rev = r
    IN [status |-> IF same THEN "running" ELSE "stopped",
        rev |-> IF same THEN r ELSE 0, fails |-> 0, blocked |-> FALSE]

\* Mutant: the reset after a process restart sets no latch.
BootRowUnlatched(row, d) == [row EXCEPT !.status = "stopped"]

\* reset_actual_after_process_restart
BootRow(row, d) ==
    [row EXCEPT !.status = "stopped",
                !.blocked = @ \/ (d.status = "running" /\ d.rev \in Fixed)]

\* actual_if_start_allowed: the conditions under which it answers None.
Held(p) ==
    LET a == actual[p]
    IN \/ a.blocked /\ desired[p].rev \in Fixed
       \/ a.status \notin {"running", "waiting"} /\ a.fails >= MaxAttempts
       \/ safe /\ a.blocked

\* A catalog write of an operation for p, which may get lost.
WriteActual(p, row) ==
    \/ actual' = [actual EXCEPT ![p] = row] /\ lost' = lost
    \/ lost < MaxLost /\ lost' = lost + 1 /\ actual' = actual

Written == lost' = lost

-----------------------------------------------------------------------------
(* Requests: they write the catalog and return.                            *)

Serving == op.pc # "exited"

Explicit(p, r) ==
    /\ desired' = [desired EXCEPT ![p] = [status |-> "running", rev |-> r]]
    /\ actual' = [actual EXCEPT ![p] = StartRow(@, r)]
    /\ used' = [used EXCEPT ![p] = {}]
    /\ failed' = [failed EXCEPT ![p] = FALSE]
    /\ streak' = [streak EXCEPT ![p] = 0]

\* request_start_at: the latest revision, or one the caller names.
RequestStart(p, r) ==
    /\ Serving /\ requests < MaxRequests /\ r <= latest[p]
    /\ Explicit(p, r)
    /\ requests' = requests + 1
    /\ UNCHANGED <<latest, process, killCount, restarts, lost>>

\* put_pipeline, and put_pipeline_and_start, which commits the revision and
\* its explicit start in one transaction.
PutPipeline(p, activate) ==
    /\ Serving /\ requests < MaxRequests /\ latest[p] < MaxRevision
    /\ latest' = [latest EXCEPT ![p] = @ + 1]
    /\ IF activate THEN Explicit(p, latest[p] + 1)
                   ELSE UNCHANGED <<desired, actual, history>>
    /\ requests' = requests + 1
    /\ UNCHANGED <<process, killCount, restarts, lost>>

\* request_stop
RequestStop(p) ==
    /\ Serving /\ requests < MaxRequests
    /\ desired' = [desired EXCEPT ![p] = Stopped]
    /\ requests' = requests + 1
    /\ UNCHANGED <<latest, actual, process, history, killCount, restarts,
                   lost>>

\* kill_pipeline: request_stop, then kill_named queues for the mutex.
KillRequest(p) ==
    /\ Serving /\ killCount < MaxKills /\ p \notin kills
    /\ desired' = [desired EXCEPT ![p] = Stopped]
    /\ kills' = kills \union {p}
    /\ killCount' = killCount + 1
    /\ UNCHANGED <<latest, actual, mode, running, live, retry, op, history,
                   requests, restarts, lost>>

\* begin_shutdown
BeginShutdown ==
    /\ Serving /\ ~shutdown /\ restarts < MaxRestarts
    /\ shutdown' = TRUE
    /\ UNCHANGED <<catalog, safe, drained, running, live, retry, kills, op,
                   history, counters>>

\* A step of an operation that changes nothing but where it stands.
OnlyOp == UNCHANGED <<catalog, mode, running, live, retry, kills, history,
                      counters>>

-----------------------------------------------------------------------------
(* Jobs and clocks.                                                        *)

\* The tasks of a job end by themselves.
JobEnds(p, how) ==
    /\ jobs[p] # 0 /\ ended[p] = "no" /\ op.pc # "exited"
    /\ ended' = [ended EXCEPT ![p] = how]
    /\ live' = [live EXCEPT ![p] = @ - 1]
    /\ UNCHANGED <<catalog, mode, jobs, stable, retry, kills, op, history,
                   counters>>

RetryElapses(p) ==
    /\ retry[p] = "scheduled"
    /\ retry' = [retry EXCEPT ![p] = "due"]
    /\ UNCHANGED <<catalog, mode, running, live, kills, op, history,
                   counters>>

\* Taking a job out of the map leaves its tasks to whoever joins them.
RemoveJob(p) ==
    /\ jobs' = [jobs EXCEPT ![p] = 0]
    /\ stable' = [stable EXCEPT ![p] = FALSE]
    /\ ended' = [ended EXCEPT ![p] = "no"]

\* stop_job has joined the tasks of a job that was taken out of the map.
Joined(p) ==
    live' = [live EXCEPT ![p] = IF @ > 0 THEN @ - 1 ELSE 0]

-----------------------------------------------------------------------------
(* converge_inner.                                                         *)

Finished == {p \in Pipelines : jobs[p] # 0 /\ ended[p] # "no"}

\* Mutant: converge_inner does not look at the shutdown token.
ConvergeAnyway == TRUE

\* run_loop: a convergence starts while no shutdown is under way.
MayConverge == ~shutdown

ConvergeBegin ==
    /\ op.pc = "idle" /\ MayConverge
    /\ op' = [Idle EXCEPT !.pc = "reap", !.todo = Finished]
    /\ OnlyOp

\* reap_finished for one of the jobs it found.
Reap(p) ==
    LET status == IF ended[p] = "ok" THEN "completed" ELSE "failed"
        row == SetActual(actual[p], status, jobs[p])
    IN /\ op.pc = "reap" /\ p \in op.todo
       /\ RemoveJob(p)
       /\ WriteActual(p, row)
       /\ failed' = IF Written
                    THEN [failed EXCEPT ![p] = status = "failed"] ELSE failed
       /\ streak' = IF Written
                    THEN [streak EXCEPT ![p] = IF status = "failed" THEN @ + 1 ELSE 0]
                    ELSE streak
       /\ retry' = IF status = "failed"
                   THEN [retry EXCEPT ![p] = "scheduled"] ELSE retry
       /\ op' = [op EXCEPT !.todo = @ \ {p}]
       /\ UNCHANGED <<latest, desired, mode, live, kills, used, requests,
                      killCount, restarts>>

Reaped ==
    /\ op.pc = "reap" /\ op.todo = {}
    /\ op' = [op EXCEPT !.pc = "stable"]
    /\ OnlyOp

\* A job that ran for stable_run (and made durable progress) clears the count
\* of failures, but not the latch.
MarkStable(p) ==
    /\ op.pc = "stable"
    /\ jobs[p] # 0 /\ ended[p] = "no" /\ ~stable[p]
    /\ stable' = [stable EXCEPT ![p] = TRUE]
    /\ WriteActual(p, [actual[p] EXCEPT !.fails = 0])
    /\ streak' = IF Written THEN [streak EXCEPT ![p] = 0] ELSE streak
    /\ op' = IF Written THEN op ELSE Idle
    /\ UNCHANGED <<latest, desired, mode, jobs, ended, live, retry, kills,
                   used, failed, requests, killCount, restarts>>

\* list_desired: the rows every later decision of this convergence uses.
ListDesired ==
    /\ op.pc = "stable"
    /\ op' = [op EXCEPT !.pc = "each", !.todo = Pipelines, !.snap = desired]
    /\ OnlyOp

\* A failing catalog call ends the convergence (list_desired), or skips p.
CatalogError(p) ==
    /\ lost < MaxLost
    /\ \/ op.pc = "stable" /\ op' = Idle
       \/ /\ op.pc = "each" /\ p \in op.todo /\ op.snap[p].status = "running"
          /\ op' = [op EXCEPT !.todo = @ \ {p}]
    /\ lost' = lost + 1
    /\ UNCHANGED <<catalog, mode, running, live, retry, kills, history,
                   requests, killCount, restarts>>

Visited(p) == [op EXCEPT !.pc = "each", !.todo = @ \ {p}]

\* retry_is_due: the entry after the look, and whether the retry is due.
RetryEntry(p) ==
    IF retry[p] = "none" /\ actual[p].fails > 0 THEN "scheduled" ELSE retry[p]
RetryIsDue(p) ==
    retry[p] = "due" \/ (retry[p] = "none" /\ actual[p].fails = 0)

Completed(p) == actual[p].status = "completed" /\ actual[p].rev = op.snap[p].rev
Retrying(p) ==
    actual[p].status \in {"failed", "waiting"} /\ actual[p].rev = op.snap[p].rev

\* Mutant: any job in the map counts as the one asked for.
AlreadyAny(p) == jobs[p] # 0

\* The job in the map already is of the revision asked for.
Already(p) == jobs[p] = op.snap[p].rev

\* A pipeline that shall run: skip it, or go and start it.
VisitRunning(p) ==
    /\ op.pc = "each" /\ p \in op.todo /\ op.snap[p].status = "running"
    /\ LET gate == ~Held(p) /\ ~Completed(p)
           due == Retrying(p) => RetryIsDue(p)
       IN /\ retry' = CASE ~gate -> retry
                        [] gate /\ Retrying(p) ->
                             [retry EXCEPT ![p] = RetryEntry(p)]
                        [] OTHER -> [retry EXCEPT ![p] = "none"]
          /\ op' = IF gate /\ due /\ ~Already(p)
                   THEN [op EXCEPT !.pc = "validate", !.at = p,
                                   !.rev = op.snap[p].rev]
                   ELSE Visited(p)
    /\ UNCHANGED <<catalog, mode, running, live, kills, history, counters>>

\* A pipeline that shall not run: take its job out of the map.
VisitStopped(p) ==
    /\ op.pc = "each" /\ p \in op.todo /\ op.snap[p].status = "stopped"
    /\ retry' = [retry EXCEPT ![p] = "none"]
    /\ RemoveJob(p)
    /\ op' = [op EXCEPT !.at = p,
                        !.pc = IF jobs[p] # 0 THEN "join_stop" ELSE "write_stop"]
    /\ UNCHANGED <<catalog, mode, live, kills, history, counters>>

JoinStopped ==
    /\ op.pc = "join_stop"
    /\ Joined(op.at)
    /\ op' = [op EXCEPT !.pc = "write_stop"]
    /\ UNCHANGED <<catalog, mode, running, retry, kills, history, counters>>

WriteStopped ==
    LET p == op.at
        row == SetActual(actual[p], "stopped", op.snap[p].rev)
    IN /\ op.pc = "write_stop"
       /\ WriteActual(p, IF actual[p].status = "stopped" THEN actual[p] ELSE row)
       /\ op' = Visited(p)
       /\ UNCHANGED <<latest, desired, mode, running, live, retry, kills,
                      history, requests, killCount, restarts>>

ConvergeEnd ==
    /\ op.pc = "each" /\ op.todo = {}
    /\ op' = Idle
    /\ OnlyOp

-----------------------------------------------------------------------------
(* start_named(op.at, op.rev).                                             *)

Fail(how) == op' = [op EXCEPT !.pc = "start_failed", !.err = how]

\* A spec that does not validate leaves a healthy old revision untouched.
StartInvalid ==
    /\ op.pc = "validate"
    /\ Fail("failed")
    /\ OnlyOp

AfterValidate(p) == IF jobs[p] # 0 THEN "join_old" ELSE "write_starting"

StartReplaces ==
    LET p == op.at
    IN /\ op.pc = "validate"
       /\ RemoveJob(p)
       /\ op' = [op EXCEPT !.pc = AfterValidate(p)]
       /\ UNCHANGED <<catalog, mode, live, retry, kills, history, counters>>

JoinOld ==
    /\ op.pc = "join_old"
    /\ Joined(op.at)
    /\ op' = [op EXCEPT !.pc = "write_starting"]
    /\ UNCHANGED <<catalog, mode, running, retry, kills, history, counters>>

\* A start that waits for capacity keeps its row until it gets through.
WriteStarting ==
    LET p == op.at
        a == actual[p]
        row == IF a.status = "waiting" /\ a.rev = op.rev
               THEN a ELSE SetActual(a, "starting", op.rev)
    IN /\ op.pc = "write_starting"
       /\ WriteActual(p, row)
       /\ IF Written THEN op' = [op EXCEPT !.pc = "start"] ELSE Fail("failed")
       /\ UNCHANGED <<latest, desired, mode, running, live, retry, kills,
                      history, requests, killCount, restarts>>

\* The sender, the connectors or the kernel refuse: for want of capacity, or
\* for any other reason.
StartRefused(how) ==
    /\ op.pc = "start"
    /\ Fail(how)
    /\ OnlyOp

StartJob ==
    LET p == op.at
    IN /\ op.pc = "start"
       /\ jobs' = [jobs EXCEPT ![p] = op.rev]
       /\ live' = [live EXCEPT ![p] = @ + 1]
       /\ used' = [used EXCEPT ![p] = @ \union {op.rev}]
       /\ op' = [op EXCEPT !.pc = "write_running"]
       /\ UNCHANGED <<catalog, mode, stable, ended, retry, kills, failed,
                      streak, counters>>

\* If this write fails, the start has failed but its job stays in the map.
WriteRunning ==
    LET p == op.at
    IN /\ op.pc = "write_running"
       /\ WriteActual(p, SetActual(actual[p], "running", op.rev))
       /\ IF Written
          THEN /\ op' = Visited(p)
               /\ retry' = [retry EXCEPT ![p] = "none"]
               /\ failed' = [failed EXCEPT ![p] = FALSE]
          ELSE Fail("failed") /\ UNCHANGED <<retry, failed>>
       /\ UNCHANGED <<latest, desired, mode, running, live, kills, used,
                      streak, requests, killCount, restarts>>

\* The outcome of a start that failed, and when to try again.
RecordStartFailure ==
    LET p == op.at
        counted == op.err = "failed"
    IN /\ op.pc = "start_failed"
       /\ WriteActual(p, SetActual(actual[p], op.err, op.rev))
       /\ failed' = IF Written /\ counted
                    THEN [failed EXCEPT ![p] = TRUE] ELSE failed
       /\ streak' = IF Written /\ counted
                    THEN [streak EXCEPT ![p] = @ + 1] ELSE streak
       /\ retry' = [retry EXCEPT ![p] = "scheduled"]
       /\ op' = [Visited(p) EXCEPT !.err = "none"]
       /\ UNCHANGED <<latest, desired, mode, running, live, kills, used,
                      requests, killCount, restarts>>

-----------------------------------------------------------------------------
(* kill_inner and stop_all_inner.                                          *)

KillBegin(p) ==
    /\ op.pc = "idle" /\ p \in kills
    /\ kills' = kills \ {p}
    /\ RemoveJob(p)
    /\ op' = IF jobs[p] # 0 THEN [Idle EXCEPT !.pc = "kill_join", !.at = p]
                            ELSE Idle
    /\ used' = [used EXCEPT ![p] = @ \ {jobs[p]}]
    /\ UNCHANGED <<catalog, mode, live, retry, failed, streak, counters>>

\* Mutant: the caller runs the operation, and drops it with its guard.
DroppedWithCaller(o) == Idle

\* The task that runs an operation owns the mutex: a caller that goes away
\* (a cancelled HTTP request) takes nothing with it.
AfterCallerLeft(o) == o

CallerLeaves ==
    /\ op.pc \in {"kill_join", "kill_write"}
    /\ op' = AfterCallerLeft(op)
    /\ OnlyOp

KillJoin ==
    /\ op.pc = "kill_join"
    /\ Joined(op.at)
    /\ op' = [op EXCEPT !.pc = "kill_write"]
    /\ UNCHANGED <<catalog, mode, running, retry, kills, history, counters>>

KillWrite ==
    /\ op.pc = "kill_write"
    /\ WriteActual(op.at, SetActual(actual[op.at], "stopped", 0))
    /\ op' = Idle
    /\ UNCHANGED <<latest, desired, mode, running, live, retry, kills,
                   history, requests, killCount, restarts>>

\* stop_all drains the map, then joins and records one job after the other.
StopAllBegin ==
    /\ shutdown /\ ~drained /\ op.pc = "idle"
    /\ op' = [Idle EXCEPT !.pc = "all",
                          !.todo = {p \in Pipelines : jobs[p] # 0}]
    /\ jobs' = [p \in Pipelines |-> 0]
    /\ stable' = [p \in Pipelines |-> FALSE]
    /\ ended' = [p \in Pipelines |-> "no"]
    /\ UNCHANGED <<catalog, mode, live, retry, kills, history, counters>>

StopAllJoin(p) ==
    /\ op.pc = "all" /\ p \in op.todo
    /\ Joined(p)
    /\ op' = [op EXCEPT !.pc = "all_write", !.at = p]
    /\ UNCHANGED <<catalog, mode, running, retry, kills, history, counters>>

StopAllWrite ==
    /\ op.pc = "all_write"
    /\ WriteActual(op.at, SetActual(actual[op.at], "stopped", 0))
    /\ op' = [op EXCEPT !.pc = "all", !.todo = @ \ {op.at}]
    /\ UNCHANGED <<latest, desired, mode, running, live, retry, kills,
                   history, requests, killCount, restarts>>

StopAllEnd ==
    /\ op.pc = "all" /\ op.todo = {}
    /\ op' = Idle /\ drained' = TRUE
    /\ UNCHANGED <<catalog, safe, shutdown, running, live, retry, kills,
                   history, counters>>

-----------------------------------------------------------------------------
(* The process.                                                            *)

\* A crash at any point, or the exit after stop_all: only the catalog stays.
Exit ==
    /\ op.pc # "exited" /\ (restarts < MaxRestarts \/ drained)
    /\ op' = [Idle EXCEPT !.pc = "exited"]
    /\ jobs' = [p \in Pipelines |-> 0]
    /\ stable' = [p \in Pipelines |-> FALSE]
    /\ ended' = [p \in Pipelines |-> "no"]
    /\ live' = [p \in Pipelines |-> 0]
    /\ retry' = [p \in Pipelines |-> "none"]
    /\ kills' = {} /\ shutdown' = FALSE /\ drained' = FALSE
    /\ restarts' = restarts + 1
    /\ UNCHANGED <<catalog, safe, history, requests, killCount, lost>>

\* Supervisor::new resets the actual rows before run_loop.
Boot ==
    /\ op.pc = "exited" /\ op' = Idle
    /\ safe' \in SafeModes
    /\ actual' = [p \in Pipelines |-> BootRow(actual[p], desired[p])]
    /\ UNCHANGED <<latest, desired, shutdown, drained, running, live, retry,
                   kills, history, counters>>

OperationStep ==
    \/ ConvergeBegin \/ Reaped \/ ListDesired \/ ConvergeEnd
    \/ JoinStopped \/ WriteStopped
    \/ JoinOld \/ WriteStarting \/ WriteRunning \/ RecordStartFailure
    \/ KillJoin \/ KillWrite
    \/ StopAllBegin \/ StopAllWrite \/ StopAllEnd
    \/ \E p \in Pipelines :
          Reap(p) \/ VisitRunning(p) \/ VisitStopped(p) \/ StopAllJoin(p)

Starting ==
    StartInvalid \/ StartReplaces \/ StartJob
        \/ \E how \in {"waiting", "failed"} : StartRefused(how)

Request ==
    \/ BeginShutdown
    \/ \E p \in Pipelines :
          \/ \E r \in 1..MaxRevision : RequestStart(p, r)
          \/ \E activate \in BOOLEAN : PutPipeline(p, activate)
          \/ RequestStop(p) \/ KillRequest(p)

Next ==
    \/ OperationStep \/ Starting \/ Request \/ CallerLeaves \/ Exit \/ Boot
    \/ \E p \in Pipelines :
          \/ KillBegin(p) \/ MarkStable(p) \/ CatalogError(p) \/ RetryElapses(p)
          \/ \E how \in {"ok", "error"} : JobEnds(p, how)

Spec == Init /\ [][Next]_vars

\* An operation goes on once it has begun (its task is spawned, every join
\* ends as its job was cancelled), a caller in the FIFO queue of the mutex
\* gets it, clocks advance, and an exited process is started again.
Fairness ==
    /\ WF_vars(OperationStep) /\ WF_vars(Starting) /\ WF_vars(Boot)
    /\ \A p \in Pipelines : SF_vars(KillBegin(p)) /\ WF_vars(RetryElapses(p))
    /\ SF_vars(StopAllBegin)

FairSpec == Spec /\ Fairness

-----------------------------------------------------------------------------
(* Properties.                                                             *)

\* A step that starts a job of p, which opens its source.
Opens(p) == op.pc = "start" /\ op.at = p /\ jobs'[p] # jobs[p]

\* Two jobs of one pipeline never run at the same time, so that a source, a
\* checkpoint directory and a sink always have one owner: not while one
\* revision replaces another, not when a caller gives up in the middle of a
\* stop, and not when the job that replaces it is itself replaced.
OneJob == \A p \in Pipelines : live[p] <= 1

\* Every task belongs to a job in the map or to the operation that is joining
\* it, so that a shutdown that has drained the map leaves nothing running,
\* whatever was asked for or under way when it began.
ShutdownIsFinal ==
    drained => \A p \in Pipelines : live[p] = 0

\* As long as the catalog takes the writes, nothing starts by itself again
\* what must not: a revision that requires an explicit restart opens its
\* source once per explicit start, whatever fails, completes or crashes in
\* between (as long as no request changes the row while converge_inner works
\* on its list); a safe-mode process starts nothing whose last outcome is a
\* failure; and no pipeline starts after MAX_PIPELINE_ATTEMPTS failures.
NoUnattendedRestart ==
    [][\A p \in Pipelines :
          Opens(p) /\ lost = 0 =>
             /\ op.rev \in Fixed /\ desired[p] = op.snap[p]
                   => op.rev \notin used[p]
             /\ ~(safe /\ failed[p])
             /\ streak[p] < MaxAttempts]_vars

\* What reset_actual_after_process_restart is for: "Fixed-point replay
\* requires a fresh explicit start after process restart."  The source of such
\* a revision is opened at most once per explicit start, requests that race
\* the supervisor included.
ReplayNeedsExplicitStart ==
    [][\A p \in Pipelines :
          Opens(p) /\ lost = 0 /\ op.rev \in Fixed => op.rev \notin used[p]]_vars

\* The jobs follow the catalog: what shall run is attempted at the revision
\* asked for (again and again if attempts fail), unless it is held, done or
\* no longer wanted; what shall not run ends.
Converges ==
    \A p \in Pipelines :
       /\ \A r \in 1..MaxRevision :
             desired[p] = [status |-> "running", rev |-> r]
                ~> \/ desired[p] # [status |-> "running", rev |-> r]
                   \/ jobs[p] = r \/ Held(p) \/ shutdown
                   \/ actual[p].status = "completed" /\ actual[p].rev = r
                   \/ op.pc = "validate" /\ op.at = p /\ op.rev = r
       /\ desired[p].status = "stopped"
             ~> desired[p].status = "running" \/ live[p] = 0

=============================================================================
