---------------------------- MODULE OutboxProofs ----------------------------
(***************************************************************************)
(* Theorems about Outbox, for any capacities, any number of entries,       *)
(* batches, generations, policy versions, crashes and faults.              *)
(***************************************************************************)
EXTENDS Outbox, TLAPS, FiniteSetTheorems

-----------------------------------------------------------------------------
(* Who may touch the table.                                                *)

Live(t) == task[t].pc # "none"
Active(t) == task[t].pc \notin {"none", "failing"}

\* The one live sender is listed, or a command that has taken it out of the
\* list waits for its end.
OneSender ==
  /\ \A t \in Tasks : Live(t) => registry = t \/ (ctl.pc = "await" /\ ctl.old = t)
  /\ ctl.pc = "await" => registry = 0

\* A resume has put the old sender away before it makes a new one.
Replaced == ctl.op = "resume" /\ ctl.pc = "ensure" => registry = 0

\* A paused outbox has a request in flight only while the pause command that
\* set the flag is waiting for the sender.
Quiet ==
  \A t \in Tasks :
     paused /\ InFlight(t) => ctl.op = "pause" /\ ctl.pc \in {"reap", "await"}

\* Policy versions only grow, a command works with one that no completed
\* resume has overtaken, and so does every sender it makes.
Binding ==
  /\ resumedAt <= policy
  /\ ctl.pc # "idle" => resumedAt <= ctl.version /\ ctl.version <= policy
  /\ \A t \in Tasks : Active(t) => resumedAt <= task[t].bound
  /\ ctl.op = "resume" /\ ctl.pc = "write" =>
        \A t \in Tasks : Active(t) => ctl.version <= task[t].bound

\* The parts of the type invariant, by who changes them.
EntriesTyped ==
  /\ DOMAIN entries \subseteq Ids
  /\ entries \in [DOMAIN entries -> EntryRecord]
  /\ nextId \in 1 .. MaxId + 1

TasksTyped == task \in [Tasks -> TaskRecord]

RestTyped ==
  /\ paused \in BOOLEAN /\ worker \in BOOLEAN
  /\ registry \in 0 .. 2 /\ ctl \in CommandRecord /\ policy \in 0 .. MaxPolicy
  /\ job \in [pc : {"stopped", "running", "committed"}, pos : 0 .. Batches]
  /\ cut \in 0 .. Batches
  /\ received \subseteq 0 .. Batches /\ purged \subseteq 0 .. Batches
  /\ posts \in [Ids -> Nat] /\ resumedAt \in 0 .. MaxPolicy
  /\ crashes \in 0 .. MaxCrashes /\ faults \in 0 .. MaxFaults

\* A batch is committed only if there was one.
Committing == job.pc = "committed" => job.pos < Batches

SenderInv == TypeOK /\ Committing /\ OneSender /\ Replaced /\ Quiet /\ Binding

-----------------------------------------------------------------------------
(* What the table promises.                                                *)

\* Ids are handed out once, so that nothing is known of those to come.
Fresh ==
  /\ \A i \in DOMAIN entries : i < nextId
  /\ \A i \in Ids : i >= nextId => posts[i] = 0

\* A request in flight holds the attempt reserved in the table.
Holds(t) == InFlight(t) => ~Stale(t)

\* The POSTs of a generation never outnumber the attempts reserved for it, and
\* an attempt that has not been posted is still owed.
Counted ==
  /\ \A i \in DOMAIN entries : posts[i] <= entries[i].attempts
  /\ \A t \in Tasks : task[t].pc = "taken" =>
        posts[task[t].id] < entries[task[t].id].attempts

\* A sender believes that a body was delivered only if it was.
Truthful(t) ==
  InFlight(t) =>
     /\ task[t].hit => entries[task[t].id].body \in received
     /\ task[t].pc = "answered" /\ task[t].outcome = "Delivered" => task[t].hit

TableInv ==
  /\ Fresh /\ Counted
  /\ \A t \in Tasks : Holds(t) /\ Truthful(t)

\* A batch has reached the receiver, is stored, or was discarded.
Covered(b) ==
  \/ b \in received \cup purged
  \/ \E i \in DOMAIN entries : entries[i].body = b

\* The batches the source has passed.
Passed(b) ==
  b < cut \/ b < job.pos \/ (b = job.pos /\ job.pc = "committed")

CoverInv == \A b \in 0 .. Batches : Passed(b) => Covered(b)

-----------------------------------------------------------------------------
(* One sender.                                                             *)

\* A command begins at one of three steps, none of which waits.
LEMMA BeginStep ==
    ASSUME NEW op \in Commands, Begin(op)
    PROVE  /\ ctl'.pc \in {"write", "reap", "ensure"} /\ ctl'.op = op
           /\ op = "resume" => ctl'.pc = "reap"
           /\ ctl'.version = policy
BY OutboxAssumption DEF Begin, FirstStep

\* Reaping the sender marks it as cancelled and changes nothing else of it.
LEMMA ReapTasks ==
    ASSUME task \in [Tasks -> TaskRecord], Reap, NEW t \in Tasks
    PROVE  /\ task'[t].pc = task[t].pc /\ task'[t].bound = task[t].bound
           /\ task'[t].id = task[t].id /\ task'[t].attempt = task[t].attempt
           /\ task'[t].hit = task[t].hit /\ task'[t].outcome = task[t].outcome
BY DEF Reap, TaskRecord

\* While no command waits, a listed sender that is not alive leaves none alive.
LEMMA NoneLive ==
    ASSUME OneSender, ctl.pc # "await", ~Alive, NEW t \in Tasks
    PROVE  task[t].pc = "none"
BY DEF OneSender, Live, Alive, Tasks

\* A sender that a command makes is bound to the version the command read.
LEMMA EnsureTasks ==
    ASSUME task \in [Tasks -> TaskRecord], OneSender, Ensure, NEW t \in Tasks
    PROVE  \/ task'[t] = task[t]
           \/ /\ task'[t].pc = "idle" /\ task'[t].bound = ctl.version
              /\ ~Alive
<1>1. CASE Alive
    BY <1>1 DEF Ensure, EnsureSender, senders
<1>2. CASE ~Alive
    BY <1>2 DEF Ensure, EnsureSender, Spawn, Set, NoTask
<1> QED
    BY <1>1, <1>2

\* Every step keeps OneSender.
LEMMA OneSenderStep == SenderInv /\ [Next]_vars => OneSender'
<1> SUFFICES ASSUME SenderInv, [Next]_vars
             PROVE  OneSender'
    OBVIOUS
<1>0. /\ task \in [Tasks -> TaskRecord] /\ registry \in 0 .. 2
      /\ ctl \in CommandRecord /\ Tasks = {1, 2}
      /\ OneSender
    BY DEF SenderInv, TypeOK, Tasks
<1>1. CASE Enqueue
    BY <1>1, <1>0 DEF Enqueue, OneSender, Live, TaskRecord, CommandRecord,
       NoTask, NoCommand, db, senders, input, remote
<1>2. CASE Ack
    BY <1>2, <1>0 DEF Ack, OneSender, Live, TaskRecord, CommandRecord,
       NoTask, NoCommand, db, senders, input, remote
<1>3. CASE EnqueueFails
    BY <1>3, <1>0 DEF EnqueueFails, Refused, OneSender, Live, TaskRecord,
       CommandRecord, NoTask, NoCommand, db, senders, input, remote
<1>4. CASE Checkpoint
    BY <1>4, <1>0 DEF Checkpoint, OneSender, Live, TaskRecord,
       CommandRecord, NoTask, NoCommand, db, senders, input, remote
<1>5. CASE StopJob
    BY <1>5, <1>0 DEF StopJob, OneSender, Live, TaskRecord, CommandRecord,
       NoTask, NoCommand, db, senders, input, remote
<1>6. ASSUME NEW t \in Tasks, NEW id \in DOMAIN entries, Reserve(t, id)
      PROVE  OneSender'
    BY <1>6, <1>0 DEF Reserve, Set, OneSender, Live, TaskRecord,
       CommandRecord, NoTask, NoCommand, db, senders, input, remote
<1>7. ASSUME NEW t \in Tasks, NEW id \in DOMAIN entries, NEW late \in BOOLEAN,
             NextDead(t, id, late)
      PROVE  OneSender'
    BY <1>7, <1>0 DEF NextDead, OneSender, Live, TaskRecord, CommandRecord,
       NoTask, NoCommand, db, senders, input, remote
<1>8. ASSUME NEW t \in Tasks, NextFails(t)
      PROVE  OneSender'
    BY <1>8, <1>0 DEF NextFails, Fail, Set, OneSender, Live, TaskRecord,
       CommandRecord, NoTask, NoCommand, db, senders, input, remote
<1>9. ASSUME NEW t \in Tasks, Post(t)
      PROVE  OneSender'
    BY <1>9, <1>0 DEF Post, Set, OneSender, Live, TaskRecord, CommandRecord,
       NoTask, NoCommand, db, senders, input, remote
<1>10. ASSUME NEW t \in Tasks, RemoteAccepts(t)
      PROVE  OneSender'
    BY <1>10, <1>0 DEF RemoteAccepts, Set, OneSender, Live, TaskRecord,
       CommandRecord, NoTask, NoCommand, db, senders, input, remote
<1>11. ASSUME NEW t \in Tasks, NEW o \in Outcomes, Answer(t, o)
      PROVE  OneSender'
    BY <1>11, <1>0 DEF Answer, Set, OneSender, Live, TaskRecord,
       CommandRecord, NoTask, NoCommand, db, senders, input, remote
<1>12. ASSUME NEW t \in Tasks, NEW late \in BOOLEAN, Settle(t, late)
      PROVE  OneSender'
    BY <1>12, <1>0 DEF Settle, Set, OneSender, Live, TaskRecord,
       CommandRecord, NoTask, NoCommand, db, senders, input, remote
<1>13. ASSUME NEW t \in Tasks, SettleFails(t)
      PROVE  OneSender'
    BY <1>13, <1>0 DEF SettleFails, Fail, Set, OneSender, Live, TaskRecord,
       CommandRecord, NoTask, NoCommand, db, senders, input, remote
<1>14. ASSUME NEW t \in Tasks, Cancelled(t)
      PROVE  OneSender'
    BY <1>14, <1>0 DEF Cancelled, Exit, Set, OneSender, Live, TaskRecord,
       CommandRecord, NoTask, NoCommand, db, senders, input, remote
<1>15. ASSUME NEW t \in Tasks, AuditFailure(t)
      PROVE  OneSender'
    BY <1>15, <1>0 DEF AuditFailure, Set, OneSender, Live, TaskRecord,
       CommandRecord, NoTask, NoCommand, db, senders, input, remote
<1>16. ASSUME NEW op \in Commands, Begin(op)
      PROVE  OneSender'
    <2>1. task' = task /\ registry' = registry /\ ctl.pc = "idle"
        BY <1>16 DEF Begin, senders
    <2> QED
        BY <1>16, <1>0, <2>1, BeginStep DEF OneSender, Live
<1>17. CASE WritePause
    BY <1>17, <1>0 DEF WritePause, OneSender, Live, TaskRecord,
       CommandRecord, NoTask, NoCommand, db, senders, input, remote
<1>18. CASE Reap
    <2>1. \A t \in Tasks : task'[t].pc = task[t].pc
        BY <1>18, <1>0 DEF Reap, TaskRecord
    <2>2. CASE registry = 0
        BY <1>18, <1>0, <2>1, <2>2 DEF Reap, OneSender, Live
    <2>3. CASE registry # 0
        <3>1. /\ registry' = 0 /\ ctl.pc = "reap"
              /\ ctl'.pc = "await" /\ ctl'.old = registry
            BY <1>18, <1>0, <2>3 DEF Reap, CommandRecord
        <3> QED
            BY <1>0, <2>1, <2>3, <3>1 DEF OneSender, Live
    <2> QED
        BY <2>2, <2>3
<1>19. CASE Await
    BY <1>19, <1>0 DEF Await, AfterReap, AwaitDone, OneSender, Live,
       TaskRecord, CommandRecord, NoTask, NoCommand, db, senders, input,
       remote
<1>20. CASE Ensure
    BY <1>20, <1>0 DEF Ensure, EnsureSender, Alive, Spawn, Set, OneSender,
       Live, TaskRecord, CommandRecord, NoTask, NoCommand, db, senders,
       input, remote
<1>21. CASE EnsureFails
    BY <1>21, <1>0 DEF EnsureFails, EnsureOk, Alive, OneSender, Live,
       TaskRecord, CommandRecord, NoTask, NoCommand, db, senders, input,
       remote
<1>22. CASE WriteResume
    BY <1>22, <1>0 DEF WriteResume, OneSender, Live, TaskRecord,
       CommandRecord, NoTask, NoCommand, db, senders, input, remote
<1>23. ASSUME NEW id \in DOMAIN entries, Replay(id)
      PROVE  OneSender'
    BY <1>23, <1>0 DEF Replay, OneSender, Live, TaskRecord, CommandRecord,
       NoTask, NoCommand, db, senders, input, remote
<1>24. ASSUME NEW id \in DOMAIN entries, Purge(id)
      PROVE  OneSender'
    BY <1>24, <1>0 DEF Purge, OneSender, Live, TaskRecord, CommandRecord,
       NoTask, NoCommand, db, senders, input, remote
<1>25. CASE ChangePolicy
    BY <1>25, <1>0 DEF ChangePolicy, OneSender, Live, TaskRecord,
       CommandRecord, NoTask, NoCommand, db, senders, input, remote
<1>26. CASE Crash
    BY <1>26, <1>0 DEF Crash, OneSender, Live, TaskRecord, CommandRecord,
       NoTask, NoCommand, db, senders, input, remote
<1>27. CASE UNCHANGED vars
    BY <1>27, <1>0 DEF vars, OneSender, Live, TaskRecord, CommandRecord,
       NoTask, NoCommand, db, senders, input, remote
<1> QED
    BY <1>1, <1>2, <1>3, <1>4, <1>5, <1>6, <1>7, <1>8, <1>9, <1>10, <1>11,
       <1>12, <1>13, <1>14, <1>15, <1>16, <1>17, <1>18, <1>19, <1>20, <1>21,
       <1>22, <1>23, <1>24, <1>25, <1>26, <1>27 DEF Next, SenderStep,
       CommandStep

\* Every step keeps Replaced.
LEMMA ReplacedStep == SenderInv /\ [Next]_vars => Replaced'
<1> SUFFICES ASSUME SenderInv, [Next]_vars
             PROVE  Replaced'
    OBVIOUS
<1>0. /\ task \in [Tasks -> TaskRecord] /\ registry \in 0 .. 2
      /\ ctl \in CommandRecord /\ Tasks = {1, 2}
      /\ OneSender /\ Replaced
    BY DEF SenderInv, TypeOK, Tasks
<1>1. CASE Enqueue
    BY <1>1, <1>0 DEF Enqueue, Replaced, OneSender, Live, TaskRecord,
       CommandRecord, NoTask, NoCommand, db, senders, input, remote
<1>2. CASE Ack
    BY <1>2, <1>0 DEF Ack, Replaced, OneSender, Live, TaskRecord,
       CommandRecord, NoTask, NoCommand, db, senders, input, remote
<1>3. CASE EnqueueFails
    BY <1>3, <1>0 DEF EnqueueFails, Refused, Replaced, OneSender, Live,
       TaskRecord, CommandRecord, NoTask, NoCommand, db, senders, input,
       remote
<1>4. CASE Checkpoint
    BY <1>4, <1>0 DEF Checkpoint, Replaced, OneSender, Live, TaskRecord,
       CommandRecord, NoTask, NoCommand, db, senders, input, remote
<1>5. CASE StopJob
    BY <1>5, <1>0 DEF StopJob, Replaced, OneSender, Live, TaskRecord,
       CommandRecord, NoTask, NoCommand, db, senders, input, remote
<1>6. ASSUME NEW t \in Tasks, NEW id \in DOMAIN entries, Reserve(t, id)
      PROVE  Replaced'
    BY <1>6, <1>0 DEF Reserve, Set, Replaced, OneSender, Live, TaskRecord,
       CommandRecord, NoTask, NoCommand, db, senders, input, remote
<1>7. ASSUME NEW t \in Tasks, NEW id \in DOMAIN entries, NEW late \in BOOLEAN,
             NextDead(t, id, late)
      PROVE  Replaced'
    BY <1>7, <1>0 DEF NextDead, Replaced, OneSender, Live, TaskRecord,
       CommandRecord, NoTask, NoCommand, db, senders, input, remote
<1>8. ASSUME NEW t \in Tasks, NextFails(t)
      PROVE  Replaced'
    BY <1>8, <1>0 DEF NextFails, Fail, Set, Replaced, OneSender, Live,
       TaskRecord, CommandRecord, NoTask, NoCommand, db, senders, input,
       remote
<1>9. ASSUME NEW t \in Tasks, Post(t)
      PROVE  Replaced'
    BY <1>9, <1>0 DEF Post, Set, Replaced, OneSender, Live, TaskRecord,
       CommandRecord, NoTask, NoCommand, db, senders, input, remote
<1>10. ASSUME NEW t \in Tasks, RemoteAccepts(t)
      PROVE  Replaced'
    BY <1>10, <1>0 DEF RemoteAccepts, Set, Replaced, OneSender, Live,
       TaskRecord, CommandRecord, NoTask, NoCommand, db, senders, input,
       remote
<1>11. ASSUME NEW t \in Tasks, NEW o \in Outcomes, Answer(t, o)
      PROVE  Replaced'
    BY <1>11, <1>0 DEF Answer, Set, Replaced, OneSender, Live, TaskRecord,
       CommandRecord, NoTask, NoCommand, db, senders, input, remote
<1>12. ASSUME NEW t \in Tasks, NEW late \in BOOLEAN, Settle(t, late)
      PROVE  Replaced'
    BY <1>12, <1>0 DEF Settle, Set, Replaced, OneSender, Live, TaskRecord,
       CommandRecord, NoTask, NoCommand, db, senders, input, remote
<1>13. ASSUME NEW t \in Tasks, SettleFails(t)
      PROVE  Replaced'
    BY <1>13, <1>0 DEF SettleFails, Fail, Set, Replaced, OneSender, Live,
       TaskRecord, CommandRecord, NoTask, NoCommand, db, senders, input,
       remote
<1>14. ASSUME NEW t \in Tasks, Cancelled(t)
      PROVE  Replaced'
    BY <1>14, <1>0 DEF Cancelled, Exit, Set, Replaced, OneSender, Live,
       TaskRecord, CommandRecord, NoTask, NoCommand, db, senders, input,
       remote
<1>15. ASSUME NEW t \in Tasks, AuditFailure(t)
      PROVE  Replaced'
    BY <1>15, <1>0 DEF AuditFailure, Set, Replaced, OneSender, Live,
       TaskRecord, CommandRecord, NoTask, NoCommand, db, senders, input,
       remote
<1>16. ASSUME NEW op \in Commands, Begin(op)
      PROVE  Replaced'
    BY <1>16, <1>0 DEF Begin, FirstStep, Replaced, OneSender, Live,
       TaskRecord, CommandRecord, NoTask, NoCommand, db, senders, input,
       remote
<1>17. CASE WritePause
    BY <1>17, <1>0 DEF WritePause, Replaced, OneSender, Live, TaskRecord,
       CommandRecord, NoTask, NoCommand, db, senders, input, remote
<1>18. CASE Reap
    BY <1>18, <1>0 DEF Reap, AfterReap, Replaced, OneSender, Live,
       TaskRecord, CommandRecord, NoTask, NoCommand, db, senders, input,
       remote
<1>19. CASE Await
    BY <1>19, <1>0 DEF Await, AfterReap, AwaitDone, Replaced, OneSender,
       Live, TaskRecord, CommandRecord, NoTask, NoCommand, db, senders,
       input, remote
<1>20. CASE Ensure
    BY <1>20, <1>0 DEF Ensure, EnsureSender, Alive, Spawn, Set, Replaced,
       OneSender, Live, TaskRecord, CommandRecord, NoTask, NoCommand, db,
       senders, input, remote
<1>21. CASE EnsureFails
    BY <1>21, <1>0 DEF EnsureFails, EnsureOk, Alive, Replaced, OneSender,
       Live, TaskRecord, CommandRecord, NoTask, NoCommand, db, senders,
       input, remote
<1>22. CASE WriteResume
    BY <1>22, <1>0 DEF WriteResume, Replaced, OneSender, Live, TaskRecord,
       CommandRecord, NoTask, NoCommand, db, senders, input, remote
<1>23. ASSUME NEW id \in DOMAIN entries, Replay(id)
      PROVE  Replaced'
    BY <1>23, <1>0 DEF Replay, Replaced, OneSender, Live, TaskRecord,
       CommandRecord, NoTask, NoCommand, db, senders, input, remote
<1>24. ASSUME NEW id \in DOMAIN entries, Purge(id)
      PROVE  Replaced'
    BY <1>24, <1>0 DEF Purge, Replaced, OneSender, Live, TaskRecord,
       CommandRecord, NoTask, NoCommand, db, senders, input, remote
<1>25. CASE ChangePolicy
    BY <1>25, <1>0 DEF ChangePolicy, Replaced, OneSender, Live, TaskRecord,
       CommandRecord, NoTask, NoCommand, db, senders, input, remote
<1>26. CASE Crash
    BY <1>26, <1>0 DEF Crash, Replaced, OneSender, Live, TaskRecord,
       CommandRecord, NoTask, NoCommand, db, senders, input, remote
<1>27. CASE UNCHANGED vars
    BY <1>27, <1>0 DEF vars, Replaced, OneSender, Live, TaskRecord,
       CommandRecord, NoTask, NoCommand, db, senders, input, remote
<1> QED
    BY <1>1, <1>2, <1>3, <1>4, <1>5, <1>6, <1>7, <1>8, <1>9, <1>10, <1>11,
       <1>12, <1>13, <1>14, <1>15, <1>16, <1>17, <1>18, <1>19, <1>20, <1>21,
       <1>22, <1>23, <1>24, <1>25, <1>26, <1>27 DEF Next, SenderStep,
       CommandStep

\* Every step keeps Quiet.
LEMMA QuietStep == SenderInv /\ [Next]_vars => Quiet'
<1> SUFFICES ASSUME SenderInv, [Next]_vars
             PROVE  Quiet'
    OBVIOUS
<1>0. /\ task \in [Tasks -> TaskRecord] /\ registry \in 0 .. 2
      /\ ctl \in CommandRecord /\ Tasks = {1, 2}
      /\ OneSender /\ Quiet /\ paused \in BOOLEAN
    BY DEF SenderInv, TypeOK, Tasks
<1>1. CASE Enqueue
    BY <1>1, <1>0 DEF Enqueue, Quiet, InFlight, OneSender, Live, TaskRecord,
       CommandRecord, NoTask, NoCommand, db, senders, input, remote
<1>2. CASE Ack
    BY <1>2, <1>0 DEF Ack, Quiet, InFlight, OneSender, Live, TaskRecord,
       CommandRecord, NoTask, NoCommand, db, senders, input, remote
<1>3. CASE EnqueueFails
    BY <1>3, <1>0 DEF EnqueueFails, Refused, Quiet, InFlight, OneSender,
       Live, TaskRecord, CommandRecord, NoTask, NoCommand, db, senders,
       input, remote
<1>4. CASE Checkpoint
    BY <1>4, <1>0 DEF Checkpoint, Quiet, InFlight, OneSender, Live,
       TaskRecord, CommandRecord, NoTask, NoCommand, db, senders, input,
       remote
<1>5. CASE StopJob
    BY <1>5, <1>0 DEF StopJob, Quiet, InFlight, OneSender, Live, TaskRecord,
       CommandRecord, NoTask, NoCommand, db, senders, input, remote
<1>6. ASSUME NEW t \in Tasks, NEW id \in DOMAIN entries, Reserve(t, id)
      PROVE  Quiet'
    BY <1>6, <1>0 DEF Reserve, Set, Quiet, InFlight, OneSender, Live,
       TaskRecord, CommandRecord, NoTask, NoCommand, db, senders, input,
       remote
<1>7. ASSUME NEW t \in Tasks, NEW id \in DOMAIN entries, NEW late \in BOOLEAN,
             NextDead(t, id, late)
      PROVE  Quiet'
    BY <1>7, <1>0 DEF NextDead, Quiet, InFlight, OneSender, Live,
       TaskRecord, CommandRecord, NoTask, NoCommand, db, senders, input,
       remote
<1>8. ASSUME NEW t \in Tasks, NextFails(t)
      PROVE  Quiet'
    BY <1>8, <1>0 DEF NextFails, Fail, Set, Quiet, InFlight, OneSender,
       Live, TaskRecord, CommandRecord, NoTask, NoCommand, db, senders,
       input, remote
<1>9. ASSUME NEW t \in Tasks, Post(t)
      PROVE  Quiet'
    BY <1>9, <1>0 DEF Post, Set, Quiet, InFlight, OneSender, Live,
       TaskRecord, CommandRecord, NoTask, NoCommand, db, senders, input,
       remote
<1>10. ASSUME NEW t \in Tasks, RemoteAccepts(t)
      PROVE  Quiet'
    BY <1>10, <1>0 DEF RemoteAccepts, Set, Quiet, InFlight, OneSender, Live,
       TaskRecord, CommandRecord, NoTask, NoCommand, db, senders, input,
       remote
<1>11. ASSUME NEW t \in Tasks, NEW o \in Outcomes, Answer(t, o)
      PROVE  Quiet'
    BY <1>11, <1>0 DEF Answer, Set, Quiet, InFlight, OneSender, Live,
       TaskRecord, CommandRecord, NoTask, NoCommand, db, senders, input,
       remote
<1>12. ASSUME NEW t \in Tasks, NEW late \in BOOLEAN, Settle(t, late)
      PROVE  Quiet'
    BY <1>12, <1>0 DEF Settle, Set, Quiet, InFlight, OneSender, Live,
       TaskRecord, CommandRecord, NoTask, NoCommand, db, senders, input,
       remote
<1>13. ASSUME NEW t \in Tasks, SettleFails(t)
      PROVE  Quiet'
    BY <1>13, <1>0 DEF SettleFails, Fail, Set, Quiet, InFlight, OneSender,
       Live, TaskRecord, CommandRecord, NoTask, NoCommand, db, senders,
       input, remote
<1>14. ASSUME NEW t \in Tasks, Cancelled(t)
      PROVE  Quiet'
    BY <1>14, <1>0 DEF Cancelled, Exit, Set, Quiet, InFlight, OneSender,
       Live, TaskRecord, CommandRecord, NoTask, NoCommand, db, senders,
       input, remote
<1>15. ASSUME NEW t \in Tasks, AuditFailure(t)
      PROVE  Quiet'
    BY <1>15, <1>0 DEF AuditFailure, Set, Quiet, InFlight, OneSender, Live,
       TaskRecord, CommandRecord, NoTask, NoCommand, db, senders, input,
       remote
<1>16. ASSUME NEW op \in Commands, Begin(op)
      PROVE  Quiet'
    BY <1>16, <1>0 DEF Begin, FirstStep, Quiet, InFlight, OneSender, Live,
       TaskRecord, CommandRecord, NoTask, NoCommand, db, senders, input,
       remote
<1>17. CASE WritePause
    BY <1>17, <1>0 DEF WritePause, Quiet, InFlight, OneSender, Live,
       TaskRecord, CommandRecord, NoTask, NoCommand, db, senders, input,
       remote
<1>18. CASE Reap
    <2>1. paused' = paused /\ ctl.pc = "reap"
        BY <1>18 DEF Reap, db
    <2>2. \A t \in Tasks : task'[t].pc = task[t].pc
        BY <1>18, <1>0, ReapTasks
    <2>3. CASE registry = 0
        <3>1. \A t \in Tasks : task[t].pc = "none"
            BY <1>0, <2>1, <2>3 DEF OneSender, Live
        <3> QED
            BY <2>2, <3>1 DEF Quiet, InFlight
    <2>4. CASE registry # 0
        <3>1. ctl'.pc = "await" /\ ctl'.op = ctl.op
            BY <1>18, <1>0, <2>4 DEF Reap, CommandRecord
        <3> QED
            BY <1>0, <2>1, <2>2, <3>1 DEF Quiet, InFlight
    <2> QED
        BY <2>3, <2>4
<1>19. CASE Await
    BY <1>19, <1>0 DEF Await, AfterReap, AwaitDone, Quiet, InFlight,
       OneSender, Live, TaskRecord, CommandRecord, NoTask, NoCommand, db,
       senders, input, remote
<1>20. CASE Ensure
    <2>1. paused' = paused /\ ctl.pc = "ensure"
        BY <1>20 DEF Ensure, db
    <2>2. \A t \in Tasks : InFlight(t)' => InFlight(t)
        BY <1>20, <1>0, EnsureTasks DEF InFlight
    <2> QED
        BY <1>0, <2>1, <2>2 DEF Quiet
<1>21. CASE EnsureFails
    BY <1>21, <1>0 DEF EnsureFails, EnsureOk, Alive, Quiet, InFlight,
       OneSender, Live, TaskRecord, CommandRecord, NoTask, NoCommand, db,
       senders, input, remote
<1>22. CASE WriteResume
    BY <1>22, <1>0 DEF WriteResume, Quiet, InFlight, OneSender, Live,
       TaskRecord, CommandRecord, NoTask, NoCommand, db, senders, input,
       remote
<1>23. ASSUME NEW id \in DOMAIN entries, Replay(id)
      PROVE  Quiet'
    BY <1>23, <1>0 DEF Replay, Quiet, InFlight, OneSender, Live, TaskRecord,
       CommandRecord, NoTask, NoCommand, db, senders, input, remote
<1>24. ASSUME NEW id \in DOMAIN entries, Purge(id)
      PROVE  Quiet'
    BY <1>24, <1>0 DEF Purge, Quiet, InFlight, OneSender, Live, TaskRecord,
       CommandRecord, NoTask, NoCommand, db, senders, input, remote
<1>25. CASE ChangePolicy
    BY <1>25, <1>0 DEF ChangePolicy, Quiet, InFlight, OneSender, Live,
       TaskRecord, CommandRecord, NoTask, NoCommand, db, senders, input,
       remote
<1>26. CASE Crash
    BY <1>26, <1>0 DEF Crash, Quiet, InFlight, OneSender, Live, TaskRecord,
       CommandRecord, NoTask, NoCommand, db, senders, input, remote
<1>27. CASE UNCHANGED vars
    BY <1>27, <1>0 DEF vars, Quiet, InFlight, OneSender, Live, TaskRecord,
       CommandRecord, NoTask, NoCommand, db, senders, input, remote
<1> QED
    BY <1>1, <1>2, <1>3, <1>4, <1>5, <1>6, <1>7, <1>8, <1>9, <1>10, <1>11,
       <1>12, <1>13, <1>14, <1>15, <1>16, <1>17, <1>18, <1>19, <1>20, <1>21,
       <1>22, <1>23, <1>24, <1>25, <1>26, <1>27 DEF Next, SenderStep,
       CommandStep

\* Every step keeps Binding.
LEMMA BindingStep == SenderInv /\ [Next]_vars => Binding'
<1> SUFFICES ASSUME SenderInv, [Next]_vars
             PROVE  Binding'
    OBVIOUS
<1>0. /\ task \in [Tasks -> TaskRecord] /\ registry \in 0 .. 2
      /\ ctl \in CommandRecord /\ Tasks = {1, 2}
      /\ policy \in 0 .. MaxPolicy /\ resumedAt \in 0 .. MaxPolicy
      /\ MaxPolicy \in Nat
      /\ OneSender /\ Replaced /\ Binding
    BY OutboxAssumption DEF SenderInv, TypeOK, Tasks
<1>1. CASE Enqueue
    BY <1>1, <1>0 DEF Enqueue, Binding, Active, OneSender, Replaced, Live,
       TaskRecord, CommandRecord, NoTask, NoCommand, db, senders, input,
       remote
<1>2. CASE Ack
    BY <1>2, <1>0 DEF Ack, Binding, Active, OneSender, Replaced, Live,
       TaskRecord, CommandRecord, NoTask, NoCommand, db, senders, input,
       remote
<1>3. CASE EnqueueFails
    BY <1>3, <1>0 DEF EnqueueFails, Refused, Binding, Active, OneSender,
       Replaced, Live, TaskRecord, CommandRecord, NoTask, NoCommand, db,
       senders, input, remote
<1>4. CASE Checkpoint
    BY <1>4, <1>0 DEF Checkpoint, Binding, Active, OneSender, Replaced,
       Live, TaskRecord, CommandRecord, NoTask, NoCommand, db, senders,
       input, remote
<1>5. CASE StopJob
    BY <1>5, <1>0 DEF StopJob, Binding, Active, OneSender, Replaced, Live,
       TaskRecord, CommandRecord, NoTask, NoCommand, db, senders, input,
       remote
<1>6. ASSUME NEW t \in Tasks, NEW id \in DOMAIN entries, Reserve(t, id)
      PROVE  Binding'
    BY <1>6, <1>0 DEF Reserve, Set, Binding, Active, OneSender, Replaced,
       Live, TaskRecord, CommandRecord, NoTask, NoCommand, db, senders,
       input, remote
<1>7. ASSUME NEW t \in Tasks, NEW id \in DOMAIN entries, NEW late \in BOOLEAN,
             NextDead(t, id, late)
      PROVE  Binding'
    BY <1>7, <1>0 DEF NextDead, Binding, Active, OneSender, Replaced, Live,
       TaskRecord, CommandRecord, NoTask, NoCommand, db, senders, input,
       remote
<1>8. ASSUME NEW t \in Tasks, NextFails(t)
      PROVE  Binding'
    BY <1>8, <1>0 DEF NextFails, Fail, Set, Binding, Active, OneSender,
       Replaced, Live, TaskRecord, CommandRecord, NoTask, NoCommand, db,
       senders, input, remote
<1>9. ASSUME NEW t \in Tasks, Post(t)
      PROVE  Binding'
    BY <1>9, <1>0 DEF Post, Set, Binding, Active, OneSender, Replaced, Live,
       TaskRecord, CommandRecord, NoTask, NoCommand, db, senders, input,
       remote
<1>10. ASSUME NEW t \in Tasks, RemoteAccepts(t)
      PROVE  Binding'
    BY <1>10, <1>0 DEF RemoteAccepts, Set, Binding, Active, OneSender,
       Replaced, Live, TaskRecord, CommandRecord, NoTask, NoCommand, db,
       senders, input, remote
<1>11. ASSUME NEW t \in Tasks, NEW o \in Outcomes, Answer(t, o)
      PROVE  Binding'
    BY <1>11, <1>0 DEF Answer, Set, Binding, Active, OneSender, Replaced,
       Live, TaskRecord, CommandRecord, NoTask, NoCommand, db, senders,
       input, remote
<1>12. ASSUME NEW t \in Tasks, NEW late \in BOOLEAN, Settle(t, late)
      PROVE  Binding'
    BY <1>12, <1>0 DEF Settle, Set, Binding, Active, OneSender, Replaced,
       Live, TaskRecord, CommandRecord, NoTask, NoCommand, db, senders,
       input, remote
<1>13. ASSUME NEW t \in Tasks, SettleFails(t)
      PROVE  Binding'
    BY <1>13, <1>0 DEF SettleFails, Fail, Set, Binding, Active, OneSender,
       Replaced, Live, TaskRecord, CommandRecord, NoTask, NoCommand, db,
       senders, input, remote
<1>14. ASSUME NEW t \in Tasks, Cancelled(t)
      PROVE  Binding'
    BY <1>14, <1>0 DEF Cancelled, Exit, Set, Binding, Active, OneSender,
       Replaced, Live, TaskRecord, CommandRecord, NoTask, NoCommand, db,
       senders, input, remote
<1>15. ASSUME NEW t \in Tasks, AuditFailure(t)
      PROVE  Binding'
    BY <1>15, <1>0 DEF AuditFailure, Set, Binding, Active, OneSender,
       Replaced, Live, TaskRecord, CommandRecord, NoTask, NoCommand, db,
       senders, input, remote
<1>16. ASSUME NEW op \in Commands, Begin(op)
      PROVE  Binding'
    BY <1>16, <1>0 DEF Begin, FirstStep, Binding, Active, OneSender,
       Replaced, Live, TaskRecord, CommandRecord, NoTask, NoCommand, db,
       senders, input, remote
<1>17. CASE WritePause
    BY <1>17, <1>0 DEF WritePause, Binding, Active, OneSender, Replaced,
       Live, TaskRecord, CommandRecord, NoTask, NoCommand, db, senders,
       input, remote
<1>18. CASE Reap
    <2>1. resumedAt' = resumedAt /\ policy' = policy /\ ctl.pc = "reap"
        BY <1>18 DEF Reap
    <2>2. \A t \in Tasks : task'[t].pc = task[t].pc /\ task'[t].bound = task[t].bound
        BY <1>18, <1>0, ReapTasks
    <2>3. /\ ctl'.pc \in {"idle", "ensure", "await"}
          /\ ctl'.pc # "idle" => ctl'.version = ctl.version
        <3>1. \/ ctl' = NoCommand \/ ctl' = [ctl EXCEPT !.pc = "ensure"]
              \/ ctl' = [ctl EXCEPT !.pc = "await", !.old = registry]
            BY <1>18 DEF Reap, AfterReap
        <3>2. CASE ctl' = NoCommand
            BY <3>2 DEF NoCommand
        <3>3. CASE ctl' = [ctl EXCEPT !.pc = "ensure"]
            BY <1>0, <3>3 DEF CommandRecord
        <3>4. CASE ctl' = [ctl EXCEPT !.pc = "await", !.old = registry]
            BY <1>0, <3>4 DEF CommandRecord
        <3> QED
            BY <3>1, <3>2, <3>3, <3>4
    <2> QED
        BY <1>0, <2>1, <2>2, <2>3 DEF Binding, Active
<1>19. CASE Await
    BY <1>19, <1>0 DEF Await, AfterReap, AwaitDone, Binding, Active,
       OneSender, Replaced, Live, TaskRecord, CommandRecord, NoTask,
       NoCommand, db, senders, input, remote
<1>20. CASE Ensure
    <2>1. resumedAt' = resumedAt /\ policy' = policy /\ ctl.pc = "ensure"
        BY <1>20 DEF Ensure
    <2>2. /\ ctl'.pc \in {"idle", "write"}
          /\ ctl'.pc = "write" => ctl.op = "resume" /\ ctl'.version = ctl.version
        BY <1>20, <1>0 DEF Ensure, NoCommand, CommandRecord
    <2>3. \A t \in Tasks : Active(t)' =>
             \/ Active(t) /\ task'[t].bound = task[t].bound
             \/ task'[t].bound = ctl.version /\ ~Alive
        BY <1>20, <1>0, EnsureTasks DEF Active
    <2>4. ctl.op = "resume" => ~Alive
        BY <1>0, <2>1 DEF Replaced, Alive
    <2>5. \A t \in Tasks : Active(t) => Alive
        BY <1>0, <2>1, NoneLive DEF Active
    <2>6. resumedAt <= ctl.version /\ ctl.version \in 0 .. MaxPolicy
        BY <1>0, <2>1 DEF Binding, CommandRecord
    <2>7. \A t \in Tasks : Active(t)' => resumedAt' <= task'[t].bound
        BY <1>0, <2>1, <2>3, <2>6 DEF Binding
    <2>8. ctl'.pc = "write" => \A t \in Tasks : Active(t)' => ctl'.version <= task'[t].bound
        BY <1>0, <2>2, <2>3, <2>4, <2>5, <2>6
    <2> QED
        BY <1>0, <2>1, <2>2, <2>6, <2>7, <2>8 DEF Binding
<1>21. CASE EnsureFails
    BY <1>21, <1>0 DEF EnsureFails, EnsureOk, Alive, Binding, Active,
       OneSender, Replaced, Live, TaskRecord, CommandRecord, NoTask,
       NoCommand, db, senders, input, remote
<1>22. CASE WriteResume
    <2>1. /\ task' = task /\ policy' = policy /\ resumedAt' = ctl.version
          /\ ctl.op = "resume" /\ ctl.pc = "write" /\ ctl'.pc = "idle"
        BY <1>22 DEF WriteResume, senders, NoCommand
    <2>2. ctl.version <= policy
        BY <1>0, <2>1 DEF Binding
    <2> QED
        BY <1>0, <2>1, <2>2 DEF Binding, Active
<1>23. ASSUME NEW id \in DOMAIN entries, Replay(id)
      PROVE  Binding'
    BY <1>23, <1>0 DEF Replay, Binding, Active, OneSender, Replaced, Live,
       TaskRecord, CommandRecord, NoTask, NoCommand, db, senders, input,
       remote
<1>24. ASSUME NEW id \in DOMAIN entries, Purge(id)
      PROVE  Binding'
    BY <1>24, <1>0 DEF Purge, Binding, Active, OneSender, Replaced, Live,
       TaskRecord, CommandRecord, NoTask, NoCommand, db, senders, input,
       remote
<1>25. CASE ChangePolicy
    BY <1>25, <1>0 DEF ChangePolicy, Binding, Active, OneSender, Replaced,
       Live, TaskRecord, CommandRecord, NoTask, NoCommand, db, senders,
       input, remote
<1>26. CASE Crash
    BY <1>26, <1>0 DEF Crash, Binding, Active, OneSender, Replaced, Live,
       TaskRecord, CommandRecord, NoTask, NoCommand, db, senders, input,
       remote
<1>27. CASE UNCHANGED vars
    BY <1>27, <1>0 DEF vars, Binding, Active, OneSender, Replaced, Live,
       TaskRecord, CommandRecord, NoTask, NoCommand, db, senders, input,
       remote
<1> QED
    BY <1>1, <1>2, <1>3, <1>4, <1>5, <1>6, <1>7, <1>8, <1>9, <1>10, <1>11,
       <1>12, <1>13, <1>14, <1>15, <1>16, <1>17, <1>18, <1>19, <1>20, <1>21,
       <1>22, <1>23, <1>24, <1>25, <1>26, <1>27 DEF Next, SenderStep,
       CommandStep

-----------------------------------------------------------------------------
(* The table.                                                              *)

\* dead() changes the state of one entry and nothing else.
LEMMA DeadTable ==
    ASSUME entries \in [DOMAIN entries -> EntryRecord], NEW id \in DOMAIN entries
    PROVE  /\ Dead(id) \in [DOMAIN entries -> EntryRecord]
           /\ Dead(id)[id].state = DeadState
           /\ DeadState \in {"dlq", "blocked"}
           /\ \A j \in DOMAIN entries :
                 /\ Dead(id)[j].body = entries[j].body
                 /\ Dead(id)[j].attempts = entries[j].attempts
                 /\ j # id => Dead(id)[j] = entries[j]
<1>1. DeadState \in {"dlq", "blocked"}
    BY DEF DeadState
<1> QED
    BY <1>1 DEF Dead, EntryRecord

\* The entries without one of them.
LEMMA WithoutTable ==
    ASSUME entries \in [DOMAIN entries -> EntryRecord], NEW id
    PROVE  /\ DOMAIN Restrict(entries, DOMAIN entries \ {id}) = DOMAIN entries \ {id}
           /\ Restrict(entries, DOMAIN entries \ {id})
                 \in [DOMAIN entries \ {id} -> EntryRecord]
           /\ \A j \in DOMAIN entries \ {id} :
                 Restrict(entries, DOMAIN entries \ {id})[j] = entries[j]
BY DEF Restrict

\* A settlement keeps the table, removes the entry, or gives it up.
LEMMA SettleTable ==
    ASSUME NEW t \in Tasks, NEW late \in BOOLEAN, Settle(t, late)
    PROVE  LET id == task[t].id IN
           /\ id \in DOMAIN entries
           /\ \/ entries' = entries
              \/ entries' = Dead(id)
              \/ /\ entries' = Restrict(entries, DOMAIN entries \ {id})
                 /\ task[t].outcome = "Delivered"
BY DEF Settle, SettledEntries, Stale

\* The table keeps its type.
LEMMA EntriesTypedStep == SenderInv /\ [Next]_vars => EntriesTyped'
<1> SUFFICES ASSUME SenderInv, [Next]_vars
             PROVE  EntriesTyped'
    OBVIOUS
<1>0. /\ entries \in [DOMAIN entries -> EntryRecord]
      /\ DOMAIN entries \subseteq Ids /\ nextId \in 1 .. MaxId + 1
      /\ job \in [pc : {"stopped", "running", "committed"}, pos : 0 .. Batches]
      /\ MaxId \in Nat /\ MaxAttempts \in Nat /\ MaxGen \in Nat /\ Batches \in Nat
    BY OutboxAssumption DEF SenderInv, TypeOK
<1>1. CASE Enqueue
    <2>1. [state |-> "pending", body |-> job.pos, attempts |-> 0, gen |-> 0]
             \in EntryRecord
        BY <1>0 DEF EntryRecord
    <2>2. nextId \in Ids /\ nextId' = nextId + 1
        BY <1>1, <1>0 DEF Enqueue, Ids
    <2>3. /\ DOMAIN entries' = DOMAIN entries \cup {nextId}
          /\ entries' \in [DOMAIN entries \cup {nextId} -> EntryRecord]
        BY <1>1, <1>0, <2>1 DEF Enqueue
    <2> QED
        BY <1>0, <2>2, <2>3 DEF EntriesTyped, Ids
<1>2. CASE Ack
    BY <1>2, <1>0 DEF Ack, EntriesTyped, db
<1>3. CASE EnqueueFails
    BY <1>3, <1>0 DEF EnqueueFails, EntriesTyped, db
<1>4. CASE Checkpoint
    BY <1>4, <1>0 DEF Checkpoint, EntriesTyped, db
<1>5. CASE StopJob
    BY <1>5, <1>0 DEF StopJob, EntriesTyped, db
<1>6. ASSUME NEW t \in Tasks, NEW id \in DOMAIN entries, Reserve(t, id)
      PROVE  EntriesTyped'
    <2>1. nextId' = nextId /\ entries' = [entries EXCEPT ![id].attempts = @ + 1]
        BY <1>6 DEF Reserve, Reserved
    <2>2. entries[id].attempts + 1 \in 0 .. MaxAttempts
        BY <1>6, <1>0 DEF Reserve, GivenUp, EntryRecord
    <2> QED
        BY <1>0, <2>1, <2>2 DEF EntriesTyped, EntryRecord
<1>7. ASSUME NEW t \in Tasks, NEW id \in DOMAIN entries, NEW late \in BOOLEAN,
             NextDead(t, id, late)
      PROVE  EntriesTyped'
    <2>1. entries' = Dead(id) /\ nextId' = nextId
        BY <1>7 DEF NextDead
    <2> QED
        BY <1>0, <2>1, DeadTable DEF EntriesTyped
<1>8. ASSUME NEW t \in Tasks, NextFails(t)
      PROVE  EntriesTyped'
    BY <1>8, <1>0 DEF NextFails, Fail, EntriesTyped, db
<1>9. ASSUME NEW t \in Tasks, Post(t)
      PROVE  EntriesTyped'
    BY <1>9, <1>0 DEF Post, EntriesTyped, db
<1>10. ASSUME NEW t \in Tasks, RemoteAccepts(t)
      PROVE  EntriesTyped'
    BY <1>10, <1>0 DEF RemoteAccepts, EntriesTyped, db
<1>11. ASSUME NEW t \in Tasks, NEW o \in Outcomes, Answer(t, o)
      PROVE  EntriesTyped'
    BY <1>11, <1>0 DEF Answer, EntriesTyped, db
<1>12. ASSUME NEW t \in Tasks, NEW late \in BOOLEAN, Settle(t, late)
      PROVE  EntriesTyped'
    <2> DEFINE id == task[t].id
    <2>1. nextId' = nextId /\ id \in DOMAIN entries
        BY <1>12, SettleTable DEF Settle
    <2>2. CASE entries' = entries
        BY <1>0, <2>1, <2>2 DEF EntriesTyped
    <2>3. CASE entries' = Dead(id)
        BY <1>0, <2>1, <2>3, DeadTable DEF EntriesTyped
    <2>4. CASE entries' = Restrict(entries, DOMAIN entries \ {id})
        <3>1. DOMAIN entries' \subseteq DOMAIN entries
            BY <1>0, <2>4, WithoutTable
        <3> QED
            BY <1>0, <2>1, <2>4, <3>1, WithoutTable DEF EntriesTyped
    <2> QED
        BY <1>12, <2>2, <2>3, <2>4, SettleTable
<1>13. ASSUME NEW t \in Tasks, SettleFails(t)
      PROVE  EntriesTyped'
    BY <1>13, <1>0 DEF SettleFails, Fail, EntriesTyped, db
<1>14. ASSUME NEW t \in Tasks, Cancelled(t)
      PROVE  EntriesTyped'
    BY <1>14, <1>0 DEF Cancelled, Exit, EntriesTyped, db
<1>15. ASSUME NEW t \in Tasks, AuditFailure(t)
      PROVE  EntriesTyped'
    BY <1>15, <1>0 DEF AuditFailure, EntriesTyped, db
<1>16. ASSUME NEW op \in Commands, Begin(op)
      PROVE  EntriesTyped'
    BY <1>16, <1>0 DEF Begin, EntriesTyped, db
<1>17. CASE WritePause
    BY <1>17, <1>0 DEF WritePause, EntriesTyped, db
<1>18. CASE Reap
    BY <1>18, <1>0 DEF Reap, EntriesTyped, db
<1>19. CASE Await
    BY <1>19, <1>0 DEF Await, EntriesTyped, db
<1>20. CASE Ensure
    BY <1>20, <1>0 DEF Ensure, EntriesTyped, db
<1>21. CASE EnsureFails
    BY <1>21, <1>0 DEF EnsureFails, EntriesTyped, db
<1>22. CASE WriteResume
    BY <1>22, <1>0 DEF WriteResume, EntriesTyped, db
<1>23. ASSUME NEW id \in DOMAIN entries, Replay(id)
      PROVE  EntriesTyped'
    <2>1. nextId' = nextId
        BY <1>23 DEF Replay
    <2>2. entries' = [entries EXCEPT ![id].state = "pending", ![id].attempts = 0,
                                     ![id].gen = @ + 1]
        BY <1>23 DEF Replay
    <2>3. entries[id].gen + 1 \in 0 .. MaxGen
        BY <1>23, <1>0 DEF Replay, EntryRecord
    <2> QED
        BY <1>0, <2>1, <2>2, <2>3 DEF EntriesTyped, EntryRecord
<1>24. ASSUME NEW id \in DOMAIN entries, Purge(id)
      PROVE  EntriesTyped'
    <2>1. nextId' = nextId /\ entries' = Restrict(entries, DOMAIN entries \ {id})
        BY <1>24 DEF Purge
    <2>2. DOMAIN entries' \subseteq DOMAIN entries
        BY <1>0, <2>1, WithoutTable
    <2> QED
        BY <1>0, <2>1, <2>2, WithoutTable DEF EntriesTyped
<1>25. CASE ChangePolicy
    BY <1>25, <1>0 DEF ChangePolicy, EntriesTyped, db
<1>26. CASE Crash
    BY <1>26, <1>0 DEF Crash, EntriesTyped, db
<1>27. CASE UNCHANGED vars
    BY <1>27, <1>0 DEF vars, EntriesTyped, db
<1> QED
    BY <1>1, <1>2, <1>3, <1>4, <1>5, <1>6, <1>7, <1>8, <1>9, <1>10, <1>11,
       <1>12, <1>13, <1>14, <1>15, <1>16, <1>17, <1>18, <1>19, <1>20, <1>21,
       <1>22, <1>23, <1>24, <1>25, <1>26, <1>27 DEF Next, SenderStep,
       CommandStep

\* The senders keep their type.
LEMMA TasksTypedStep == SenderInv /\ [Next]_vars => TasksTyped'
<1> SUFFICES ASSUME SenderInv, [Next]_vars
             PROVE  TasksTyped'
    OBVIOUS
<1>0. /\ task \in [Tasks -> TaskRecord] /\ registry \in 0 .. 2
      /\ entries \in [DOMAIN entries -> EntryRecord]
      /\ DOMAIN entries \subseteq Ids
      /\ ctl \in CommandRecord
      /\ NoTask \in TaskRecord
      /\ MaxId \in Nat /\ MaxAttempts \in Nat
    BY OutboxAssumption DEF SenderInv, TypeOK, NoTask, TaskRecord, Outcomes
<1>1. CASE Enqueue
    BY <1>1, <1>0 DEF Enqueue, TasksTyped, TaskRecord, Outcomes, senders
<1>2. CASE Ack
    BY <1>2, <1>0 DEF Ack, TasksTyped, TaskRecord, Outcomes, senders
<1>3. CASE EnqueueFails
    BY <1>3, <1>0 DEF EnqueueFails, Refused, TasksTyped, TaskRecord,
       Outcomes, senders
<1>4. CASE Checkpoint
    BY <1>4, <1>0 DEF Checkpoint, TasksTyped, TaskRecord, Outcomes, senders
<1>5. CASE StopJob
    BY <1>5, <1>0 DEF StopJob, TasksTyped, TaskRecord, Outcomes, senders
<1>6. ASSUME NEW t \in Tasks, NEW id \in DOMAIN entries, Reserve(t, id)
      PROVE  TasksTyped'
    <2> DEFINE rec == [task[t] EXCEPT !.pc = "taken", !.id = id,
                                      !.attempt = entries[id].attempts + 1,
                                      !.hit = FALSE]
    <2>0. entries[id].attempts + 1 \in 0 .. MaxAttempts /\ id \in 0 .. MaxId
        BY <1>6, <1>0 DEF Reserve, GivenUp, EntryRecord, Ids
    <2>1. rec \in TaskRecord
        BY <1>6, <1>0, <2>0 DEF TaskRecord
    <2>2. task' = [task EXCEPT ![t] = rec]
        BY <1>6 DEF Reserve, Set
    <2> QED
        BY <1>0, <2>1, <2>2 DEF TasksTyped
<1>7. ASSUME NEW t \in Tasks, NEW id \in DOMAIN entries, NEW late \in BOOLEAN,
             NextDead(t, id, late)
      PROVE  TasksTyped'
    BY <1>7, <1>0 DEF NextDead, TasksTyped, TaskRecord, Outcomes, senders
<1>8. ASSUME NEW t \in Tasks, NextFails(t)
      PROVE  TasksTyped'
    BY <1>8, <1>0 DEF NextFails, Fail, Set, TasksTyped, TaskRecord,
       Outcomes, senders
<1>9. ASSUME NEW t \in Tasks, Post(t)
      PROVE  TasksTyped'
    BY <1>9, <1>0 DEF Post, Set, TasksTyped, TaskRecord, Outcomes, senders
<1>10. ASSUME NEW t \in Tasks, RemoteAccepts(t)
      PROVE  TasksTyped'
    <2> DEFINE rec == [task[t] EXCEPT !.hit = TRUE]
    <2>1. rec \in TaskRecord
        BY <1>10, <1>0 DEF TaskRecord
    <2>2. task' = [task EXCEPT ![t] = rec]
        BY <1>10 DEF RemoteAccepts, Set
    <2> QED
        BY <1>0, <2>1, <2>2 DEF TasksTyped
<1>11. ASSUME NEW t \in Tasks, NEW o \in Outcomes, Answer(t, o)
      PROVE  TasksTyped'
    <2> DEFINE rec == [task[t] EXCEPT !.pc = "answered", !.outcome = o]
    <2>1. rec \in TaskRecord
        BY <1>11, <1>0 DEF TaskRecord
    <2>2. task' = [task EXCEPT ![t] = rec]
        BY <1>11 DEF Answer, Set
    <2> QED
        BY <1>0, <2>1, <2>2 DEF TasksTyped
<1>12. ASSUME NEW t \in Tasks, NEW late \in BOOLEAN, Settle(t, late)
      PROVE  TasksTyped'
    <2> DEFINE rec == [task[t] EXCEPT !.pc = "idle", !.id = 0, !.attempt = 0,
                                      !.hit = FALSE, !.outcome = "Retry"]
    <2>0. 0 \in 0 .. MaxId /\ 0 \in 0 .. MaxAttempts /\ "Retry" \in Outcomes
        BY <1>0 DEF Outcomes
    <2>1. rec \in TaskRecord
        BY <1>12, <1>0, <2>0 DEF TaskRecord
    <2>2. task' = [task EXCEPT ![t] = rec]
        BY <1>12 DEF Settle, Set
    <2> QED
        BY <1>0, <2>1, <2>2 DEF TasksTyped
<1>13. ASSUME NEW t \in Tasks, SettleFails(t)
      PROVE  TasksTyped'
    BY <1>13, <1>0 DEF SettleFails, Fail, Set, TasksTyped, TaskRecord,
       Outcomes, senders
<1>14. ASSUME NEW t \in Tasks, Cancelled(t)
      PROVE  TasksTyped'
    BY <1>14, <1>0 DEF Cancelled, Exit, Set, TasksTyped, TaskRecord,
       Outcomes, senders
<1>15. ASSUME NEW t \in Tasks, AuditFailure(t)
      PROVE  TasksTyped'
    BY <1>15, <1>0 DEF AuditFailure, Set, TasksTyped, TaskRecord, Outcomes,
       senders
<1>16. ASSUME NEW op \in Commands, Begin(op)
      PROVE  TasksTyped'
    BY <1>16, <1>0 DEF Begin, FirstStep, TasksTyped, TaskRecord, Outcomes,
       senders
<1>17. CASE WritePause
    BY <1>17, <1>0 DEF WritePause, TasksTyped, TaskRecord, Outcomes, senders
<1>18. CASE Reap
    <2>1. CASE registry = 0
        BY <1>18, <1>0, <2>1 DEF Reap, TasksTyped
    <2>2. CASE registry # 0
        <3> DEFINE c == task[registry].cancelled \/ task[registry].pc # "none"
        <3>1. c \in BOOLEAN /\ registry \in Tasks
            BY <1>0, <2>2 DEF Tasks
        <3>2. task' = [task EXCEPT ![registry].cancelled = c]
            BY <1>18, <2>2 DEF Reap
        <3> HIDE DEF c
        <3> QED
            BY <1>0, <3>1, <3>2 DEF TasksTyped, TaskRecord
    <2> QED
        BY <2>1, <2>2
<1>19. CASE Await
    BY <1>19, <1>0 DEF Await, AfterReap, AwaitDone, TasksTyped, TaskRecord,
       Outcomes, senders
<1>20. CASE Ensure
    <2>1. CASE Alive
        BY <1>20, <1>0, <2>1 DEF Ensure, EnsureSender, senders, TasksTyped
    <2>2. CASE ~Alive
        <3> DEFINE rec == [NoTask EXCEPT !.pc = "idle", !.bound = ctl.version]
        <3>1. rec \in TaskRecord
            BY <1>0 DEF TaskRecord, CommandRecord
        <3>2. \E u \in Tasks : task' = [task EXCEPT ![u] = rec]
            BY <1>20, <2>2 DEF Ensure, EnsureSender, Spawn, Set
        <3> QED
            BY <1>0, <3>1, <3>2 DEF TasksTyped
    <2> QED
        BY <2>1, <2>2
<1>21. CASE EnsureFails
    BY <1>21, <1>0 DEF EnsureFails, EnsureOk, Alive, TasksTyped, TaskRecord,
       Outcomes, senders
<1>22. CASE WriteResume
    BY <1>22, <1>0 DEF WriteResume, TasksTyped, TaskRecord, Outcomes,
       senders
<1>23. ASSUME NEW id \in DOMAIN entries, Replay(id)
      PROVE  TasksTyped'
    BY <1>23, <1>0 DEF Replay, TasksTyped, TaskRecord, Outcomes, senders
<1>24. ASSUME NEW id \in DOMAIN entries, Purge(id)
      PROVE  TasksTyped'
    BY <1>24, <1>0 DEF Purge, TasksTyped, TaskRecord, Outcomes, senders
<1>25. CASE ChangePolicy
    BY <1>25, <1>0 DEF ChangePolicy, TasksTyped, TaskRecord, Outcomes,
       senders
<1>26. CASE Crash
    BY <1>26, <1>0 DEF Crash, TasksTyped, TaskRecord, Outcomes, senders
<1>27. CASE UNCHANGED vars
    BY <1>27, <1>0 DEF vars, TasksTyped, TaskRecord, Outcomes, senders
<1> QED
    BY <1>1, <1>2, <1>3, <1>4, <1>5, <1>6, <1>7, <1>8, <1>9, <1>10, <1>11,
       <1>12, <1>13, <1>14, <1>15, <1>16, <1>17, <1>18, <1>19, <1>20, <1>21,
       <1>22, <1>23, <1>24, <1>25, <1>26, <1>27 DEF Next, SenderStep,
       CommandStep

\* Everything but the table and the senders keeps its type.
LEMMA RestTypedStep == SenderInv /\ TableInv /\ [Next]_vars => RestTyped'
<1> SUFFICES ASSUME SenderInv, TableInv, [Next]_vars
             PROVE  RestTyped'
    OBVIOUS
<1>0. /\ RestTyped /\ NoCommand \in CommandRecord
      /\ task \in [Tasks -> TaskRecord] /\ Commands \subseteq {"pause", "resume", "start"}
      /\ job.pc = "committed" => job.pos < Batches
      /\ MaxPolicy \in Nat /\ Batches \in Nat /\ MaxCrashes \in Nat /\ MaxFaults \in Nat
    BY OutboxAssumption DEF SenderInv, Committing, TypeOK, RestTyped, NoCommand,
           CommandRecord
<1>1. CASE Enqueue
    BY <1>1, <1>0 DEF Enqueue, RestTyped, CommandRecord, Tasks, db, senders,
       input, remote
<1>2. CASE Ack
    BY <1>2, <1>0 DEF Ack, RestTyped, CommandRecord, Tasks, db, senders,
       input, remote
<1>3. CASE EnqueueFails
    BY <1>3, <1>0 DEF EnqueueFails, Refused, RestTyped, CommandRecord,
       Tasks, db, senders, input, remote
<1>4. CASE Checkpoint
    BY <1>4, <1>0 DEF Checkpoint, RestTyped, CommandRecord, Tasks, db,
       senders, input, remote
<1>5. CASE StopJob
    BY <1>5, <1>0 DEF StopJob, RestTyped, CommandRecord, Tasks, db, senders,
       input, remote
<1>6. ASSUME NEW t \in Tasks, NEW id \in DOMAIN entries, Reserve(t, id)
      PROVE  RestTyped'
    BY <1>6, <1>0 DEF Reserve, Set, RestTyped, CommandRecord, Tasks, db,
       senders, input, remote
<1>7. ASSUME NEW t \in Tasks, NEW id \in DOMAIN entries, NEW late \in BOOLEAN,
             NextDead(t, id, late)
      PROVE  RestTyped'
    BY <1>7, <1>0 DEF NextDead, RestTyped, CommandRecord, Tasks, db,
       senders, input, remote
<1>8. ASSUME NEW t \in Tasks, NextFails(t)
      PROVE  RestTyped'
    <2>1. worker' = FALSE /\ faults' \in 0 .. MaxFaults
        BY <1>8, <1>0 DEF NextFails, Fail, RestTyped
    <2>2. UNCHANGED <<db, registry, ctl, policy, input, remote, purged, resumedAt,
                      crashes>>
        BY <1>8 DEF NextFails, Fail
    <2>3. worker' \in BOOLEAN
        BY <2>1
    <2> QED
        BY <1>0, <2>1, <2>2, <2>3 DEF RestTyped, db, input, remote
<1>9. ASSUME NEW t \in Tasks, Post(t)
      PROVE  RestTyped'
    <2>1. task[t].id \in Ids
        BY <1>9 DEF Post, SenderInv, TypeOK, TableInv, Holds, InFlight, Stale
    <2>2. posts' \in [Ids -> Nat]
        BY <1>9, <1>0, <2>1 DEF Post, RestTyped
    <2> QED
        BY <1>9, <1>0, <2>2 DEF Post, RestTyped, db, input
<1>10. ASSUME NEW t \in Tasks, RemoteAccepts(t)
      PROVE  RestTyped'
    <2>1. task[t].id \in DOMAIN entries
        BY <1>10 DEF RemoteAccepts, TableInv, Holds, InFlight, Stale
    <2>2. entries[task[t].id].body \in 0 .. Batches
        BY <2>1 DEF SenderInv, TypeOK, EntryRecord
    <2>3. received' = received \cup {entries[task[t].id].body}
        BY <1>10 DEF RemoteAccepts
    <2> QED
        BY <1>10, <1>0, <2>2, <2>3 DEF RemoteAccepts, RestTyped, db, input
<1>11. ASSUME NEW t \in Tasks, NEW o \in Outcomes, Answer(t, o)
      PROVE  RestTyped'
    BY <1>11, <1>0 DEF Answer, Set, RestTyped, CommandRecord, Tasks, db,
       senders, input, remote
<1>12. ASSUME NEW t \in Tasks, NEW late \in BOOLEAN, Settle(t, late)
      PROVE  RestTyped'
    BY <1>12, <1>0 DEF Settle, Set, RestTyped, CommandRecord, Tasks, db,
       senders, input, remote
<1>13. ASSUME NEW t \in Tasks, SettleFails(t)
      PROVE  RestTyped'
    <2>1. worker' = FALSE /\ faults' \in 0 .. MaxFaults
        BY <1>13, <1>0 DEF SettleFails, Fail, RestTyped
    <2>2. UNCHANGED <<db, registry, ctl, policy, input, remote, purged, resumedAt,
                      crashes>>
        BY <1>13 DEF SettleFails, Fail
    <2>3. worker' \in BOOLEAN
        BY <2>1
    <2> QED
        BY <1>0, <2>1, <2>2, <2>3 DEF RestTyped, db, input, remote
<1>14. ASSUME NEW t \in Tasks, Cancelled(t)
      PROVE  RestTyped'
    BY <1>14, <1>0 DEF Cancelled, Exit, Set, RestTyped, CommandRecord,
       Tasks, db, senders, input, remote
<1>15. ASSUME NEW t \in Tasks, AuditFailure(t)
      PROVE  RestTyped'
    BY <1>15, <1>0 DEF AuditFailure, Set, RestTyped, CommandRecord, Tasks,
       db, senders, input, remote
<1>16. ASSUME NEW op \in Commands, Begin(op)
      PROVE  RestTyped'
    BY <1>16, <1>0 DEF Begin, FirstStep, RestTyped, CommandRecord, Tasks,
       db, senders, input, remote
<1>17. CASE WritePause
    BY <1>17, <1>0 DEF WritePause, RestTyped, CommandRecord, Tasks, db,
       senders, input, remote
<1>18. CASE Reap
    <2>1. \/ ctl' = NoCommand \/ ctl' = [ctl EXCEPT !.pc = "ensure"]
          \/ ctl' = [ctl EXCEPT !.pc = "await", !.old = registry]
        BY <1>18 DEF Reap, AfterReap
    <2>2. ctl' \in CommandRecord
        <3>1. CASE ctl' = NoCommand
            BY <1>0, <3>1
        <3>2. CASE ctl' = [ctl EXCEPT !.pc = "ensure"]
            BY <1>0, <3>2 DEF RestTyped, CommandRecord
        <3>3. CASE ctl' = [ctl EXCEPT !.pc = "await", !.old = registry]
            BY <1>0, <3>3 DEF RestTyped, CommandRecord
        <3> QED
            BY <2>1, <3>1, <3>2, <3>3
    <2>3. /\ registry' = 0
          /\ UNCHANGED <<db, worker, policy, input, remote, purged, resumedAt,
                         crashes, faults>>
        BY <1>18 DEF Reap
    <2> QED
        BY <1>0, <2>2, <2>3 DEF RestTyped, db, input, remote
<1>19. CASE Await
    BY <1>19, <1>0 DEF Await, AfterReap, AwaitDone, RestTyped,
       CommandRecord, Tasks, db, senders, input, remote
<1>20. CASE Ensure
    <2>1. ctl' \in CommandRecord
        <3>1. ctl' = NoCommand \/ ctl' = [ctl EXCEPT !.pc = "write"]
            BY <1>20 DEF Ensure
        <3> QED
            BY <1>0, <3>1 DEF RestTyped, CommandRecord
    <2>2. registry' \in 0 .. 2
        BY <1>20, <1>0 DEF Ensure, EnsureSender, Spawn, senders, Tasks, RestTyped
    <2>3. worker' = worker \/ worker' = TRUE
        BY <1>20 DEF Ensure, EnsureSender, Spawn, senders
    <2>4. worker' \in BOOLEAN
        BY <1>0, <2>3 DEF RestTyped
    <2>5. job' \in [pc : {"stopped", "running", "committed"}, pos : 0 .. Batches]
        BY <1>20, <1>0 DEF Ensure, RestTyped
    <2>6. UNCHANGED <<db, policy, cut, remote, purged, resumedAt, crashes, faults>>
        BY <1>20 DEF Ensure
    <2> QED
        BY <1>0, <2>1, <2>2, <2>4, <2>5, <2>6 DEF RestTyped, db, remote
<1>21. CASE EnsureFails
    BY <1>21, <1>0 DEF EnsureFails, EnsureOk, Alive, RestTyped,
       CommandRecord, Tasks, db, senders, input, remote
<1>22. CASE WriteResume
    BY <1>22, <1>0 DEF WriteResume, RestTyped, CommandRecord, Tasks, db,
       senders, input, remote
<1>23. ASSUME NEW id \in DOMAIN entries, Replay(id)
      PROVE  RestTyped'
    BY <1>23, <1>0 DEF Replay, RestTyped, CommandRecord, Tasks, db, senders,
       input, remote
<1>24. ASSUME NEW id \in DOMAIN entries, Purge(id)
      PROVE  RestTyped'
    <2>1. entries[id].body \in 0 .. Batches
        BY DEF SenderInv, TypeOK, EntryRecord
    <2>2. purged' = purged \cup {entries[id].body}
        BY <1>24 DEF Purge
    <2> QED
        BY <1>24, <1>0, <2>1, <2>2 DEF Purge, RestTyped, senders, input, remote
<1>25. CASE ChangePolicy
    BY <1>25, <1>0 DEF ChangePolicy, RestTyped, CommandRecord, Tasks, db,
       senders, input, remote
<1>26. CASE Crash
    <2>1. /\ worker' = FALSE /\ registry' = 0 /\ ctl' = NoCommand
          /\ job' = [pc |-> "stopped", pos |-> 0]
          /\ UNCHANGED <<db, policy, cut, remote, purged, resumedAt, faults>>
        BY <1>26 DEF Crash
    <2>2. crashes' \in 0 .. MaxCrashes
        BY <1>26, <1>0 DEF Crash, RestTyped
    <2>3. worker' \in BOOLEAN
        BY <2>1
    <2>4. job' \in [pc : {"stopped", "running", "committed"}, pos : 0 .. Batches]
        BY <1>0, <2>1
    <2> QED
        BY <1>0, <2>1, <2>2, <2>3, <2>4 DEF RestTyped, db, remote
<1>27. CASE UNCHANGED vars
    BY <1>27, <1>0 DEF vars, RestTyped, CommandRecord, Tasks, db, senders,
       input, remote
<1> QED
    BY <1>1, <1>2, <1>3, <1>4, <1>5, <1>6, <1>7, <1>8, <1>9, <1>10, <1>11,
       <1>12, <1>13, <1>14, <1>15, <1>16, <1>17, <1>18, <1>19, <1>20, <1>21,
       <1>22, <1>23, <1>24, <1>25, <1>26, <1>27 DEF Next, SenderStep,
       CommandStep

\* Every step keeps Committing.
LEMMA CommittingStep == SenderInv /\ [Next]_vars => Committing'
<1> SUFFICES ASSUME SenderInv, [Next]_vars
             PROVE  Committing'
    OBVIOUS
<1>0. /\ job \in [pc : {"stopped", "running", "committed"}, pos : 0 .. Batches]
      /\ Committing
    BY DEF SenderInv, TypeOK
<1>1. CASE Enqueue
    BY <1>1, <1>0 DEF Enqueue, Committing, input
<1>2. CASE Ack
    BY <1>2, <1>0 DEF Ack, Committing, input
<1>3. CASE EnqueueFails
    BY <1>3, <1>0 DEF EnqueueFails, Refused, Committing, input
<1>4. CASE Checkpoint
    BY <1>4, <1>0 DEF Checkpoint, Committing, input
<1>5. CASE StopJob
    BY <1>5, <1>0 DEF StopJob, Committing, input
<1>6. ASSUME NEW t \in Tasks, NEW id \in DOMAIN entries, Reserve(t, id)
      PROVE  Committing'
    BY <1>6, <1>0 DEF Reserve, Committing, input
<1>7. ASSUME NEW t \in Tasks, NEW id \in DOMAIN entries, NEW late \in BOOLEAN,
             NextDead(t, id, late)
      PROVE  Committing'
    BY <1>7, <1>0 DEF NextDead, Committing, input
<1>8. ASSUME NEW t \in Tasks, NextFails(t)
      PROVE  Committing'
    BY <1>8, <1>0 DEF NextFails, Fail, Committing, input
<1>9. ASSUME NEW t \in Tasks, Post(t)
      PROVE  Committing'
    BY <1>9, <1>0 DEF Post, Committing, input
<1>10. ASSUME NEW t \in Tasks, RemoteAccepts(t)
      PROVE  Committing'
    BY <1>10, <1>0 DEF RemoteAccepts, Committing, input
<1>11. ASSUME NEW t \in Tasks, NEW o \in Outcomes, Answer(t, o)
      PROVE  Committing'
    BY <1>11, <1>0 DEF Answer, Committing, input
<1>12. ASSUME NEW t \in Tasks, NEW late \in BOOLEAN, Settle(t, late)
      PROVE  Committing'
    BY <1>12, <1>0 DEF Settle, Committing, input
<1>13. ASSUME NEW t \in Tasks, SettleFails(t)
      PROVE  Committing'
    BY <1>13, <1>0 DEF SettleFails, Fail, Committing, input
<1>14. ASSUME NEW t \in Tasks, Cancelled(t)
      PROVE  Committing'
    BY <1>14, <1>0 DEF Cancelled, Exit, Committing, input
<1>15. ASSUME NEW t \in Tasks, AuditFailure(t)
      PROVE  Committing'
    BY <1>15, <1>0 DEF AuditFailure, Committing, input
<1>16. ASSUME NEW op \in Commands, Begin(op)
      PROVE  Committing'
    BY <1>16, <1>0 DEF Begin, Committing, input
<1>17. CASE WritePause
    BY <1>17, <1>0 DEF WritePause, Committing, input
<1>18. CASE Reap
    BY <1>18, <1>0 DEF Reap, Committing, input
<1>19. CASE Await
    BY <1>19, <1>0 DEF Await, Committing, input
<1>20. CASE Ensure
    BY <1>20, <1>0 DEF Ensure, Committing, input
<1>21. CASE EnsureFails
    BY <1>21, <1>0 DEF EnsureFails, Committing, input
<1>22. CASE WriteResume
    BY <1>22, <1>0 DEF WriteResume, Committing, input
<1>23. ASSUME NEW id \in DOMAIN entries, Replay(id)
      PROVE  Committing'
    BY <1>23, <1>0 DEF Replay, Committing, input
<1>24. ASSUME NEW id \in DOMAIN entries, Purge(id)
      PROVE  Committing'
    BY <1>24, <1>0 DEF Purge, Committing, input
<1>25. CASE ChangePolicy
    BY <1>25, <1>0 DEF ChangePolicy, Committing, input
<1>26. CASE Crash
    BY <1>26, <1>0 DEF Crash, Committing, input
<1>27. CASE UNCHANGED vars
    BY <1>27, <1>0 DEF vars, Committing, input
<1> QED
    BY <1>1, <1>2, <1>3, <1>4, <1>5, <1>6, <1>7, <1>8, <1>9, <1>10, <1>11,
       <1>12, <1>13, <1>14, <1>15, <1>16, <1>17, <1>18, <1>19, <1>20, <1>21,
       <1>22, <1>23, <1>24, <1>25, <1>26, <1>27 DEF Next, SenderStep,
       CommandStep

\* No settlement adds an entry.
LEMMA SettleDomain ==
    ASSUME entries \in [DOMAIN entries -> EntryRecord],
           NEW t \in Tasks, NEW late \in BOOLEAN, Settle(t, late)
    PROVE  DOMAIN entries' \subseteq DOMAIN entries
<1> DEFINE id == task[t].id
<1>1. id \in DOMAIN entries
    BY SettleTable
<1>2. CASE entries' = Dead(id)
    BY <1>1, <1>2, DeadTable
<1>3. CASE entries' = Restrict(entries, DOMAIN entries \ {id})
    BY <1>3, WithoutTable
<1> QED
    BY <1>2, <1>3, SettleTable

\* There is at most one live sender.
LEMMA Alone ==
    ASSUME SenderInv, NEW t \in Tasks, NEW u \in Tasks, Live(t), Live(u)
    PROVE  t = u
BY DEF SenderInv, OneSender, Tasks

\* Every step keeps Fresh: enqueue takes the next id and nothing else makes one.
LEMMA FreshStep == SenderInv /\ TableInv /\ [Next]_vars => Fresh'
<1> SUFFICES ASSUME SenderInv, TableInv, [Next]_vars
             PROVE  Fresh'
    OBVIOUS
<1>0. /\ entries \in [DOMAIN entries -> EntryRecord] /\ DOMAIN entries \subseteq Ids
      /\ nextId \in 1 .. MaxId + 1 /\ MaxId \in Nat
      /\ posts \in [Ids -> Nat] /\ Fresh /\ \A u \in Tasks : Holds(u)
    BY OutboxAssumption DEF SenderInv, TypeOK, TableInv
<1>1. CASE Enqueue
    BY <1>1, <1>0 DEF Enqueue, Fresh, db, remote, Ids
<1>2. CASE Ack
    BY <1>2, <1>0 DEF Ack, Fresh, db, remote, Ids
<1>3. CASE EnqueueFails
    BY <1>3, <1>0 DEF EnqueueFails, Fresh, db, remote, Ids
<1>4. CASE Checkpoint
    BY <1>4, <1>0 DEF Checkpoint, Fresh, db, remote, Ids
<1>5. CASE StopJob
    BY <1>5, <1>0 DEF StopJob, Fresh, db, remote, Ids
<1>6. ASSUME NEW t \in Tasks, NEW id \in DOMAIN entries, Reserve(t, id)
      PROVE  Fresh'
    BY <1>6, <1>0 DEF Reserve, Reserved, Fresh, db, remote, Ids
<1>7. ASSUME NEW t \in Tasks, NEW id \in DOMAIN entries, NEW late \in BOOLEAN,
             NextDead(t, id, late)
      PROVE  Fresh'
    <2>1. entries' = Dead(id) /\ nextId' = nextId /\ posts' = posts
        BY <1>7 DEF NextDead, remote
    <2> QED
        BY <1>0, <2>1, DeadTable DEF Fresh
<1>8. ASSUME NEW t \in Tasks, NextFails(t)
      PROVE  Fresh'
    BY <1>8, <1>0 DEF NextFails, Fail, Fresh, db, remote, Ids
<1>9. ASSUME NEW t \in Tasks, Post(t)
      PROVE  Fresh'
    <2>1. task[t].id \in DOMAIN entries
        BY <1>9, <1>0 DEF Post, Holds, InFlight, Stale
    <2> QED
        BY <1>9, <1>0, <2>1 DEF Post, Fresh, db, Ids
<1>10. ASSUME NEW t \in Tasks, RemoteAccepts(t)
      PROVE  Fresh'
    BY <1>10, <1>0 DEF RemoteAccepts, Fresh, db, remote, Ids
<1>11. ASSUME NEW t \in Tasks, NEW o \in Outcomes, Answer(t, o)
      PROVE  Fresh'
    BY <1>11, <1>0 DEF Answer, Fresh, db, remote, Ids
<1>12. ASSUME NEW t \in Tasks, NEW late \in BOOLEAN, Settle(t, late)
      PROVE  Fresh'
    <2>1. nextId' = nextId /\ posts' = posts
        BY <1>12 DEF Settle, remote
    <2>2. DOMAIN entries' \subseteq DOMAIN entries
        BY <1>12, <1>0, SettleDomain
    <2> QED
        BY <1>0, <2>1, <2>2 DEF Fresh
<1>13. ASSUME NEW t \in Tasks, SettleFails(t)
      PROVE  Fresh'
    BY <1>13, <1>0 DEF SettleFails, Fail, Fresh, db, remote, Ids
<1>14. ASSUME NEW t \in Tasks, Cancelled(t)
      PROVE  Fresh'
    BY <1>14, <1>0 DEF Cancelled, Exit, Fresh, db, remote, Ids
<1>15. ASSUME NEW t \in Tasks, AuditFailure(t)
      PROVE  Fresh'
    BY <1>15, <1>0 DEF AuditFailure, Fresh, db, remote, Ids
<1>16. ASSUME NEW op \in Commands, Begin(op)
      PROVE  Fresh'
    BY <1>16, <1>0 DEF Begin, Fresh, db, remote, Ids
<1>17. CASE WritePause
    BY <1>17, <1>0 DEF WritePause, Fresh, db, remote, Ids
<1>18. CASE Reap
    BY <1>18, <1>0 DEF Reap, Fresh, db, remote, Ids
<1>19. CASE Await
    BY <1>19, <1>0 DEF Await, Fresh, db, remote, Ids
<1>20. CASE Ensure
    BY <1>20, <1>0 DEF Ensure, Fresh, db, remote, Ids
<1>21. CASE EnsureFails
    BY <1>21, <1>0 DEF EnsureFails, Fresh, db, remote, Ids
<1>22. CASE WriteResume
    BY <1>22, <1>0 DEF WriteResume, Fresh, db, remote, Ids
<1>23. ASSUME NEW id \in DOMAIN entries, Replay(id)
      PROVE  Fresh'
    BY <1>23, <1>0 DEF Replay, Fresh, db, remote, Ids
<1>24. ASSUME NEW id \in DOMAIN entries, Purge(id)
      PROVE  Fresh'
    <2>1. nextId' = nextId /\ posts' = posts
        BY <1>24 DEF Purge, remote
    <2>2. DOMAIN entries' \subseteq DOMAIN entries
        BY <1>24, <1>0, WithoutTable DEF Purge
    <2> QED
        BY <1>0, <2>1, <2>2 DEF Fresh
<1>25. CASE ChangePolicy
    BY <1>25, <1>0 DEF ChangePolicy, Fresh, db, remote, Ids
<1>26. CASE Crash
    BY <1>26, <1>0 DEF Crash, Fresh, db, remote, Ids
<1>27. CASE UNCHANGED vars
    BY <1>27, <1>0 DEF vars, Fresh, db, remote, Ids
<1> QED
    BY <1>1, <1>2, <1>3, <1>4, <1>5, <1>6, <1>7, <1>8, <1>9, <1>10, <1>11,
       <1>12, <1>13, <1>14, <1>15, <1>16, <1>17, <1>18, <1>19, <1>20, <1>21,
       <1>22, <1>23, <1>24, <1>25, <1>26, <1>27 DEF Next, SenderStep,
       CommandStep

\* Every step keeps Holds: nothing but the sender that reserved an attempt
\* changes its row while the request is in flight.
LEMMA HoldsStep ==
    SenderInv /\ TableInv /\ [Next]_vars => (\A u \in Tasks : Holds(u))'
<1> SUFFICES ASSUME SenderInv, TableInv, [Next]_vars
             PROVE  (\A u \in Tasks : Holds(u))'
    OBVIOUS
<1>0. /\ entries \in [DOMAIN entries -> EntryRecord] /\ DOMAIN entries \subseteq Ids
      /\ task \in [Tasks -> TaskRecord] /\ Fresh
      /\ nextId \in 1 .. MaxId + 1 /\ MaxId \in Nat
      /\ \A u \in Tasks : Holds(u)
    BY OutboxAssumption DEF SenderInv, TypeOK, TableInv
<1>1. CASE Enqueue
    <2> SUFFICES ASSUME NEW u \in Tasks, InFlight(u)'
                 PROVE  ~Stale(u)'
        BY DEF Holds
    <2>1. task' = task
        BY <1>1 DEF Enqueue, senders
    <2>2. ~Stale(u)
        BY <1>0, <2>1 DEF Holds, InFlight
    <2>3. /\ task[u].id \in DOMAIN entries'
          /\ entries'[task[u].id] = entries[task[u].id]
        BY <1>1, <1>0, <2>2 DEF Enqueue, Stale, Fresh, Ids
    <2> QED
        BY <2>1, <2>2, <2>3 DEF Stale
<1>2. CASE Ack
    BY <1>2, <1>0 DEF Ack, Holds, InFlight, Stale, TaskRecord, NoTask, db,
       senders
<1>3. CASE EnqueueFails
    BY <1>3, <1>0 DEF EnqueueFails, Refused, Holds, InFlight, Stale,
       TaskRecord, NoTask, db, senders
<1>4. CASE Checkpoint
    BY <1>4, <1>0 DEF Checkpoint, Holds, InFlight, Stale, TaskRecord,
       NoTask, db, senders
<1>5. CASE StopJob
    BY <1>5, <1>0 DEF StopJob, Holds, InFlight, Stale, TaskRecord, NoTask,
       db, senders
<1>6. ASSUME NEW t \in Tasks, NEW id \in DOMAIN entries, Reserve(t, id)
      PROVE  (\A u \in Tasks : Holds(u))'
    <2> SUFFICES ASSUME NEW u \in Tasks, InFlight(u)'
                 PROVE  ~Stale(u)'
        BY DEF Holds
    <2>1. entries' = [entries EXCEPT ![id].attempts = @ + 1]
        BY <1>6 DEF Reserve, Reserved
    <2>2. task' = [task EXCEPT ![t] = [task[t] EXCEPT !.pc = "taken", !.id = id,
                                         !.attempt = entries[id].attempts + 1,
                                         !.hit = FALSE]]
        BY <1>6 DEF Reserve, Set
    <2>3. u = t
        <3> SUFFICES ASSUME u # t
                     PROVE  FALSE
            OBVIOUS
        <3>1. task'[u] = task[u]
            BY <1>0, <2>2
        <3>2. Live(u) /\ Live(t)
            BY <1>6, <3>1 DEF InFlight, Live, Reserve
        <3> QED
            BY <3>2, Alone
    <2>4. task'[t].id = id /\ task'[t].attempt = entries[id].attempts + 1
        BY <1>0, <2>2 DEF TaskRecord
    <2>5. entries[id].state = "pending"
        BY <1>6, <1>0 DEF Reserve, IsHead, Waiting, InState, GivenUp
    <2> QED
        BY <1>0, <2>1, <2>3, <2>4, <2>5 DEF Stale, EntryRecord
<1>7. ASSUME NEW t \in Tasks, NEW id \in DOMAIN entries, NEW late \in BOOLEAN,
             NextDead(t, id, late)
      PROVE  (\A u \in Tasks : Holds(u))'
    <2> SUFFICES ASSUME NEW u \in Tasks, InFlight(u)'
                 PROVE  ~Stale(u)'
        BY DEF Holds
    <2>1. task' = task /\ task[t].pc = "idle"
        BY <1>7 DEF NextDead, senders
    <2>2. Live(u) /\ Live(t) /\ u # t
        BY <2>1 DEF InFlight, Live
    <2> QED
        BY <2>2, Alone
<1>8. ASSUME NEW t \in Tasks, NextFails(t)
      PROVE  (\A u \in Tasks : Holds(u))'
    BY <1>8, <1>0 DEF NextFails, Fail, Set, Holds, InFlight, Stale,
       TaskRecord, NoTask, db, senders
<1>9. ASSUME NEW t \in Tasks, Post(t)
      PROVE  (\A u \in Tasks : Holds(u))'
    BY <1>9, <1>0 DEF Post, Set, Holds, InFlight, Stale, TaskRecord, NoTask,
       db, senders
<1>10. ASSUME NEW t \in Tasks, RemoteAccepts(t)
      PROVE  (\A u \in Tasks : Holds(u))'
    BY <1>10, <1>0 DEF RemoteAccepts, Set, Holds, InFlight, Stale,
       TaskRecord, NoTask, db, senders
<1>11. ASSUME NEW t \in Tasks, NEW o \in Outcomes, Answer(t, o)
      PROVE  (\A u \in Tasks : Holds(u))'
    BY <1>11, <1>0 DEF Answer, Set, Holds, InFlight, Stale, TaskRecord,
       NoTask, db, senders
<1>12. ASSUME NEW t \in Tasks, NEW late \in BOOLEAN, Settle(t, late)
      PROVE  (\A u \in Tasks : Holds(u))'
    <2> SUFFICES ASSUME NEW u \in Tasks, InFlight(u)'
                 PROVE  ~Stale(u)'
        BY DEF Holds
    <2>1. task[t].pc = "answered" /\ task'[t].pc = "idle"
        BY <1>12, <1>0 DEF Settle, Set, TaskRecord
    <2>2. u # t
        BY <2>1 DEF InFlight
    <2>3. task'[u] = task[u]
        BY <1>12, <1>0, <2>2 DEF Settle, Set
    <2>4. Live(u) /\ Live(t)
        BY <2>1, <2>3 DEF InFlight, Live
    <2> QED
        BY <2>2, <2>4, Alone
<1>13. ASSUME NEW t \in Tasks, SettleFails(t)
      PROVE  (\A u \in Tasks : Holds(u))'
    BY <1>13, <1>0 DEF SettleFails, Fail, Set, Holds, InFlight, Stale,
       TaskRecord, NoTask, db, senders
<1>14. ASSUME NEW t \in Tasks, Cancelled(t)
      PROVE  (\A u \in Tasks : Holds(u))'
    BY <1>14, <1>0 DEF Cancelled, Exit, Set, Holds, InFlight, Stale,
       TaskRecord, NoTask, db, senders
<1>15. ASSUME NEW t \in Tasks, AuditFailure(t)
      PROVE  (\A u \in Tasks : Holds(u))'
    BY <1>15, <1>0 DEF AuditFailure, Set, Holds, InFlight, Stale,
       TaskRecord, NoTask, db, senders
<1>16. ASSUME NEW op \in Commands, Begin(op)
      PROVE  (\A u \in Tasks : Holds(u))'
    BY <1>16, <1>0 DEF Begin, FirstStep, Holds, InFlight, Stale, TaskRecord,
       NoTask, db, senders
<1>17. CASE WritePause
    BY <1>17, <1>0 DEF WritePause, Holds, InFlight, Stale, TaskRecord,
       NoTask, db, senders
<1>18. CASE Reap
    <2> SUFFICES ASSUME NEW u \in Tasks, InFlight(u)'
                 PROVE  ~Stale(u)'
        BY DEF Holds
    <2>1. entries' = entries
        BY <1>18 DEF Reap, db
    <2>2. /\ task'[u].pc = task[u].pc /\ task'[u].id = task[u].id
          /\ task'[u].attempt = task[u].attempt
        BY <1>18, <1>0, ReapTasks
    <2> QED
        BY <1>0, <2>1, <2>2 DEF Holds, InFlight, Stale
<1>19. CASE Await
    BY <1>19, <1>0 DEF Await, AfterReap, AwaitDone, Holds, InFlight, Stale,
       TaskRecord, NoTask, db, senders
<1>20. CASE Ensure
    <2> SUFFICES ASSUME NEW u \in Tasks, InFlight(u)'
                 PROVE  ~Stale(u)'
        BY DEF Holds
    <2>1. entries' = entries
        BY <1>20 DEF Ensure, db
    <2>2. task'[u] = task[u]
        BY <1>20, <1>0, EnsureTasks DEF InFlight, SenderInv
    <2> QED
        BY <1>0, <2>1, <2>2 DEF Holds, InFlight, Stale
<1>21. CASE EnsureFails
    BY <1>21, <1>0 DEF EnsureFails, EnsureOk, Alive, Holds, InFlight, Stale,
       TaskRecord, NoTask, db, senders
<1>22. CASE WriteResume
    BY <1>22, <1>0 DEF WriteResume, Holds, InFlight, Stale, TaskRecord,
       NoTask, db, senders
<1>23. ASSUME NEW id \in DOMAIN entries, Replay(id)
      PROVE  (\A u \in Tasks : Holds(u))'
    <2> SUFFICES ASSUME NEW u \in Tasks, InFlight(u)'
                 PROVE  ~Stale(u)'
        BY DEF Holds
    <2>1. task' = task /\ entries[id].state = "dlq"
        BY <1>23 DEF Replay, Replayable, senders
    <2>2. ~Stale(u)
        BY <1>0, <2>1 DEF Holds, InFlight
    <2>3. task[u].id # id
        BY <2>1, <2>2 DEF Stale
    <2>4. DOMAIN entries' = DOMAIN entries /\ entries'[task[u].id] = entries[task[u].id]
        BY <1>23, <1>0, <2>2, <2>3 DEF Replay, Stale
    <2> QED
        BY <2>1, <2>2, <2>4 DEF Stale
<1>24. ASSUME NEW id \in DOMAIN entries, Purge(id)
      PROVE  (\A u \in Tasks : Holds(u))'
    <2> SUFFICES ASSUME NEW u \in Tasks, InFlight(u)'
                 PROVE  ~Stale(u)'
        BY DEF Holds
    <2>1. task' = task /\ entries[id].state = "dlq"
        BY <1>24 DEF Purge, senders
    <2>2. ~Stale(u)
        BY <1>0, <2>1 DEF Holds, InFlight
    <2>3. task[u].id # id
        BY <2>1, <2>2 DEF Stale
    <2>4. /\ task[u].id \in DOMAIN entries'
          /\ entries'[task[u].id] = entries[task[u].id]
        BY <1>24, <1>0, <2>2, <2>3, WithoutTable DEF Purge, Stale
    <2> QED
        BY <2>1, <2>2, <2>4 DEF Stale
<1>25. CASE ChangePolicy
    BY <1>25, <1>0 DEF ChangePolicy, Holds, InFlight, Stale, TaskRecord,
       NoTask, db, senders
<1>26. CASE Crash
    BY <1>26, <1>0 DEF Crash, Holds, InFlight, Stale, TaskRecord, NoTask,
       db, senders
<1>27. CASE UNCHANGED vars
    BY <1>27, <1>0 DEF vars, Holds, InFlight, Stale, TaskRecord, NoTask, db,
       senders
<1> QED
    BY <1>1, <1>2, <1>3, <1>4, <1>5, <1>6, <1>7, <1>8, <1>9, <1>10, <1>11,
       <1>12, <1>13, <1>14, <1>15, <1>16, <1>17, <1>18, <1>19, <1>20, <1>21,
       <1>22, <1>23, <1>24, <1>25, <1>26, <1>27 DEF Next, SenderStep,
       CommandStep

\* What a settlement leaves in the table keeps its body and its attempts, and
\* only a delivered entry goes.
LEMMA SettleKeeps ==
    ASSUME entries \in [DOMAIN entries -> EntryRecord],
           NEW t \in Tasks, NEW late \in BOOLEAN, Settle(t, late)
    PROVE  /\ \A i \in DOMAIN entries' :
                 /\ i \in DOMAIN entries
                 /\ entries'[i].body = entries[i].body
                 /\ entries'[i].attempts = entries[i].attempts
           /\ \A i \in DOMAIN entries :
                 i \in DOMAIN entries' \/ (i = task[t].id /\ task[t].outcome = "Delivered")
<1> DEFINE id == task[t].id
<1>1. id \in DOMAIN entries
    BY SettleTable
<1>2. CASE entries' = Dead(id)
    <2>1. DOMAIN entries' = DOMAIN entries
        BY <1>1, <1>2, DeadTable
    <2> QED
        BY <1>1, <1>2, <2>1, DeadTable
<1>3. CASE /\ entries' = Restrict(entries, DOMAIN entries \ {id})
           /\ task[t].outcome = "Delivered"
    BY <1>3, WithoutTable
<1>4. CASE entries' = entries
    BY <1>4
<1> QED
    BY <1>2, <1>3, <1>4, SettleTable

\* Every step keeps Counted.
LEMMA CountedStep == SenderInv /\ TableInv /\ [Next]_vars => Counted'
<1> SUFFICES ASSUME SenderInv, TableInv, [Next]_vars
             PROVE  Counted'
    OBVIOUS
<1>0. /\ entries \in [DOMAIN entries -> EntryRecord] /\ DOMAIN entries \subseteq Ids
      /\ task \in [Tasks -> TaskRecord] /\ posts \in [Ids -> Nat]
      /\ nextId \in 1 .. MaxId + 1 /\ MaxId \in Nat /\ MaxAttempts \in Nat
      /\ Fresh /\ Counted /\ \A u \in Tasks : Holds(u)
    BY OutboxAssumption DEF SenderInv, TypeOK, TableInv
<1>1. CASE Enqueue
    <2>1. /\ task' = task /\ posts' = posts
          /\ DOMAIN entries' = DOMAIN entries \cup {nextId} /\ nextId \in Ids
          /\ entries'[nextId].attempts = 0
          /\ \A i \in DOMAIN entries : entries'[i] = entries[i]
        BY <1>1, <1>0 DEF Enqueue, senders, remote, Fresh, Ids
    <2>2. posts[nextId] = 0
        BY <1>0, <2>1 DEF Fresh
    <2>3. \A u \in Tasks : task[u].pc = "taken" => task[u].id \in DOMAIN entries
        BY <1>0 DEF Holds, InFlight, Stale
    <2> QED
        BY <1>0, <2>1, <2>2, <2>3 DEF Counted
<1>2. CASE Ack
    BY <1>2, <1>0 DEF Ack, Counted, TaskRecord, NoTask, db, senders, remote
<1>3. CASE EnqueueFails
    BY <1>3, <1>0 DEF EnqueueFails, Refused, Counted, TaskRecord, NoTask,
       db, senders, remote
<1>4. CASE Checkpoint
    BY <1>4, <1>0 DEF Checkpoint, Counted, TaskRecord, NoTask, db, senders,
       remote
<1>5. CASE StopJob
    BY <1>5, <1>0 DEF StopJob, Counted, TaskRecord, NoTask, db, senders,
       remote
<1>6. ASSUME NEW t \in Tasks, NEW id \in DOMAIN entries, Reserve(t, id)
      PROVE  Counted'
    <2>1. entries' = [entries EXCEPT ![id].attempts = @ + 1] /\ posts' = posts
        BY <1>6 DEF Reserve, Reserved, remote
    <2>2. task' = [task EXCEPT ![t] = [task[t] EXCEPT !.pc = "taken", !.id = id,
                                         !.attempt = entries[id].attempts + 1,
                                         !.hit = FALSE]]
        BY <1>6 DEF Reserve, Set
    <2>3. \A i \in DOMAIN entries : entries[i].attempts \in Nat /\ posts[i] \in Nat
        BY <1>0 DEF EntryRecord
    <2>4. \A i \in DOMAIN entries' : posts'[i] <= entries'[i].attempts
        BY <1>0, <2>1, <2>3 DEF Counted, EntryRecord
    <2>5. ASSUME NEW u \in Tasks, task'[u].pc = "taken"
          PROVE  posts'[task'[u].id] < entries'[task'[u].id].attempts
        <3>1. CASE u = t
            <4>1. task'[u].id = id
                BY <1>0, <2>2, <3>1 DEF TaskRecord
            <4>2. entries'[id].attempts = entries[id].attempts + 1
                BY <1>0, <2>1 DEF EntryRecord
            <4> QED
                BY <1>0, <2>1, <2>3, <4>1, <4>2 DEF Counted
        <3>2. CASE u # t
            <4>1. task'[u] = task[u]
                BY <1>0, <2>2, <3>2
            <4>2. Live(u) /\ Live(t)
                BY <1>6, <2>5, <4>1 DEF Live, Reserve
            <4> QED
                BY <3>2, <4>2, Alone
        <3> QED
            BY <3>1, <3>2
    <2> QED
        BY <2>4, <2>5 DEF Counted
<1>7. ASSUME NEW t \in Tasks, NEW id \in DOMAIN entries, NEW late \in BOOLEAN,
             NextDead(t, id, late)
      PROVE  Counted'
    <2>1. entries' = Dead(id) /\ task' = task /\ posts' = posts
        BY <1>7 DEF NextDead, senders, remote
    <2>2. /\ DOMAIN entries' = DOMAIN entries
          /\ \A i \in DOMAIN entries : entries'[i].attempts = entries[i].attempts
        BY <1>0, <2>1, DeadTable
    <2>3. \A u \in Tasks : task[u].pc = "taken" => task[u].id \in DOMAIN entries
        BY <1>0 DEF Holds, InFlight, Stale
    <2> QED
        BY <1>0, <2>1, <2>2, <2>3 DEF Counted
<1>8. ASSUME NEW t \in Tasks, NextFails(t)
      PROVE  Counted'
    BY <1>8, <1>0 DEF NextFails, Fail, Set, Counted, TaskRecord, NoTask, db,
       senders, remote
<1>9. ASSUME NEW t \in Tasks, Post(t)
      PROVE  Counted'
    <2>1. /\ posts' = [posts EXCEPT ![task[t].id] = @ + 1] /\ entries' = entries
          /\ task[t].pc = "taken"
        BY <1>9 DEF Post, db
    <2>2. task[t].id \in DOMAIN entries
        BY <1>0, <2>1 DEF Holds, InFlight, Stale
    <2>3. \A i \in DOMAIN entries : entries[i].attempts \in Nat /\ posts[i] \in Nat
        BY <1>0 DEF EntryRecord
    <2>4. \A i \in DOMAIN entries' : posts'[i] <= entries'[i].attempts
        BY <1>0, <2>1, <2>2, <2>3 DEF Counted
    <2>5. \A u \in Tasks : task'[u].pc # "taken"
        <3> SUFFICES ASSUME NEW u \in Tasks, task'[u].pc = "taken"
                     PROVE  FALSE
            OBVIOUS
        <3>1. u # t /\ task'[u] = task[u]
            BY <1>9, <1>0 DEF Post, Set, TaskRecord
        <3>2. Live(u) /\ Live(t)
            BY <2>1, <3>1 DEF Live
        <3> QED
            BY <3>1, <3>2, Alone
    <2> QED
        BY <2>4, <2>5 DEF Counted
<1>10. ASSUME NEW t \in Tasks, RemoteAccepts(t)
      PROVE  Counted'
    BY <1>10, <1>0 DEF RemoteAccepts, Set, Counted, TaskRecord, NoTask, db,
       senders, remote
<1>11. ASSUME NEW t \in Tasks, NEW o \in Outcomes, Answer(t, o)
      PROVE  Counted'
    BY <1>11, <1>0 DEF Answer, Set, Counted, TaskRecord, NoTask, db,
       senders, remote
<1>12. ASSUME NEW t \in Tasks, NEW late \in BOOLEAN, Settle(t, late)
      PROVE  Counted'
    <2> DEFINE id == task[t].id
    <2>1. posts' = posts /\ task[t].pc = "answered"
        BY <1>12 DEF Settle, remote
    <2>2. \A u \in Tasks : task'[u].pc # "taken"
        <3> SUFFICES ASSUME NEW u \in Tasks, task'[u].pc = "taken"
                     PROVE  FALSE
            OBVIOUS
        <3>1. u # t /\ task'[u] = task[u]
            BY <1>12, <1>0 DEF Settle, Set, TaskRecord
        <3>2. Live(u) /\ Live(t)
            BY <2>1, <3>1 DEF Live
        <3> QED
            BY <3>1, <3>2, Alone
    <2>3. \A i \in DOMAIN entries' :
             i \in DOMAIN entries /\ entries'[i].attempts = entries[i].attempts
        BY <1>12, <1>0, SettleKeeps
    <2> QED
        BY <1>0, <2>1, <2>2, <2>3 DEF Counted
<1>13. ASSUME NEW t \in Tasks, SettleFails(t)
      PROVE  Counted'
    BY <1>13, <1>0 DEF SettleFails, Fail, Set, Counted, TaskRecord, NoTask,
       db, senders, remote
<1>14. ASSUME NEW t \in Tasks, Cancelled(t)
      PROVE  Counted'
    BY <1>14, <1>0 DEF Cancelled, Exit, Set, Counted, TaskRecord, NoTask,
       db, senders, remote
<1>15. ASSUME NEW t \in Tasks, AuditFailure(t)
      PROVE  Counted'
    BY <1>15, <1>0 DEF AuditFailure, Set, Counted, TaskRecord, NoTask, db,
       senders, remote
<1>16. ASSUME NEW op \in Commands, Begin(op)
      PROVE  Counted'
    BY <1>16, <1>0 DEF Begin, FirstStep, Counted, TaskRecord, NoTask, db,
       senders, remote
<1>17. CASE WritePause
    BY <1>17, <1>0 DEF WritePause, Counted, TaskRecord, NoTask, db, senders,
       remote
<1>18. CASE Reap
    <2>1. entries' = entries /\ posts' = posts
        BY <1>18 DEF Reap, db, remote
    <2>2. \A u \in Tasks : task'[u].pc = task[u].pc /\ task'[u].id = task[u].id
        BY <1>18, <1>0, ReapTasks
    <2> QED
        BY <1>0, <2>1, <2>2 DEF Counted
<1>19. CASE Await
    BY <1>19, <1>0 DEF Await, AfterReap, AwaitDone, Counted, TaskRecord,
       NoTask, db, senders, remote
<1>20. CASE Ensure
    <2>1. entries' = entries /\ posts' = posts
        BY <1>20 DEF Ensure, db, remote
    <2>2. \A u \in Tasks : task'[u].pc = "taken" => task'[u] = task[u]
        BY <1>20, <1>0, EnsureTasks DEF SenderInv
    <2> QED
        BY <1>0, <2>1, <2>2 DEF Counted
<1>21. CASE EnsureFails
    BY <1>21, <1>0 DEF EnsureFails, EnsureOk, Alive, Counted, TaskRecord,
       NoTask, db, senders, remote
<1>22. CASE WriteResume
    BY <1>22, <1>0 DEF WriteResume, Counted, TaskRecord, NoTask, db,
       senders, remote
<1>23. ASSUME NEW id \in DOMAIN entries, Replay(id)
      PROVE  Counted'
    <2>1. task' = task /\ entries[id].state = "dlq"
        BY <1>23 DEF Replay, Replayable, senders
    <2>2. \A u \in Tasks : task[u].pc = "taken" =>
             task[u].id \in DOMAIN entries /\ task[u].id # id
        BY <1>0, <2>1 DEF Holds, InFlight, Stale
    <2>3. /\ DOMAIN entries' = DOMAIN entries /\ entries'[id].attempts = 0
          /\ \A i \in DOMAIN entries : i # id => entries'[i] = entries[i]
        BY <1>23, <1>0 DEF Replay, EntryRecord
    <2>4. posts' = [posts EXCEPT ![id] = 0]
        BY <1>23 DEF Replay
    <2> QED
        BY <1>0, <2>1, <2>2, <2>3, <2>4 DEF Counted
<1>24. ASSUME NEW id \in DOMAIN entries, Purge(id)
      PROVE  Counted'
    <2>1. task' = task /\ entries[id].state = "dlq" /\ posts' = posts
        BY <1>24 DEF Purge, senders, remote
    <2>2. \A u \in Tasks : task[u].pc = "taken" =>
             task[u].id \in DOMAIN entries /\ task[u].id # id
        BY <1>0, <2>1 DEF Holds, InFlight, Stale
    <2>3. /\ DOMAIN entries' = DOMAIN entries \ {id}
          /\ \A i \in DOMAIN entries' : entries'[i] = entries[i]
        BY <1>24, <1>0, WithoutTable DEF Purge
    <2> QED
        BY <1>0, <2>1, <2>2, <2>3 DEF Counted
<1>25. CASE ChangePolicy
    BY <1>25, <1>0 DEF ChangePolicy, Counted, TaskRecord, NoTask, db,
       senders, remote
<1>26. CASE Crash
    BY <1>26, <1>0 DEF Crash, Counted, TaskRecord, NoTask, db, senders,
       remote
<1>27. CASE UNCHANGED vars
    BY <1>27, <1>0 DEF vars, Counted, TaskRecord, NoTask, db, senders,
       remote
<1> QED
    BY <1>1, <1>2, <1>3, <1>4, <1>5, <1>6, <1>7, <1>8, <1>9, <1>10, <1>11,
       <1>12, <1>13, <1>14, <1>15, <1>16, <1>17, <1>18, <1>19, <1>20, <1>21,
       <1>22, <1>23, <1>24, <1>25, <1>26, <1>27 DEF Next, SenderStep,
       CommandStep

\* Every step keeps Truthful.
LEMMA TruthfulStep ==
    SenderInv /\ TableInv /\ [Next]_vars => (\A u \in Tasks : Truthful(u))'
<1> SUFFICES ASSUME SenderInv, TableInv, [Next]_vars
             PROVE  (\A u \in Tasks : Truthful(u))'
    OBVIOUS
<1>0. /\ entries \in [DOMAIN entries -> EntryRecord] /\ DOMAIN entries \subseteq Ids
      /\ task \in [Tasks -> TaskRecord] /\ nextId \in 1 .. MaxId + 1 /\ MaxId \in Nat
      /\ Fresh /\ \A u \in Tasks : Holds(u) /\ Truthful(u)
    BY OutboxAssumption DEF SenderInv, TypeOK, TableInv
<1>1. CASE Enqueue
    <2>1. \A u \in Tasks : InFlight(u) => task[u].id \in DOMAIN entries
        BY <1>0 DEF Holds, Stale
    <2>2. /\ task' = task /\ received' = received
          /\ \A i \in DOMAIN entries : entries'[i] = entries[i]
        BY <1>1, <1>0 DEF Enqueue, senders, remote, Fresh, Ids
    <2> QED
        BY <1>0, <2>1, <2>2 DEF Truthful, InFlight
<1>2. CASE Ack
    BY <1>2, <1>0 DEF Ack, Truthful, InFlight, TaskRecord, NoTask, db,
       senders, remote
<1>3. CASE EnqueueFails
    BY <1>3, <1>0 DEF EnqueueFails, Refused, Truthful, InFlight, TaskRecord,
       NoTask, db, senders, remote
<1>4. CASE Checkpoint
    BY <1>4, <1>0 DEF Checkpoint, Truthful, InFlight, TaskRecord, NoTask,
       db, senders, remote
<1>5. CASE StopJob
    BY <1>5, <1>0 DEF StopJob, Truthful, InFlight, TaskRecord, NoTask, db,
       senders, remote
<1>6. ASSUME NEW t \in Tasks, NEW id \in DOMAIN entries, Reserve(t, id)
      PROVE  (\A u \in Tasks : Truthful(u))'
    <2>1. \A u \in Tasks : InFlight(u) => task[u].id \in DOMAIN entries
        BY <1>0 DEF Holds, Stale
    <2>2. received' = received /\ entries' = [entries EXCEPT ![id].attempts = @ + 1]
        BY <1>6 DEF Reserve, Reserved, remote
    <2>3. \A i \in DOMAIN entries : entries'[i].body = entries[i].body
        BY <1>0, <2>2 DEF EntryRecord
    <2>4. task'[t].hit = FALSE /\ task'[t].pc = "taken"
        BY <1>6, <1>0 DEF Reserve, Set, TaskRecord
    <2>5. \A u \in Tasks : u # t => task'[u] = task[u]
        BY <1>6, <1>0 DEF Reserve, Set
    <2>6. Truthful(t)'
        BY <2>4 DEF Truthful
    <2>7. \A u \in Tasks : u # t => Truthful(u)'
        BY <1>0, <2>1, <2>2, <2>3, <2>5 DEF Truthful, InFlight
    <2> QED
        BY <2>6, <2>7
<1>7. ASSUME NEW t \in Tasks, NEW id \in DOMAIN entries, NEW late \in BOOLEAN,
             NextDead(t, id, late)
      PROVE  (\A u \in Tasks : Truthful(u))'
    <2>1. \A u \in Tasks : InFlight(u) => task[u].id \in DOMAIN entries
        BY <1>0 DEF Holds, Stale
    <2>2. entries' = Dead(id) /\ task' = task /\ received' = received
        BY <1>7 DEF NextDead, senders, remote
    <2>3. \A i \in DOMAIN entries : entries'[i].body = entries[i].body
        BY <1>0, <2>2, DeadTable
    <2> QED
        BY <1>0, <2>1, <2>2, <2>3 DEF Truthful, InFlight
<1>8. ASSUME NEW t \in Tasks, NextFails(t)
      PROVE  (\A u \in Tasks : Truthful(u))'
    BY <1>8, <1>0 DEF NextFails, Fail, Set, Truthful, InFlight, TaskRecord,
       NoTask, db, senders, remote
<1>9. ASSUME NEW t \in Tasks, Post(t)
      PROVE  (\A u \in Tasks : Truthful(u))'
    BY <1>9, <1>0 DEF Post, Set, Truthful, InFlight, TaskRecord, NoTask, db,
       senders, remote
<1>10. ASSUME NEW t \in Tasks, RemoteAccepts(t)
      PROVE  (\A u \in Tasks : Truthful(u))'
    <2>1. /\ entries' = entries
          /\ received' = received \cup {entries[task[t].id].body}
          /\ task[t].pc = "posting"
        BY <1>10 DEF RemoteAccepts, db
    <2>2. /\ task'[t].id = task[t].id /\ task'[t].pc = "posting"
          /\ \A u \in Tasks : u # t => task'[u] = task[u]
        BY <1>10, <1>0 DEF RemoteAccepts, Set, TaskRecord
    <2>3. Truthful(t)'
        BY <2>1, <2>2 DEF Truthful
    <2>4. \A u \in Tasks : u # t => Truthful(u)'
        BY <1>0, <2>1, <2>2 DEF Truthful, InFlight
    <2> QED
        BY <2>3, <2>4
<1>11. ASSUME NEW t \in Tasks, NEW o \in Outcomes, Answer(t, o)
      PROVE  (\A u \in Tasks : Truthful(u))'
    <2>1. entries' = entries /\ received' = received /\ task[t].pc = "posting"
        BY <1>11 DEF Answer, db, remote
    <2>2. task' = [task EXCEPT ![t] = [task[t] EXCEPT !.pc = "answered", !.outcome = o]]
        BY <1>11 DEF Answer, Set
    <2>3. /\ task'[t].id = task[t].id /\ task'[t].hit = task[t].hit
          /\ task'[t].outcome = o
        BY <1>0, <2>2 DEF TaskRecord
    <2>4. o = "Delivered" => task[t].hit
        BY <1>11 DEF Answer
    <2>5. Truthful(t)'
        BY <1>0, <2>1, <2>3, <2>4 DEF Truthful, InFlight
    <2>6. \A u \in Tasks : u # t => Truthful(u)'
        BY <1>0, <2>1, <2>2 DEF Truthful, InFlight
    <2> QED
        BY <2>5, <2>6
<1>12. ASSUME NEW t \in Tasks, NEW late \in BOOLEAN, Settle(t, late)
      PROVE  (\A u \in Tasks : Truthful(u))'
    <2>1. received' = received /\ task[t].pc = "answered"
        BY <1>12 DEF Settle, remote
    <2>2. task'[t].pc = "idle" /\ \A u \in Tasks : u # t => task'[u] = task[u]
        BY <1>12, <1>0 DEF Settle, Set, TaskRecord
    <2>3. \A u \in Tasks : u # t => ~InFlight(u)
        BY <2>1, Alone DEF InFlight, Live
    <2>4. \A u \in Tasks : ~InFlight(u)'
        BY <2>2, <2>3 DEF InFlight
    <2> QED
        BY <2>4 DEF Truthful
<1>13. ASSUME NEW t \in Tasks, SettleFails(t)
      PROVE  (\A u \in Tasks : Truthful(u))'
    BY <1>13, <1>0 DEF SettleFails, Fail, Set, Truthful, InFlight,
       TaskRecord, NoTask, db, senders, remote
<1>14. ASSUME NEW t \in Tasks, Cancelled(t)
      PROVE  (\A u \in Tasks : Truthful(u))'
    BY <1>14, <1>0 DEF Cancelled, Exit, Set, Truthful, InFlight, TaskRecord,
       NoTask, db, senders, remote
<1>15. ASSUME NEW t \in Tasks, AuditFailure(t)
      PROVE  (\A u \in Tasks : Truthful(u))'
    BY <1>15, <1>0 DEF AuditFailure, Set, Truthful, InFlight, TaskRecord,
       NoTask, db, senders, remote
<1>16. ASSUME NEW op \in Commands, Begin(op)
      PROVE  (\A u \in Tasks : Truthful(u))'
    BY <1>16, <1>0 DEF Begin, FirstStep, Truthful, InFlight, TaskRecord,
       NoTask, db, senders, remote
<1>17. CASE WritePause
    BY <1>17, <1>0 DEF WritePause, Truthful, InFlight, TaskRecord, NoTask,
       db, senders, remote
<1>18. CASE Reap
    <2>1. entries' = entries /\ received' = received
        BY <1>18 DEF Reap, db, remote
    <2>2. \A u \in Tasks :
             /\ task'[u].pc = task[u].pc /\ task'[u].id = task[u].id
             /\ task'[u].hit = task[u].hit /\ task'[u].outcome = task[u].outcome
        BY <1>18, <1>0, ReapTasks
    <2> QED
        BY <1>0, <2>1, <2>2 DEF Truthful, InFlight
<1>19. CASE Await
    BY <1>19, <1>0 DEF Await, AfterReap, AwaitDone, Truthful, InFlight,
       TaskRecord, NoTask, db, senders, remote
<1>20. CASE Ensure
    <2>1. entries' = entries /\ received' = received
        BY <1>20 DEF Ensure, db, remote
    <2>2. \A u \in Tasks : InFlight(u)' => task'[u] = task[u]
        BY <1>20, <1>0, EnsureTasks DEF SenderInv, InFlight
    <2> QED
        BY <1>0, <2>1, <2>2 DEF Truthful, InFlight
<1>21. CASE EnsureFails
    BY <1>21, <1>0 DEF EnsureFails, EnsureOk, Alive, Truthful, InFlight,
       TaskRecord, NoTask, db, senders, remote
<1>22. CASE WriteResume
    BY <1>22, <1>0 DEF WriteResume, Truthful, InFlight, TaskRecord, NoTask,
       db, senders, remote
<1>23. ASSUME NEW id \in DOMAIN entries, Replay(id)
      PROVE  (\A u \in Tasks : Truthful(u))'
    <2>1. \A u \in Tasks : InFlight(u) => task[u].id \in DOMAIN entries
        BY <1>0 DEF Holds, Stale
    <2>2. task' = task /\ received' = received
        BY <1>23 DEF Replay, senders
    <2>3. \A i \in DOMAIN entries : entries'[i].body = entries[i].body
        BY <1>23, <1>0 DEF Replay, EntryRecord
    <2> QED
        BY <1>0, <2>1, <2>2, <2>3 DEF Truthful, InFlight
<1>24. ASSUME NEW id \in DOMAIN entries, Purge(id)
      PROVE  (\A u \in Tasks : Truthful(u))'
    <2>1. task' = task /\ received' = received /\ entries[id].state = "dlq"
        BY <1>24 DEF Purge, senders, remote
    <2>2. \A u \in Tasks : InFlight(u) => task[u].id \in DOMAIN entries \ {id}
        BY <1>0, <2>1 DEF Holds, Stale
    <2>3. \A i \in DOMAIN entries \ {id} : entries'[i] = entries[i]
        BY <1>24, <1>0, WithoutTable DEF Purge
    <2> QED
        BY <1>0, <2>1, <2>2, <2>3 DEF Truthful, InFlight
<1>25. CASE ChangePolicy
    BY <1>25, <1>0 DEF ChangePolicy, Truthful, InFlight, TaskRecord, NoTask,
       db, senders, remote
<1>26. CASE Crash
    BY <1>26, <1>0 DEF Crash, Truthful, InFlight, TaskRecord, NoTask, db,
       senders, remote
<1>27. CASE UNCHANGED vars
    BY <1>27, <1>0 DEF vars, Truthful, InFlight, TaskRecord, NoTask, db,
       senders, remote
<1> QED
    BY <1>1, <1>2, <1>3, <1>4, <1>5, <1>6, <1>7, <1>8, <1>9, <1>10, <1>11,
       <1>12, <1>13, <1>14, <1>15, <1>16, <1>17, <1>18, <1>19, <1>20, <1>21,
       <1>22, <1>23, <1>24, <1>25, <1>26, <1>27 DEF Next, SenderStep,
       CommandStep
\* Every step keeps CoverInv: only a delivery, a discard, or nothing at all
\* removes a row the source has passed.
LEMMA CoverStep ==
    SenderInv /\ TableInv /\ CoverInv /\ [Next]_vars => CoverInv'
<1> SUFFICES ASSUME SenderInv, TableInv, CoverInv, [Next]_vars
             PROVE  CoverInv'
    OBVIOUS
<1>0. /\ entries \in [DOMAIN entries -> EntryRecord]
      /\ job \in [pc : {"stopped", "running", "committed"}, pos : 0 .. Batches]
      /\ cut \in 0 .. Batches /\ Batches \in Nat
      /\ \A u \in Tasks : Holds(u) /\ Truthful(u)
      /\ CoverInv
    BY OutboxAssumption DEF SenderInv, TypeOK, TableInv
<1>1. CASE Enqueue
    <2>1. /\ cut' = cut /\ received' = received /\ purged' = purged
          /\ job.pc = "running" /\ job'.pc = "committed" /\ job'.pos = job.pos
        BY <1>1, <1>0 DEF Enqueue, remote
    <2>2. /\ DOMAIN entries' = DOMAIN entries \cup {nextId}
          /\ entries'[nextId].body = job.pos
          /\ \A i \in DOMAIN entries : i # nextId => entries'[i] = entries[i]
        BY <1>1 DEF Enqueue
    <2>3. nextId \notin DOMAIN entries
        BY <1>0 DEF TableInv, Fresh, SenderInv, TypeOK, Ids
    <2>4. \A b \in 0 .. Batches : Covered(b) => Covered(b)'
        BY <2>1, <2>2, <2>3 DEF Covered
    <2>5. Covered(job.pos)'
        BY <2>1, <2>2 DEF Covered
    <2> QED
        BY <1>0, <2>1, <2>4, <2>5 DEF CoverInv, Passed
<1>2. CASE Ack
    BY <1>2, <1>0 DEF Ack, CoverInv, Covered, Passed, db, input, remote
<1>3. CASE EnqueueFails
    BY <1>3, <1>0 DEF EnqueueFails, Refused, CoverInv, Covered, Passed, db,
       input, remote
<1>4. CASE Checkpoint
    BY <1>4, <1>0 DEF Checkpoint, CoverInv, Covered, Passed, db, input,
       remote
<1>5. CASE StopJob
    BY <1>5, <1>0 DEF StopJob, CoverInv, Covered, Passed, db, input, remote
<1>6. ASSUME NEW t \in Tasks, NEW id \in DOMAIN entries, Reserve(t, id)
      PROVE  CoverInv'
    <2>1. cut' = cut /\ job' = job
        BY <1>6 DEF Reserve, input
    <2>2. /\ entries' = [entries EXCEPT ![id].attempts = @ + 1]
          /\ received' = received /\ purged' = purged
        BY <1>6 DEF Reserve, Reserved, remote
    <2>3. \A b \in 0 .. Batches : Covered(b) => Covered(b)'
        BY <1>0, <2>2 DEF Covered, EntryRecord
    <2> QED
        BY <1>0, <2>1, <2>3 DEF CoverInv, Passed
<1>7. ASSUME NEW t \in Tasks, NEW id \in DOMAIN entries, NEW late \in BOOLEAN,
             NextDead(t, id, late)
      PROVE  CoverInv'
    <2>1. cut' = cut /\ job' = job
        BY <1>7 DEF NextDead, input
    <2>2. /\ entries' = Dead(id) /\ received' = received /\ purged' = purged
          /\ DOMAIN Dead(id) = DOMAIN entries
        BY <1>7, <1>0, DeadTable DEF NextDead, remote
    <2>3. \A b \in 0 .. Batches : Covered(b) => Covered(b)'
        BY <1>0, <2>2, DeadTable DEF Covered
    <2> QED
        BY <1>0, <2>1, <2>3 DEF CoverInv, Passed
<1>8. ASSUME NEW t \in Tasks, NextFails(t)
      PROVE  CoverInv'
    BY <1>8, <1>0 DEF NextFails, Fail, CoverInv, Covered, Passed, db, input,
       remote
<1>9. ASSUME NEW t \in Tasks, Post(t)
      PROVE  CoverInv'
    BY <1>9, <1>0 DEF Post, CoverInv, Covered, Passed, db, input, remote
<1>10. ASSUME NEW t \in Tasks, RemoteAccepts(t)
      PROVE  CoverInv'
    BY <1>10, <1>0 DEF RemoteAccepts, CoverInv, Covered, Passed, db, input,
       remote
<1>11. ASSUME NEW t \in Tasks, NEW o \in Outcomes, Answer(t, o)
      PROVE  CoverInv'
    BY <1>11, <1>0 DEF Answer, CoverInv, Covered, Passed, db, input, remote
<1>12. ASSUME NEW t \in Tasks, NEW late \in BOOLEAN, Settle(t, late)
      PROVE  CoverInv'
    <2>1. cut' = cut /\ job' = job
        BY <1>12 DEF Settle, input
    <2>2. received' = received /\ purged' = purged
        BY <1>12 DEF Settle, remote
    <2>4. task[t].outcome = "Delivered" => entries[task[t].id].body \in received
        BY <1>12, <1>0 DEF Settle, Truthful, InFlight
    <2>3. \A b \in 0 .. Batches : Covered(b) => Covered(b)'
        BY <1>0, <1>12, <2>2, <2>4, SettleKeeps DEF Covered
    <2> QED
        BY <1>0, <2>1, <2>3 DEF CoverInv, Passed
<1>13. ASSUME NEW t \in Tasks, SettleFails(t)
      PROVE  CoverInv'
    BY <1>13, <1>0 DEF SettleFails, Fail, CoverInv, Covered, Passed, db,
       input, remote
<1>14. ASSUME NEW t \in Tasks, Cancelled(t)
      PROVE  CoverInv'
    BY <1>14, <1>0 DEF Cancelled, Exit, CoverInv, Covered, Passed, db,
       input, remote
<1>15. ASSUME NEW t \in Tasks, AuditFailure(t)
      PROVE  CoverInv'
    BY <1>15, <1>0 DEF AuditFailure, CoverInv, Covered, Passed, db, input,
       remote
<1>16. ASSUME NEW op \in Commands, Begin(op)
      PROVE  CoverInv'
    BY <1>16, <1>0 DEF Begin, CoverInv, Covered, Passed, db, input, remote
<1>17. CASE WritePause
    BY <1>17, <1>0 DEF WritePause, CoverInv, Covered, Passed, db, input,
       remote
<1>18. CASE Reap
    BY <1>18, <1>0 DEF Reap, CoverInv, Covered, Passed, db, input, remote
<1>19. CASE Await
    BY <1>19, <1>0 DEF Await, CoverInv, Covered, Passed, db, input, remote
<1>20. CASE Ensure
    <2>1. /\ cut' = cut
          /\ job' = job \/ job' = [pc |-> "running", pos |-> cut]
          /\ entries' = entries /\ received' = received /\ purged' = purged
        BY <1>20 DEF Ensure, db, remote
    <2>2. \A b \in 0 .. Batches : Covered(b) => Covered(b)'
        BY <2>1 DEF Covered
    <2>3. \A b \in 0 .. Batches : Passed(b)' => Passed(b)
        BY <1>0, <2>1 DEF Passed
    <2> QED
        BY <1>0, <2>2, <2>3 DEF CoverInv
<1>21. CASE EnsureFails
    BY <1>21, <1>0 DEF EnsureFails, CoverInv, Covered, Passed, db, input,
       remote
<1>22. CASE WriteResume
    BY <1>22, <1>0 DEF WriteResume, CoverInv, Covered, Passed, db, input,
       remote
<1>23. ASSUME NEW id \in DOMAIN entries, Replay(id)
      PROVE  CoverInv'
    <2>1. cut' = cut /\ job' = job
        BY <1>23 DEF Replay, input
    <2>2. /\ received' = received /\ purged' = purged
          /\ entries' = [entries EXCEPT ![id].state = "pending", ![id].attempts = 0,
                                        ![id].gen = @ + 1]
        BY <1>23 DEF Replay
    <2>3. \A b \in 0 .. Batches : Covered(b) => Covered(b)'
        BY <1>0, <2>2 DEF Covered, EntryRecord
    <2> QED
        BY <1>0, <2>1, <2>3 DEF CoverInv, Passed
<1>24. ASSUME NEW id \in DOMAIN entries, Purge(id)
      PROVE  CoverInv'
    <2>1. cut' = cut /\ job' = job
        BY <1>24 DEF Purge, input
    <2>2. /\ received' = received /\ purged' = purged \cup {entries[id].body}
          /\ DOMAIN entries' = DOMAIN entries \ {id}
          /\ \A i \in DOMAIN entries' : entries'[i] = entries[i]
        BY <1>24, <1>0, WithoutTable DEF Purge, remote
    <2>3. \A b \in 0 .. Batches : Covered(b) => Covered(b)'
        BY <1>0, <2>2 DEF Covered
    <2> QED
        BY <1>0, <2>1, <2>3 DEF CoverInv, Passed
<1>25. CASE ChangePolicy
    BY <1>25, <1>0 DEF ChangePolicy, CoverInv, Covered, Passed, db, input,
       remote
<1>26. CASE Crash
    BY <1>26, <1>0 DEF Crash, CoverInv, Covered, Passed, db, input, remote
<1>27. CASE UNCHANGED vars
    BY <1>27, <1>0 DEF vars, CoverInv, Covered, Passed, db, input, remote
<1> QED
    BY <1>1, <1>2, <1>3, <1>4, <1>5, <1>6, <1>7, <1>8, <1>9, <1>10, <1>11,
       <1>12, <1>13, <1>14, <1>15, <1>16, <1>17, <1>18, <1>19, <1>20, <1>21,
       <1>22, <1>23, <1>24, <1>25, <1>26, <1>27 DEF Next, SenderStep,
       CommandStep

-----------------------------------------------------------------------------
(* The totals.                                                             *)

StoredPending(table) == {i \in DOMAIN table : table[i].state \in {"pending", "blocked"}}
StoredDlq(table) == {i \in DOMAIN table : table[i].state = "dlq"}

\* The totals are cardinalities of finite sets of ids.
LEMMA TotalsFinite ==
    ASSUME DOMAIN entries \subseteq Ids
    PROVE  /\ IsFiniteSet(StoredPending(entries)) /\ IsFiniteSet(StoredDlq(entries))
           /\ PendingTotal = Cardinality(StoredPending(entries))
           /\ DlqTotal = Cardinality(StoredDlq(entries))
           /\ PendingTotal \in Nat /\ DlqTotal \in Nat
<1>1. IsFiniteSet(Ids)
    BY OutboxAssumption, FS_Interval DEF Ids
<1>2. StoredPending(entries) \subseteq Ids /\ StoredDlq(entries) \subseteq Ids
    BY DEF StoredPending, StoredDlq
<1>3. IsFiniteSet(StoredPending(entries)) /\ IsFiniteSet(StoredDlq(entries))
    BY <1>1, <1>2, FS_Subset
<1>4. /\ InState({"pending", "blocked"}) = StoredPending(entries)
      /\ InState({"dlq"}) = StoredDlq(entries)
    BY DEF InState, StoredPending, StoredDlq
<1>5. /\ PendingTotal = Cardinality(StoredPending(entries))
      /\ DlqTotal = Cardinality(StoredDlq(entries))
    BY <1>4 DEF PendingTotal, DlqTotal
<1> QED
    BY <1>3, <1>5, FS_CardinalityType

\* A set that lost elements fits where the larger one did, and one that got a
\* single element fits where there was room.
LEMMA Fits ==
    ASSUME NEW S, NEW U, NEW x, NEW cap \in Nat, IsFiniteSet(S),
           Cardinality(S) <= cap,
           U \subseteq S \/ (U \subseteq S \cup {x} /\ Cardinality(S) < cap)
    PROVE  IsFiniteSet(U) /\ Cardinality(U) <= cap
<1>1. Cardinality(S) \in Nat
    BY FS_CardinalityType
<1>2. CASE U \subseteq S
    BY <1>1, <1>2, FS_Subset, FS_CardinalityType
<1>3. CASE U \subseteq S \cup {x} /\ Cardinality(S) < cap
    <2>1. /\ IsFiniteSet(S \cup {x})
          /\ Cardinality(S \cup {x}) <= Cardinality(S) + 1
          /\ Cardinality(S \cup {x}) \in Nat
        <3>1. /\ IsFiniteSet(S \cup {x})
              /\ Cardinality(S \cup {x}) =
                    IF x \in S THEN Cardinality(S) ELSE Cardinality(S) + 1
            BY FS_AddElement
        <3>2. IsFiniteSet(S \cup {x}) /\ Cardinality(S \cup {x}) \in Nat
            BY <3>1, FS_CardinalityType
        <3>3. Cardinality(S \cup {x}) <= Cardinality(S) + 1
            BY <1>1, <3>1
        <3> QED
            BY <3>2, <3>3
    <2>2. /\ IsFiniteSet(U) /\ Cardinality(U) <= Cardinality(S \cup {x})
          /\ Cardinality(U) \in Nat
        BY <1>3, <2>1, FS_Subset, FS_CardinalityType
    <2> QED
        BY <1>1, <1>3, <2>1, <2>2
<1> QED
    BY <1>2, <1>3

\* The totals stay within the limits when at most one entry moves into each
\* part of the table, and then only where capacity() found room.
LEMMA BoundsKept ==
    ASSUME WithinBounds, DOMAIN entries \subseteq Ids, NEW x,
           \/ StoredPending(entries') \subseteq StoredPending(entries)
           \/ /\ StoredPending(entries') \subseteq StoredPending(entries) \cup {x}
              /\ PendingRoom,
           \/ StoredDlq(entries') \subseteq StoredDlq(entries)
           \/ StoredDlq(entries') \subseteq StoredDlq(entries) \cup {x} /\ DlqRoom
    PROVE  WithinBounds'
<1>1. PendingCap \in Nat /\ DlqCap \in Nat
    BY OutboxAssumption
<1>2. Cardinality(StoredPending(entries')) <= PendingCap
    BY <1>1, TotalsFinite, Fits DEF WithinBounds, PendingRoom
<1>3. Cardinality(StoredDlq(entries')) <= DlqCap
    BY <1>1, TotalsFinite, Fits DEF WithinBounds, DlqRoom
<1>4. /\ InState({"pending", "blocked"})' = StoredPending(entries')
      /\ InState({"dlq"})' = StoredDlq(entries')
    BY DEF InState, StoredPending, StoredDlq
<1> QED
    BY <1>2, <1>3, <1>4 DEF WithinBounds, PendingTotal, DlqTotal

\* Giving an entry up moves it into the DLQ if there is room, and otherwise
\* keeps it among the entries that count against the pending limits.
LEMMA DeadBounds ==
    ASSUME WithinBounds, DOMAIN entries \subseteq Ids,
           entries \in [DOMAIN entries -> EntryRecord],
           NEW id \in DOMAIN entries, entries[id].state \in {"pending", "blocked"},
           entries' = Dead(id)
    PROVE  WithinBounds'
<1>1. DOMAIN Dead(id) = DOMAIN entries
    BY DeadTable
<1>2. StoredPending(entries') \subseteq StoredPending(entries)
    BY <1>1, DeadTable DEF StoredPending
<1>3. CASE DlqRoom
    <2>1. StoredDlq(entries') \subseteq StoredDlq(entries) \cup {id}
        BY <1>1, DeadTable DEF StoredDlq
    <2> QED
        BY <1>2, <1>3, <2>1, BoundsKept
<1>4. CASE ~DlqRoom
    <2>1. DeadState = "blocked"
        BY <1>4 DEF DeadState
    <2>2. StoredDlq(entries') \subseteq StoredDlq(entries)
        BY <1>1, <2>1, DeadTable DEF StoredDlq
    <2> QED
        BY <1>2, <2>2, BoundsKept
<1> QED
    BY <1>3, <1>4

\* Every step keeps the limits: enqueue reserves room for the pending rows and for
\* the dead letters they may become.
LEMMA BoundsStep == SenderInv /\ WithinBounds /\ [Next]_vars => WithinBounds'
<1> SUFFICES ASSUME SenderInv, WithinBounds, [Next]_vars
             PROVE  WithinBounds'
    OBVIOUS
<1>0. /\ entries \in [DOMAIN entries -> EntryRecord] /\ DOMAIN entries \subseteq Ids
      /\ PendingCap \in Nat /\ DlqCap \in Nat /\ WithinBounds
    BY OutboxAssumption DEF SenderInv, TypeOK
<1>1. CASE Enqueue
    <2>1. PendingRoom
        BY <1>1 DEF Enqueue
    <2>2. /\ DOMAIN entries' = DOMAIN entries \cup {nextId}
          /\ entries'[nextId].state = "pending"
          /\ \A i \in DOMAIN entries : i # nextId => entries'[i] = entries[i]
        BY <1>1 DEF Enqueue
    <2>3. /\ StoredPending(entries') \subseteq StoredPending(entries) \cup {nextId}
          /\ StoredDlq(entries') \subseteq StoredDlq(entries)
        BY <2>2 DEF StoredPending, StoredDlq
    <2> QED
        BY <1>0, <2>1, <2>3, BoundsKept
<1>2. CASE Ack
    BY <1>2, <1>0 DEF Ack, WithinBounds, PendingTotal, DlqTotal, InState, db
<1>3. CASE EnqueueFails
    BY <1>3, <1>0 DEF EnqueueFails, WithinBounds, PendingTotal, DlqTotal,
       InState, db
<1>4. CASE Checkpoint
    BY <1>4, <1>0 DEF Checkpoint, WithinBounds, PendingTotal, DlqTotal,
       InState, db
<1>5. CASE StopJob
    BY <1>5, <1>0 DEF StopJob, WithinBounds, PendingTotal, DlqTotal,
       InState, db
<1>6. ASSUME NEW t \in Tasks, NEW id \in DOMAIN entries, Reserve(t, id)
      PROVE  WithinBounds'
    <2>1. entries' = [entries EXCEPT ![id].attempts = @ + 1]
        BY <1>6 DEF Reserve, Reserved
    <2>2. /\ DOMAIN entries' = DOMAIN entries
          /\ \A i \in DOMAIN entries : entries'[i].state = entries[i].state
        BY <1>0, <2>1 DEF EntryRecord
    <2>3. /\ StoredPending(entries') \subseteq StoredPending(entries)
          /\ StoredDlq(entries') \subseteq StoredDlq(entries)
        BY <2>2 DEF StoredPending, StoredDlq
    <2> QED
        BY <1>0, <2>3, BoundsKept
<1>7. ASSUME NEW t \in Tasks, NEW id \in DOMAIN entries, NEW late \in BOOLEAN,
             NextDead(t, id, late)
      PROVE  WithinBounds'
    <2>1. entries' = Dead(id) /\ entries[id].state \in {"pending", "blocked"}
        BY <1>7 DEF NextDead, IsHead, Waiting, InState
    <2> QED
        BY <1>0, <2>1, DeadBounds
<1>8. ASSUME NEW t \in Tasks, NextFails(t)
      PROVE  WithinBounds'
    BY <1>8, <1>0 DEF NextFails, Fail, WithinBounds, PendingTotal, DlqTotal,
       InState, db
<1>9. ASSUME NEW t \in Tasks, Post(t)
      PROVE  WithinBounds'
    BY <1>9, <1>0 DEF Post, WithinBounds, PendingTotal, DlqTotal, InState,
       db
<1>10. ASSUME NEW t \in Tasks, RemoteAccepts(t)
      PROVE  WithinBounds'
    BY <1>10, <1>0 DEF RemoteAccepts, WithinBounds, PendingTotal, DlqTotal,
       InState, db
<1>11. ASSUME NEW t \in Tasks, NEW o \in Outcomes, Answer(t, o)
      PROVE  WithinBounds'
    BY <1>11, <1>0 DEF Answer, WithinBounds, PendingTotal, DlqTotal,
       InState, db
<1>12. ASSUME NEW t \in Tasks, NEW late \in BOOLEAN, Settle(t, late)
      PROVE  WithinBounds'
    <2> DEFINE id == task[t].id
    <2>1. id \in DOMAIN entries /\ entries[id].state = "pending"
        BY <1>12 DEF Settle, Stale
    <2>2. CASE entries' = entries
        BY <1>0, <2>2 DEF WithinBounds, PendingTotal, DlqTotal, InState
    <2>3. CASE entries' = Dead(id)
        BY <1>0, <2>1, <2>3, DeadBounds
    <2>4. CASE entries' = Restrict(entries, DOMAIN entries \ {id})
        <3>1. /\ StoredPending(entries') \subseteq StoredPending(entries)
              /\ StoredDlq(entries') \subseteq StoredDlq(entries)
            BY <1>0, <2>4, WithoutTable DEF StoredPending, StoredDlq
        <3> QED
            BY <1>0, <3>1, BoundsKept
    <2> QED
        BY <1>12, <2>2, <2>3, <2>4, SettleTable
<1>13. ASSUME NEW t \in Tasks, SettleFails(t)
      PROVE  WithinBounds'
    BY <1>13, <1>0 DEF SettleFails, Fail, WithinBounds, PendingTotal,
       DlqTotal, InState, db
<1>14. ASSUME NEW t \in Tasks, Cancelled(t)
      PROVE  WithinBounds'
    BY <1>14, <1>0 DEF Cancelled, Exit, WithinBounds, PendingTotal,
       DlqTotal, InState, db
<1>15. ASSUME NEW t \in Tasks, AuditFailure(t)
      PROVE  WithinBounds'
    BY <1>15, <1>0 DEF AuditFailure, WithinBounds, PendingTotal, DlqTotal,
       InState, db
<1>16. ASSUME NEW op \in Commands, Begin(op)
      PROVE  WithinBounds'
    BY <1>16, <1>0 DEF Begin, WithinBounds, PendingTotal, DlqTotal, InState,
       db
<1>17. CASE WritePause
    BY <1>17, <1>0 DEF WritePause, WithinBounds, PendingTotal, DlqTotal,
       InState, db
<1>18. CASE Reap
    BY <1>18, <1>0 DEF Reap, WithinBounds, PendingTotal, DlqTotal, InState,
       db
<1>19. CASE Await
    BY <1>19, <1>0 DEF Await, WithinBounds, PendingTotal, DlqTotal, InState,
       db
<1>20. CASE Ensure
    BY <1>20, <1>0 DEF Ensure, WithinBounds, PendingTotal, DlqTotal,
       InState, db
<1>21. CASE EnsureFails
    BY <1>21, <1>0 DEF EnsureFails, WithinBounds, PendingTotal, DlqTotal,
       InState, db
<1>22. CASE WriteResume
    BY <1>22, <1>0 DEF WriteResume, WithinBounds, PendingTotal, DlqTotal,
       InState, db
<1>23. ASSUME NEW id \in DOMAIN entries, Replay(id)
      PROVE  WithinBounds'
    <2>1. entries' = [entries EXCEPT ![id].state = "pending", ![id].attempts = 0,
                                     ![id].gen = @ + 1]
        BY <1>23 DEF Replay
    <2>2. PendingRoom
        BY <1>23 DEF Replay, Replayable
    <2>3. /\ DOMAIN entries' = DOMAIN entries /\ entries'[id].state = "pending"
          /\ \A i \in DOMAIN entries : i # id => entries'[i] = entries[i]
        BY <1>0, <2>1 DEF EntryRecord
    <2>4. /\ StoredPending(entries') \subseteq StoredPending(entries) \cup {id}
          /\ StoredDlq(entries') \subseteq StoredDlq(entries)
        BY <2>3 DEF StoredPending, StoredDlq
    <2> QED
        BY <1>0, <2>2, <2>4, BoundsKept
<1>24. ASSUME NEW id \in DOMAIN entries, Purge(id)
      PROVE  WithinBounds'
    <2>1. entries' = Restrict(entries, DOMAIN entries \ {id})
        BY <1>24 DEF Purge
    <2>2. /\ StoredPending(entries') \subseteq StoredPending(entries)
          /\ StoredDlq(entries') \subseteq StoredDlq(entries)
        BY <1>0, <2>1, WithoutTable DEF StoredPending, StoredDlq
    <2> QED
        BY <1>0, <2>2, BoundsKept
<1>25. CASE ChangePolicy
    BY <1>25, <1>0 DEF ChangePolicy, WithinBounds, PendingTotal, DlqTotal,
       InState, db
<1>26. CASE Crash
    BY <1>26, <1>0 DEF Crash, WithinBounds, PendingTotal, DlqTotal, InState,
       db
<1>27. CASE UNCHANGED vars
    BY <1>27, <1>0 DEF vars, WithinBounds, PendingTotal, DlqTotal, InState,
       db
<1> QED
    BY <1>1, <1>2, <1>3, <1>4, <1>5, <1>6, <1>7, <1>8, <1>9, <1>10, <1>11,
       <1>12, <1>13, <1>14, <1>15, <1>16, <1>17, <1>18, <1>19, <1>20, <1>21,
       <1>22, <1>23, <1>24, <1>25, <1>26, <1>27 DEF Next, SenderStep,
       CommandStep

-----------------------------------------------------------------------------
(* The theorems.                                                           *)

OutboxInv == SenderInv /\ TableInv /\ CoverInv /\ WithinBounds

\* The initial state satisfies the invariant.
LEMMA OutboxInit == Init => OutboxInv
<1> SUFFICES ASSUME Init
             PROVE  OutboxInv
    OBVIOUS
<1>1. DOMAIN entries = {}
    BY DEF Init
<1>2. \A t \in Tasks : task[t].pc = "none"
    BY DEF Init, NoTask
<1>3. EntriesTyped
    BY <1>1, OutboxAssumption DEF Init, EntriesTyped
<1>4. TasksTyped
    BY OutboxAssumption DEF Init, TasksTyped, TaskRecord, NoTask, Outcomes
<1>5. RestTyped
    <2>1. paused \in BOOLEAN /\ worker \in BOOLEAN
        BY DEF Init
    <2>2. ctl \in CommandRecord
        BY OutboxAssumption DEF Init, CommandRecord, NoCommand
    <2>3. job \in [pc : {"stopped", "running", "committed"}, pos : 0 .. Batches]
        BY OutboxAssumption DEF Init
    <2>4. posts \in [Ids -> Nat]
        BY DEF Init
    <2> QED
        BY <2>1, <2>2, <2>3, <2>4, OutboxAssumption DEF Init, RestTyped
<1>6. TypeOK
    BY <1>3, <1>4, <1>5 DEF TypeOK, EntriesTyped, TasksTyped, RestTyped
<1>7. ctl.pc = "idle" /\ ctl.op = "none" /\ job.pc = "stopped" /\ job.pos = 0 /\ cut = 0
    BY DEF Init, NoCommand
<1>8. Committing /\ OneSender /\ Replaced /\ Quiet
    BY <1>2, <1>7 DEF Committing, OneSender, Replaced, Quiet, Live, InFlight
<1>9. Binding
    BY <1>2, <1>7 DEF Init, Binding, Active
<1>10. TableInv
    BY <1>1, <1>2 DEF Init, TableInv, Fresh, Counted, Holds, Truthful, InFlight
<1>11. CoverInv
    BY <1>7 DEF CoverInv, Passed
<1>12. WithinBounds
    <2>1. InState({"pending", "blocked"}) = {} /\ InState({"dlq"}) = {}
        BY <1>1 DEF InState
    <2>2. PendingTotal = 0 /\ DlqTotal = 0
        BY <2>1, FS_EmptySet DEF PendingTotal, DlqTotal
    <2> QED
        BY <2>2, OutboxAssumption DEF WithinBounds
<1> QED
    BY <1>6, <1>8, <1>9, <1>10, <1>11, <1>12 DEF OutboxInv, SenderInv

\* The part about the senders is inductive, given the table.
LEMMA SenderStepInv == SenderInv /\ TableInv /\ [Next]_vars => SenderInv'
<1> SUFFICES ASSUME SenderInv, TableInv, [Next]_vars
             PROVE  SenderInv'
    OBVIOUS
<1>1. EntriesTyped' /\ TasksTyped' /\ RestTyped'
    BY EntriesTypedStep, TasksTypedStep, RestTypedStep
<1>2. TypeOK'
    BY <1>1 DEF TypeOK, EntriesTyped, TasksTyped, RestTyped
<1> QED
    BY <1>2, CommittingStep, OneSenderStep, ReplacedStep, QuietStep, BindingStep
    DEF SenderInv

\* The part about the table is inductive, given the senders.
LEMMA TableStepInv == SenderInv /\ TableInv /\ [Next]_vars => TableInv'
<1> SUFFICES ASSUME SenderInv, TableInv, [Next]_vars
             PROVE  TableInv'
    OBVIOUS
<1>1. Fresh' /\ Counted'
    BY FreshStep, CountedStep
<1>2. (\A u \in Tasks : Holds(u))'
    BY HoldsStep
<1>3. (\A u \in Tasks : Truthful(u))'
    BY TruthfulStep
<1> QED
    BY <1>1, <1>2, <1>3 DEF TableInv

\* The invariant is inductive.
LEMMA OutboxStep == OutboxInv /\ [Next]_vars => OutboxInv'
BY SenderStepInv, TableStepInv, CoverStep, BoundsStep DEF OutboxInv

\* The conjunction of what the commands, the sender and the table rely on is an
\* inductive invariant of the outbox.
THEOREM OutboxInvariant == Spec => []OutboxInv
BY OutboxInit, OutboxStep, PTL DEF Spec

\* Every variable of the outbox keeps its type: ids, attempts, generations and
\* policy versions never leave their bounds.
THEOREM TypeCorrect == Spec => []TypeOK
<1>1. OutboxInv => TypeOK
    BY DEF OutboxInv, SenderInv
<1> QED
    BY <1>1, OutboxInvariant, PTL

\* What a sender holds is the attempt reserved in the table, and no other task
\* holds anything: settle() never meets a stale completion.
THEOREM NoStaleCompletion == Spec => []InFlightReserved
<1>1. OutboxInv => InFlightReserved
    <2> SUFFICES ASSUME SenderInv, TableInv, NEW t \in Tasks, InFlight(t)
                 PROVE  ~Stale(t) /\ \A u \in Tasks : InFlight(u) => u = t
        BY DEF OutboxInv, InFlightReserved
    <2>1. ~Stale(t)
        BY DEF TableInv, Holds
    <2>2. \A u \in Tasks : InFlight(u) => u = t
        BY Alone DEF InFlight, Live
    <2> QED
        BY <2>1, <2>2
<1> QED
    BY <1>1, OutboxInvariant, PTL

\* When a pause command has returned, nothing is in flight.
THEOREM PausedIsQuiet == Spec => []PauseQuiesces
<1>1. OutboxInv => PauseQuiesces
    BY DEF OutboxInv, SenderInv, Quiet, PauseQuiesces
<1> QED
    BY <1>1, OutboxInvariant, PTL

\* No request goes out under a binding older than the one the last completed
\* resume read.
THEOREM BindingIsFresh == Spec => []BoundByResume
<1>1. OutboxInv => BoundByResume
    <2> SUFFICES ASSUME SenderInv, NEW t \in Tasks, InFlight(t)
                 PROVE  task[t].bound >= resumedAt
        BY DEF OutboxInv, BoundByResume
    <2>1. resumedAt <= task[t].bound
        BY DEF SenderInv, Binding, Active, InFlight
    <2>2. resumedAt \in Nat /\ task[t].bound \in Nat
        BY OutboxAssumption DEF SenderInv, TypeOK, TaskRecord
    <2> QED
        BY <2>1, <2>2
<1> QED
    BY <1>1, OutboxInvariant, PTL

\* Every batch before the published cut has reached the receiver, is stored, or
\* was discarded by an operator, whatever fails or crashes.
THEOREM NothingLostBehindTheCut == Spec => []CutCovered
<1>1. OutboxInv => CutCovered
    BY DEF OutboxInv, CoverInv, Passed, Covered, CutCovered
<1> QED
    BY <1>1, OutboxInvariant, PTL

\* Neither the attempts of a generation nor the stored totals ever exceed their
\* limits, so that check_bounds accepts the outbox after any restart.
THEOREM LimitsAreKept == Spec => []LimitsHold
<1>1. OutboxInv => LimitsHold
    <2> SUFFICES ASSUME SenderInv, TableInv, WithinBounds, NEW i \in DOMAIN entries
                 PROVE  posts[i] <= MaxAttempts
        BY DEF OutboxInv, LimitsHold, AttemptsBounded
    <2>1. posts[i] <= entries[i].attempts
        BY DEF TableInv, Counted
    <2>2. /\ entries[i].attempts \in 0 .. MaxAttempts /\ posts[i] \in Nat
          /\ MaxAttempts \in Nat
        BY OutboxAssumption DEF SenderInv, TypeOK, EntryRecord
    <2> QED
        BY <2>1, <2>2
<1> QED
    BY <1>1, OutboxInvariant, PTL

=============================================================================
