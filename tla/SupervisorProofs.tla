-------------------------- MODULE SupervisorProofs --------------------------
(***************************************************************************)
(* Theorems about Supervisor, for any set of pipelines and any number of   *)
(* revisions, requests, kills, crashes and failing catalog calls.          *)
(***************************************************************************)
EXTENDS Supervisor, TLAPS

-----------------------------------------------------------------------------
(* Who owns the tasks of a pipeline.                                       *)

\* The operation has taken the job of p out of the map and not yet joined it.
Joining(p) ==
    \/ op.pc \in {"join_stop", "join_old", "kill_join"} /\ op.at = p
    \/ op.pc = "all" /\ p \in op.todo
    \/ op.pc = "all_write" /\ p \in op.todo \ {op.at}

\* A job in the map has tasks until they end; a job that was taken out has
\* tasks only while the operation that took it out joins it.
Owned(p) ==
    /\ jobs[p] # 0 /\ ended[p] = "no" => live[p] = 1
    /\ jobs[p] # 0 /\ ended[p] # "no" => live[p] = 0
    /\ jobs[p] = 0 => ended[p] = "no" /\ live[p] <= 1
    /\ Joining(p) => jobs[p] = 0
    /\ jobs[p] = 0 /\ ~Joining(p) => live[p] = 0

StartPath == {"validate", "join_old", "write_starting", "start",
              "write_running", "start_failed"}
EachPath == StartPath \cup {"each", "join_stop", "write_stop"}
KillPath == {"kill_join", "kill_write"}
AllPath == {"all", "all_write"}

\* Revisions that are wanted or under way are not NULL, and a start or a stop
\* follows the row that converge_inner listed.
RevisionsNamed ==
    /\ \A p \in Pipelines : desired[p].status = "running" => desired[p].rev # 0
    /\ op.pc \in EachPath =>
          \A p \in Pipelines : op.snap[p].status = "running" => op.snap[p].rev # 0
    /\ op.pc \in StartPath =>
          op.snap[op.at].status = "running" /\ op.rev = op.snap[op.at].rev
    /\ op.pc \in {"join_stop", "write_stop"} => op.snap[op.at].status = "stopped"

\* What an operation relies on while it holds the mutex.
OperationInv ==
    /\ op.pc = "reap" =>
          \A p \in op.todo : jobs[p] # 0 /\ ended[p] # "no"
    /\ op.pc \in {"write_starting", "start"} => jobs[op.at] = 0
    /\ op.pc = "write_running" => jobs[op.at] = op.rev
    /\ op.pc = "start_failed" => op.err # "none"
    /\ op.pc \in AllPath \/ drained => shutdown /\ \A p \in Pipelines : jobs[p] = 0
    /\ drained => op.pc = "idle"

OwnerInv ==
    /\ TypeOK
    /\ RevisionsNamed
    /\ OperationInv
    /\ \A p \in Pipelines : Owned(p)

-----------------------------------------------------------------------------
(* What holds a pipeline back.                                             *)

Wants(p, r) == desired[p].status = "running" /\ desired[p].rev = r

\* stop_all or a crash has emptied the map: nothing starts before the next
\* boot, which latches.
Emptied == op.pc \in AllPath \cup {"exited"} \/ drained

\* The catalog knows the failures of a pipeline.
Recorded(p) ==
    /\ actual[p].fails = streak[p]
    /\ failed[p] => actual[p].blocked
    /\ actual[p].status \in {"starting", "running", "waiting"} =>
          actual[p].fails < MaxAttempts

\* A start under way passed the hold check, and requests only lift holds.
Admitted ==
    op.pc \in StartPath =>
       /\ op.pc # "start_failed" \/ op.err = "waiting" =>
             streak[op.at] < MaxAttempts
       /\ op.pc \notin {"write_running", "start_failed"} /\ safe =>
             ~actual[op.at].blocked
       /\ op.pc # "write_running" /\ op.rev \in Fixed /\ lost = 0
                /\ desired[op.at] = op.snap[op.at] =>
             op.rev \notin used[op.at]

\* A fixed revision r of p that is wanted and has been started is in the map,
\* is latched, or has completed; a convergence that is under way wants it too.
LatchedAt(p, r) ==
    /\ op.pc \in EachPath => op.snap[p] = desired[p]
    /\ op.pc \in KillPath => op.at # p
    /\ jobs[p] \in {0, r}
    /\ \/ jobs[p] = r \/ actual[p].blocked \/ Emptied
       \/ actual[p].status = "completed" /\ actual[p].rev = r

Latched(p) ==
    \A r \in Fixed :
       Wants(p, r) /\ r \in used[p] /\ lost = 0 => LatchedAt(p, r)

HoldInv ==
    /\ Admitted
    /\ \A p \in Pipelines : Recorded(p) /\ Latched(p)

\* The operation that holds no mutex is of the type of operations.
LEMMA IdleTyped == Idle \in Operation
<1>1. AnyPipeline \in Pipelines
    BY ConstantsAssumption DEF AnyPipeline
<1>2. 0 \in Revision
    BY ConstantsAssumption DEF Revision
<1> QED
    BY <1>1, <1>2 DEF Idle, Operation, Stopped, DesiredRow

\* The record of the operation under way (the lock of Supervisor::operation and
\* the locals of the function that holds it) keeps its type.
LEMMA OperationTyped == TypeOK /\ [Next]_vars => (op \in Operation)'
<1> SUFFICES ASSUME TypeOK, [Next]_vars
             PROVE  (op \in Operation)'
    OBVIOUS
<1>0. op \in Operation /\ desired \in [Pipelines -> DesiredRow]
    BY DEF TypeOK
<1>1. CASE ConvergeBegin
    BY <1>1, <1>0, IdleTyped DEF ConvergeBegin, Finished, Operation
<1>2. CASE Reaped
    BY <1>2, <1>0, IdleTyped DEF Reaped, Operation
<1>3. CASE ListDesired
    BY <1>3, <1>0, IdleTyped DEF ListDesired, Operation
<1>4. CASE ConvergeEnd
    BY <1>4, <1>0, IdleTyped DEF ConvergeEnd, Operation
<1>5. CASE JoinStopped
    BY <1>5, <1>0, IdleTyped DEF JoinStopped, Operation
<1>6. CASE WriteStopped
    BY <1>6, <1>0, IdleTyped DEF WriteStopped, Visited, Operation
<1>7. CASE JoinOld
    BY <1>7, <1>0, IdleTyped DEF JoinOld, Operation
<1>8. CASE WriteStarting
    BY <1>8, <1>0, IdleTyped DEF WriteStarting, Fail, Operation
<1>9. CASE WriteRunning
    <2>1. CASE Written
        <3>1. op' = Visited(op.at)
            BY <1>9, <2>1 DEF WriteRunning
        <3> QED
            BY <1>0, <3>1 DEF Visited, Operation
    <2>2. CASE ~Written
        BY <1>9, <2>2, <1>0 DEF WriteRunning, Written, Fail, Operation
    <2> QED
        BY <2>1, <2>2
<1>10. CASE RecordStartFailure
    BY <1>10, <1>0, IdleTyped DEF RecordStartFailure, Visited, Operation
<1>11. CASE KillJoin
    BY <1>11, <1>0, IdleTyped DEF KillJoin, Operation
<1>12. CASE KillWrite
    BY <1>12, <1>0, IdleTyped DEF KillWrite, Operation
<1>13. CASE StopAllBegin
    BY <1>13, <1>0, IdleTyped DEF StopAllBegin, Operation
<1>14. CASE StopAllWrite
    BY <1>14, <1>0, IdleTyped DEF StopAllWrite, Operation
<1>15. CASE StopAllEnd
    BY <1>15, <1>0, IdleTyped DEF StopAllEnd, Operation
<1>16. ASSUME NEW p \in Pipelines, Reap(p)
      PROVE  (op \in Operation)'
    BY <1>16, <1>0, IdleTyped DEF Reap, Operation
<1>17. ASSUME NEW p \in Pipelines, VisitRunning(p)
      PROVE  (op \in Operation)'
    BY <1>17, <1>0, IdleTyped DEF VisitRunning, Visited, DesiredRow,
       Operation
<1>18. ASSUME NEW p \in Pipelines, VisitStopped(p)
      PROVE  (op \in Operation)'
    BY <1>18, <1>0, IdleTyped DEF VisitStopped, Operation
<1>19. ASSUME NEW p \in Pipelines, StopAllJoin(p)
      PROVE  (op \in Operation)'
    BY <1>19, <1>0, IdleTyped DEF StopAllJoin, Operation
<1>20. CASE StartInvalid
    BY <1>20, <1>0, IdleTyped DEF StartInvalid, Fail, Operation
<1>21. CASE StartReplaces
    BY <1>21, <1>0, IdleTyped DEF StartReplaces, AfterValidate, Operation
<1>22. CASE StartJob
    BY <1>22, <1>0, IdleTyped DEF StartJob, Operation
<1>23. ASSUME NEW how \in {"waiting", "failed"}, StartRefused(how)
      PROVE  (op \in Operation)'
    BY <1>23, <1>0, IdleTyped DEF StartRefused, Fail, Operation
<1>24. CASE BeginShutdown
    BY <1>24, <1>0, IdleTyped DEF BeginShutdown, Operation
<1>25. ASSUME NEW p \in Pipelines, NEW r \in 1..MaxRevision,
             RequestStart(p, r)
      PROVE  (op \in Operation)'
    BY <1>25, <1>0, IdleTyped DEF RequestStart, process, Operation
<1>26. ASSUME NEW p \in Pipelines, NEW activate \in BOOLEAN,
             PutPipeline(p, activate)
      PROVE  (op \in Operation)'
    BY <1>26, <1>0, IdleTyped DEF PutPipeline, process, Operation
<1>27. ASSUME NEW p \in Pipelines, RequestStop(p)
      PROVE  (op \in Operation)'
    BY <1>27, <1>0, IdleTyped DEF RequestStop, process, Operation
<1>28. ASSUME NEW p \in Pipelines, KillRequest(p)
      PROVE  (op \in Operation)'
    BY <1>28, <1>0, IdleTyped DEF KillRequest, Operation
<1>29. CASE CallerLeaves
    BY <1>29, <1>0, IdleTyped DEF CallerLeaves, AfterCallerLeft, Operation
<1>30. CASE Exit
    BY <1>30, <1>0, IdleTyped DEF Exit, Operation
<1>31. CASE Boot
    BY <1>31, <1>0, IdleTyped DEF Boot, Operation
<1>32. ASSUME NEW p \in Pipelines, KillBegin(p)
      PROVE  (op \in Operation)'
    BY <1>32, <1>0, IdleTyped DEF KillBegin, Operation
<1>33. ASSUME NEW p \in Pipelines, MarkStable(p)
      PROVE  (op \in Operation)'
    BY <1>33, <1>0, IdleTyped DEF MarkStable, Operation
<1>34. ASSUME NEW p \in Pipelines, CatalogError(p)
      PROVE  (op \in Operation)'
    BY <1>34, <1>0, IdleTyped DEF CatalogError, Operation
<1>35. ASSUME NEW p \in Pipelines, RetryElapses(p)
      PROVE  (op \in Operation)'
    BY <1>35, <1>0, IdleTyped DEF RetryElapses, Operation
<1>36. ASSUME NEW p \in Pipelines, NEW how \in {"ok", "error"},
             JobEnds(p, how)
      PROVE  (op \in Operation)'
    BY <1>36, <1>0, IdleTyped DEF JobEnds, Operation
<1>37. CASE UNCHANGED vars
    BY <1>37, <1>0, IdleTyped DEF vars, Operation
<1> QED
    BY <1>1, <1>2, <1>3, <1>4, <1>5, <1>6, <1>7, <1>8, <1>9, <1>10, <1>11,
       <1>12, <1>13, <1>14, <1>15, <1>16, <1>17, <1>18, <1>19, <1>20,
       <1>21, <1>22, <1>23, <1>24, <1>25, <1>26, <1>27, <1>28, <1>29,
       <1>30, <1>31, <1>32, <1>33, <1>34, <1>35, <1>36, <1>37 DEF Next,
       OperationStep, Starting, Request

\* What set_actual_inner and start_revision write is a row.
LEMMA SetActualTyped ==
    ASSUME NEW row \in ActualRow, NEW status \in Status, NEW rev \in Revision
    PROVE  SetActual(row, status, rev) \in ActualRow
<1>1. FailsAfter(row, status) \in Nat
    BY DEF ActualRow, FailsAfter
<1>2. BlockedAfter(row, status) \in BOOLEAN
    BY DEF ActualRow, BlockedAfter
<1> QED
    BY <1>1, <1>2 DEF ActualRow, SetActual

\* The status row start_revision writes is a status row.
LEMMA StartRowTyped ==
    ASSUME NEW row \in ActualRow, NEW r \in Revision
    PROVE  StartRow(row, r) \in ActualRow
BY ConstantsAssumption DEF ActualRow, StartRow, Status, Revision

\* A catalog write of a row, which may get lost, leaves the rows typed.
LEMMA WriteTyped ==
    ASSUME TypeOK, NEW p \in Pipelines, NEW row \in ActualRow,
           WriteActual(p, row)
    PROVE  actual' \in [Pipelines -> ActualRow] /\ lost' \in Nat
BY DEF TypeOK, WriteActual

\* Every step keeps the types.
LEMMA TypeStep == OwnerInv /\ [Next]_vars => TypeOK'
<1> SUFFICES ASSUME OwnerInv, [Next]_vars
             PROVE  TypeOK'
    OBVIOUS
<1>0. /\ op' \in Operation /\ op \in Operation
      /\ actual \in [Pipelines -> ActualRow]
      /\ desired \in [Pipelines -> DesiredRow]
      /\ jobs \in [Pipelines -> Revision]
      /\ TypeOK /\ OperationInv /\ \A q \in Pipelines : Owned(q)
    BY OperationTyped DEF OwnerInv, TypeOK
<1>1. CASE ConvergeBegin
    BY <1>1, <1>0 DEF ConvergeBegin, OnlyOp, TypeOK, catalog, mode, running,
       history, counters
<1>2. CASE Reaped
    BY <1>2, <1>0 DEF Reaped, OnlyOp, TypeOK, catalog, mode, running,
       history, counters
<1>3. CASE ListDesired
    BY <1>3, <1>0 DEF ListDesired, OnlyOp, TypeOK, catalog, mode, running,
       history, counters
<1>4. CASE ConvergeEnd
    BY <1>4, <1>0 DEF ConvergeEnd, OnlyOp, TypeOK, catalog, mode, running,
       history, counters
<1>5. CASE JoinStopped
    <2>1. live' \in [Pipelines -> Nat]
        <3>1. op.at \in Pipelines /\ live \in [Pipelines -> Nat]
            BY <1>0 DEF TypeOK, Operation
        <3> QED
            BY <1>5, <3>1 DEF JoinStopped, Joined
    <2> QED
        BY <1>5, <1>0, <2>1 DEF JoinStopped, TypeOK, catalog, mode, running,
           history, counters
<1>6. CASE WriteStopped
    <2>1. op.at \in Pipelines /\ op.snap[op.at].rev \in Revision
        BY <1>0 DEF Operation, DesiredRow
    <2>2. SetActual(actual[op.at], "stopped", op.snap[op.at].rev) \in ActualRow
        BY <1>0, <2>1, SetActualTyped DEF Status
    <2>3. actual' \in [Pipelines -> ActualRow] /\ lost' \in Nat
        BY <1>6, <1>0, <2>1, <2>2, WriteTyped DEF WriteStopped
    <2> QED
        BY <1>6, <1>0, <2>3 DEF WriteStopped, TypeOK, mode, running, history
<1>7. CASE JoinOld
    <2>1. live' \in [Pipelines -> Nat]
        <3>1. op.at \in Pipelines /\ live \in [Pipelines -> Nat]
            BY <1>0 DEF TypeOK, Operation
        <3> QED
            BY <1>7, <3>1 DEF JoinOld, Joined
    <2> QED
        BY <1>7, <1>0, <2>1 DEF JoinOld, TypeOK, catalog, mode, running,
           history, counters
<1>8. CASE WriteStarting
    <2>1. op.at \in Pipelines /\ op.rev \in Revision
        BY <1>0 DEF Operation
    <2>2. SetActual(actual[op.at], "starting", op.rev) \in ActualRow
        BY <1>0, <2>1, SetActualTyped DEF Status
    <2>3. actual' \in [Pipelines -> ActualRow] /\ lost' \in Nat
        BY <1>8, <1>0, <2>1, <2>2, WriteTyped DEF WriteStarting
    <2> QED
        BY <1>8, <1>0, <2>3 DEF WriteStarting, TypeOK, mode, running, history
<1>9. CASE WriteRunning
    <2>1. op.at \in Pipelines /\ op.rev \in Revision
        BY <1>0 DEF Operation
    <2>2. SetActual(actual[op.at], "running", op.rev) \in ActualRow
        BY <1>0, <2>1, SetActualTyped DEF Status
    <2>3. actual' \in [Pipelines -> ActualRow] /\ lost' \in Nat
        BY <1>9, <1>0, <2>1, <2>2, WriteTyped DEF WriteRunning
    <2>4. /\ retry' \in [Pipelines -> {"none", "scheduled", "due"}]
          /\ failed' \in [Pipelines -> BOOLEAN]
        <3>1. CASE Written
            BY <1>9, <1>0, <2>1, <3>1 DEF WriteRunning, TypeOK
        <3>2. CASE ~Written
            BY <1>9, <1>0, <3>2 DEF WriteRunning, TypeOK
        <3> QED
            BY <3>1, <3>2
    <2> QED
        BY <1>9, <1>0, <2>3, <2>4 DEF WriteRunning, TypeOK, mode, running
<1>10. CASE RecordStartFailure
    <2>1. op.at \in Pipelines /\ op.rev \in Revision
        BY <1>0 DEF Operation
    <2>2. SetActual(actual[op.at], op.err, op.rev) \in ActualRow
        <3>1. op.err \in Status
            BY <1>10, <1>0 DEF RecordStartFailure, OperationInv, Operation, Status
        <3> QED
            BY <1>0, <2>1, <3>1, SetActualTyped
    <2>3. actual' \in [Pipelines -> ActualRow] /\ lost' \in Nat
        BY <1>10, <1>0, <2>1, <2>2, WriteTyped DEF RecordStartFailure
    <2>4. /\ failed' \in [Pipelines -> BOOLEAN]
          /\ streak' \in [Pipelines -> Nat]
        BY <1>10, <1>0, <2>1 DEF RecordStartFailure, TypeOK
    <2> QED
        BY <1>10, <1>0, <2>1, <2>3, <2>4 DEF RecordStartFailure, TypeOK, mode, running
<1>11. CASE KillJoin
    <2>1. live' \in [Pipelines -> Nat]
        <3>1. op.at \in Pipelines /\ live \in [Pipelines -> Nat]
            BY <1>0 DEF TypeOK, Operation
        <3> QED
            BY <1>11, <3>1 DEF KillJoin, Joined
    <2> QED
        BY <1>11, <1>0, <2>1 DEF KillJoin, TypeOK, catalog, mode, running,
           history, counters
<1>12. CASE KillWrite
    <2>1. op.at \in Pipelines /\ 0 \in Revision
        BY <1>0, ConstantsAssumption DEF Operation, Revision
    <2>2. SetActual(actual[op.at], "stopped", 0) \in ActualRow
        BY <1>0, <2>1, SetActualTyped DEF Status
    <2>3. actual' \in [Pipelines -> ActualRow] /\ lost' \in Nat
        BY <1>12, <1>0, <2>1, <2>2, WriteTyped DEF KillWrite
    <2> QED
        BY <1>12, <1>0, <2>3 DEF KillWrite, TypeOK, mode, running, history
<1>13. CASE StopAllBegin
    <2>1. 0 \in Revision
        BY ConstantsAssumption DEF Revision
    <2> QED
        BY <1>13, <1>0, <2>1 DEF StopAllBegin, TypeOK, catalog, mode,
           history, counters
<1>14. CASE StopAllWrite
    <2>1. op.at \in Pipelines /\ 0 \in Revision
        BY <1>0, ConstantsAssumption DEF Operation, Revision
    <2>2. SetActual(actual[op.at], "stopped", 0) \in ActualRow
        BY <1>0, <2>1, SetActualTyped DEF Status
    <2>3. actual' \in [Pipelines -> ActualRow] /\ lost' \in Nat
        BY <1>14, <1>0, <2>1, <2>2, WriteTyped DEF StopAllWrite
    <2> QED
        BY <1>14, <1>0, <2>3 DEF StopAllWrite, TypeOK, mode, running, history
<1>15. CASE StopAllEnd
    BY <1>15, <1>0 DEF StopAllEnd, TypeOK, catalog, running, history,
       counters
<1>16. ASSUME NEW p \in Pipelines, Reap(p)
      PROVE  TypeOK'
    <2>1. SetActual(actual[p], IF ended[p] = "ok" THEN "completed" ELSE "failed",
                    jobs[p]) \in ActualRow
        BY <1>16, <1>0, SetActualTyped DEF Status
    <2>2. actual' \in [Pipelines -> ActualRow] /\ lost' \in Nat
        BY <1>16, <1>0, <2>1, WriteTyped DEF Reap
    <2>3. /\ failed' \in [Pipelines -> BOOLEAN]
          /\ streak' \in [Pipelines -> Nat]
          /\ retry' \in [Pipelines -> {"none", "scheduled", "due"}]
        BY <1>16, <1>0 DEF Reap, TypeOK
    <2> QED
        BY <1>16, <1>0, <2>2, <2>3, ConstantsAssumption
        DEF Reap, RemoveJob, TypeOK, Revision, mode
<1>17. ASSUME NEW p \in Pipelines, VisitRunning(p)
      PROVE  TypeOK'
    <2>1. retry' \in [Pipelines -> {"none", "scheduled", "due"}]
        BY <1>17, <1>0 DEF VisitRunning, RetryEntry, TypeOK
    <2> QED
        BY <1>17, <1>0, <2>1 DEF VisitRunning, TypeOK, catalog, mode,
           running, history, counters
<1>18. ASSUME NEW p \in Pipelines, VisitStopped(p)
      PROVE  TypeOK'
    <2>1. 0 \in Revision
        BY ConstantsAssumption DEF Revision
    <2> QED
        BY <1>18, <1>0, <2>1 DEF VisitStopped, RemoveJob, TypeOK, catalog,
           mode, history, counters
<1>19. ASSUME NEW p \in Pipelines, StopAllJoin(p)
      PROVE  TypeOK'
    <2>1. live' \in [Pipelines -> Nat]
        <3>1. op.at \in Pipelines /\ live \in [Pipelines -> Nat]
            BY <1>0 DEF TypeOK, Operation
        <3> QED
            BY <1>19, <3>1 DEF StopAllJoin, Joined
    <2> QED
        BY <1>19, <1>0, <2>1 DEF StopAllJoin, TypeOK, catalog, mode,
           running, history, counters
<1>20. CASE StartInvalid
    BY <1>20, <1>0 DEF StartInvalid, OnlyOp, TypeOK, catalog, mode, running,
       history, counters
<1>21. CASE StartReplaces
    <2>1. 0 \in Revision
        BY ConstantsAssumption DEF Revision
    <2> QED
        BY <1>21, <1>0, <2>1 DEF StartReplaces, RemoveJob, TypeOK, catalog,
           mode, history, counters
<1>22. CASE StartJob
    <2>1. op.at \in Pipelines /\ op.rev \in Revision
        BY <1>0 DEF Operation
    <2> QED
        BY <1>22, <1>0, <2>1 DEF StartJob, TypeOK, catalog, mode, counters
<1>23. ASSUME NEW how \in {"waiting", "failed"}, StartRefused(how)
      PROVE  TypeOK'
    BY <1>23, <1>0 DEF StartRefused, OnlyOp, TypeOK, catalog, mode, running,
       history, counters
<1>24. CASE BeginShutdown
    BY <1>24, <1>0 DEF BeginShutdown, TypeOK, catalog, running, history,
       counters
<1>25. ASSUME NEW p \in Pipelines, NEW r \in 1..MaxRevision,
             RequestStart(p, r)
      PROVE  TypeOK'
    <2>1. r \in Revision
        BY ConstantsAssumption DEF Revision
    <2>2. StartRow(actual[p], r) \in ActualRow
        BY <1>0, <2>1, StartRowTyped
    <2>3. [status |-> "running", rev |-> r] \in DesiredRow
        BY <2>1 DEF DesiredRow
    <2> QED
        BY <1>25, <1>0, <2>2, <2>3 DEF RequestStart, Explicit, TypeOK,
           process, mode, running
<1>26. ASSUME NEW p \in Pipelines, NEW activate \in BOOLEAN,
             PutPipeline(p, activate)
      PROVE  TypeOK'
    <2>1. latest[p] + 1 \in Revision /\ latest' \in [Pipelines -> 1..MaxRevision]
        BY <1>26, <1>0, ConstantsAssumption DEF PutPipeline, TypeOK, Revision
    <2>2. StartRow(actual[p], latest[p] + 1) \in ActualRow
        BY <1>0, <2>1, StartRowTyped
    <2>3. [status |-> "running", rev |-> latest[p] + 1] \in DesiredRow
        BY <2>1 DEF DesiredRow
    <2>4. /\ desired' \in [Pipelines -> DesiredRow]
          /\ actual' \in [Pipelines -> ActualRow]
          /\ used' \in [Pipelines -> SUBSET Revision]
          /\ failed' \in [Pipelines -> BOOLEAN] /\ streak' \in [Pipelines -> Nat]
        <3>1. CASE activate
            <4>1. Explicit(p, latest[p] + 1)
                BY <1>26, <3>1 DEF PutPipeline
            <4> QED
                BY <1>0, <2>2, <2>3, <4>1 DEF Explicit, TypeOK
        <3>2. CASE ~activate
            BY <1>26, <1>0, <3>2 DEF PutPipeline, TypeOK, history
        <3> QED
            BY <3>1, <3>2
    <2> QED
        BY <1>26, <1>0, <2>1, <2>4
        DEF PutPipeline, TypeOK, process, mode, running
<1>27. ASSUME NEW p \in Pipelines, RequestStop(p)
      PROVE  TypeOK'
    <2>1. Stopped \in DesiredRow
        BY ConstantsAssumption DEF Stopped, DesiredRow, Revision
    <2> QED
        BY <1>27, <1>0, <2>1 DEF RequestStop, TypeOK, process, mode,
           running, history
<1>28. ASSUME NEW p \in Pipelines, KillRequest(p)
      PROVE  TypeOK'
    <2>1. Stopped \in DesiredRow
        BY ConstantsAssumption DEF Stopped, DesiredRow, Revision
    <2> QED
        BY <1>28, <1>0, <2>1 DEF KillRequest, TypeOK, mode, running, history
<1>29. CASE CallerLeaves
    BY <1>29, <1>0 DEF CallerLeaves, OnlyOp, TypeOK, catalog, mode, running,
       history, counters
<1>30. CASE Exit
    <2>1. 0 \in Revision
        BY ConstantsAssumption DEF Revision
    <2>2. /\ jobs' \in [Pipelines -> Revision] /\ stable' \in [Pipelines -> BOOLEAN]
          /\ ended' \in [Pipelines -> {"no", "ok", "error"}]
          /\ live' \in [Pipelines -> Nat]
          /\ retry' \in [Pipelines -> {"none", "scheduled", "due"}]
          /\ kills' \subseteq Pipelines
        BY <1>30, <2>1 DEF Exit
    <2>3. shutdown' \in BOOLEAN /\ drained' \in BOOLEAN
        BY <1>30 DEF Exit
    <2>4. restarts' = restarts + 1
        BY <1>30 DEF Exit
    <2>5. UNCHANGED <<catalog, safe, history, requests, killCount, lost>>
        BY <1>30 DEF Exit
    <2> QED
        BY <1>0, <2>2, <2>3, <2>4, <2>5 DEF TypeOK, catalog, history
<1>31. CASE Boot
    <2>1. \A p \in Pipelines : BootRow(actual[p], desired[p]) \in ActualRow
        BY <1>0 DEF BootRow, ActualRow, Status
    <2> QED
        BY <1>31, <1>0, <2>1, ConstantsAssumption
        DEF Boot, TypeOK, running, history, counters
<1>32. ASSUME NEW p \in Pipelines, KillBegin(p)
      PROVE  TypeOK'
    <2>1. 0 \in Revision
        BY ConstantsAssumption DEF Revision
    <2> QED
        BY <1>32, <1>0, <2>1 DEF KillBegin, RemoveJob, TypeOK, catalog,
           mode, counters
<1>33. ASSUME NEW p \in Pipelines, MarkStable(p)
      PROVE  TypeOK'
    <2>1. [actual[p] EXCEPT !.fails = 0] \in ActualRow
        BY <1>0 DEF ActualRow
    <2>2. actual' \in [Pipelines -> ActualRow] /\ lost' \in Nat
        BY <1>33, <1>0, <2>1, WriteTyped DEF MarkStable
    <2>3. streak' \in [Pipelines -> Nat]
        BY <1>33, <1>0 DEF MarkStable, TypeOK
    <2> QED
        BY <1>33, <1>0, <2>2, <2>3 DEF MarkStable, TypeOK, mode
<1>34. ASSUME NEW p \in Pipelines, CatalogError(p)
      PROVE  TypeOK'
    BY <1>34, <1>0 DEF CatalogError, TypeOK, catalog, mode, running, history
<1>35. ASSUME NEW p \in Pipelines, RetryElapses(p)
      PROVE  TypeOK'
    BY <1>35, <1>0 DEF RetryElapses, TypeOK, catalog, mode, running,
       history, counters
<1>36. ASSUME NEW p \in Pipelines, NEW how \in {"ok", "error"},
             JobEnds(p, how)
      PROVE  TypeOK'
    <2>1. live' \in [Pipelines -> Nat]
        BY <1>36, <1>0 DEF JobEnds, Owned, TypeOK
    <2> QED
        BY <1>36, <1>0, <2>1 DEF JobEnds, TypeOK, catalog, mode, history,
           counters
<1>37. CASE UNCHANGED vars
    BY <1>37, <1>0 DEF vars, TypeOK
<1> QED
    BY <1>1, <1>2, <1>3, <1>4, <1>5, <1>6, <1>7, <1>8, <1>9, <1>10, <1>11,
       <1>12, <1>13, <1>14, <1>15, <1>16, <1>17, <1>18, <1>19, <1>20,
       <1>21, <1>22, <1>23, <1>24, <1>25, <1>26, <1>27, <1>28, <1>29,
       <1>30, <1>31, <1>32, <1>33, <1>34, <1>35, <1>36, <1>37 DEF Next,
       OperationStep, Starting, Request

\* Every step keeps RevisionsNamed: a revision is read from the catalog before it
\* is used, and only catalogued revisions are desired.
LEMMA NamedStep == OwnerInv /\ [Next]_vars => RevisionsNamed'
<1> SUFFICES ASSUME OwnerInv, [Next]_vars
             PROVE  RevisionsNamed'
    OBVIOUS
<1>0. /\ op \in Operation /\ desired \in [Pipelines -> DesiredRow]
      /\ latest \in [Pipelines -> 1..MaxRevision]
      /\ RevisionsNamed
    BY DEF OwnerInv, TypeOK
<1>1. CASE ConvergeBegin
    BY <1>1, <1>0 DEF ConvergeBegin, OnlyOp, Idle, RevisionsNamed,
       StartPath, EachPath, Operation, DesiredRow, catalog
<1>2. CASE Reaped
    BY <1>2, <1>0 DEF Reaped, OnlyOp, RevisionsNamed, StartPath, EachPath,
       Operation, DesiredRow, catalog
<1>3. CASE ListDesired
    BY <1>3, <1>0 DEF ListDesired, OnlyOp, RevisionsNamed, StartPath,
       EachPath, Operation, DesiredRow, catalog
<1>4. CASE ConvergeEnd
    BY <1>4, <1>0 DEF ConvergeEnd, OnlyOp, Idle, RevisionsNamed, StartPath,
       EachPath, Operation, DesiredRow, catalog
<1>5. CASE JoinStopped
    BY <1>5, <1>0 DEF JoinStopped, RevisionsNamed, StartPath, EachPath,
       Operation, DesiredRow, catalog
<1>6. CASE WriteStopped
    BY <1>6, <1>0 DEF WriteStopped, Visited, RevisionsNamed, StartPath,
       EachPath, Operation, DesiredRow
<1>7. CASE JoinOld
    BY <1>7, <1>0 DEF JoinOld, RevisionsNamed, StartPath, EachPath,
       Operation, DesiredRow, catalog
<1>8. CASE WriteStarting
    <2>1. desired' = desired /\ op.pc = "write_starting"
        BY <1>8 DEF WriteStarting
    <2>2. \/ op' = [op EXCEPT !.pc = "start"]
          \/ op' = [op EXCEPT !.pc = "start_failed", !.err = "failed"]
        BY <1>8 DEF WriteStarting, Fail
    <2>3. /\ op'.pc \in {"start", "start_failed"} /\ op'.at = op.at
          /\ op'.rev = op.rev /\ op'.snap = op.snap
        BY <1>0, <2>2 DEF Operation
    <2> QED
        BY <1>0, <2>1, <2>3 DEF RevisionsNamed, StartPath, EachPath
<1>9. CASE WriteRunning
    <2>1. desired' = desired /\ op.pc = "write_running"
        BY <1>9 DEF WriteRunning
    <2>2. \/ op' = Visited(op.at)
          \/ op' = [op EXCEPT !.pc = "start_failed", !.err = "failed"]
        BY <1>9 DEF WriteRunning, Fail
    <2>3. /\ op'.pc \in {"each", "start_failed"} /\ op'.at = op.at
          /\ op'.rev = op.rev /\ op'.snap = op.snap
        BY <1>0, <2>2 DEF Operation, Visited
    <2> QED
        BY <1>0, <2>1, <2>3 DEF RevisionsNamed, StartPath, EachPath
<1>10. CASE RecordStartFailure
    BY <1>10, <1>0 DEF RecordStartFailure, Visited, RevisionsNamed,
       StartPath, EachPath, Operation, DesiredRow
<1>11. CASE KillJoin
    BY <1>11, <1>0 DEF KillJoin, RevisionsNamed, StartPath, EachPath,
       Operation, DesiredRow, catalog
<1>12. CASE KillWrite
    BY <1>12, <1>0 DEF KillWrite, Idle, RevisionsNamed, StartPath, EachPath,
       Operation, DesiredRow
<1>13. CASE StopAllBegin
    BY <1>13, <1>0 DEF StopAllBegin, Idle, RevisionsNamed, StartPath,
       EachPath, Operation, DesiredRow, catalog
<1>14. CASE StopAllWrite
    BY <1>14, <1>0 DEF StopAllWrite, RevisionsNamed, StartPath, EachPath,
       Operation, DesiredRow
<1>15. CASE StopAllEnd
    BY <1>15, <1>0 DEF StopAllEnd, Idle, RevisionsNamed, StartPath,
       EachPath, Operation, DesiredRow, catalog
<1>16. ASSUME NEW p \in Pipelines, Reap(p)
      PROVE  RevisionsNamed'
    BY <1>16, <1>0 DEF Reap, RevisionsNamed, StartPath, EachPath, Operation,
       DesiredRow
<1>17. ASSUME NEW p \in Pipelines, VisitRunning(p)
      PROVE  RevisionsNamed'
    BY <1>17, <1>0 DEF VisitRunning, Visited, RevisionsNamed, StartPath,
       EachPath, Operation, DesiredRow, catalog
<1>18. ASSUME NEW p \in Pipelines, VisitStopped(p)
      PROVE  RevisionsNamed'
    BY <1>18, <1>0 DEF VisitStopped, RevisionsNamed, StartPath, EachPath,
       Operation, DesiredRow, catalog
<1>19. ASSUME NEW p \in Pipelines, StopAllJoin(p)
      PROVE  RevisionsNamed'
    BY <1>19, <1>0 DEF StopAllJoin, RevisionsNamed, StartPath, EachPath,
       Operation, DesiredRow, catalog
<1>20. CASE StartInvalid
    BY <1>20, <1>0 DEF StartInvalid, OnlyOp, Fail, RevisionsNamed,
       StartPath, EachPath, Operation, DesiredRow, catalog
<1>21. CASE StartReplaces
    BY <1>21, <1>0 DEF StartReplaces, AfterValidate, RevisionsNamed,
       StartPath, EachPath, Operation, DesiredRow, catalog
<1>22. CASE StartJob
    BY <1>22, <1>0 DEF StartJob, RevisionsNamed, StartPath, EachPath,
       Operation, DesiredRow, catalog
<1>23. ASSUME NEW how \in {"waiting", "failed"}, StartRefused(how)
      PROVE  RevisionsNamed'
    BY <1>23, <1>0 DEF StartRefused, OnlyOp, Fail, RevisionsNamed,
       StartPath, EachPath, Operation, DesiredRow, catalog
<1>24. CASE BeginShutdown
    BY <1>24, <1>0 DEF BeginShutdown, RevisionsNamed, StartPath, EachPath,
       Operation, DesiredRow, catalog
<1>25. ASSUME NEW p \in Pipelines, NEW r \in 1..MaxRevision,
             RequestStart(p, r)
      PROVE  RevisionsNamed'
    BY <1>25, <1>0 DEF RequestStart, Explicit, RevisionsNamed, StartPath,
       EachPath, Operation, DesiredRow, process
<1>26. ASSUME NEW p \in Pipelines, NEW activate \in BOOLEAN,
             PutPipeline(p, activate)
      PROVE  RevisionsNamed'
    BY <1>26, <1>0 DEF PutPipeline, Explicit, RevisionsNamed, StartPath,
       EachPath, Operation, DesiredRow, process
<1>27. ASSUME NEW p \in Pipelines, RequestStop(p)
      PROVE  RevisionsNamed'
    BY <1>27, <1>0 DEF RequestStop, Stopped, RevisionsNamed, StartPath,
       EachPath, Operation, DesiredRow, process
<1>28. ASSUME NEW p \in Pipelines, KillRequest(p)
      PROVE  RevisionsNamed'
    BY <1>28, <1>0 DEF KillRequest, Stopped, RevisionsNamed, StartPath,
       EachPath, Operation, DesiredRow
<1>29. CASE CallerLeaves
    BY <1>29, <1>0 DEF CallerLeaves, OnlyOp, AfterCallerLeft,
       RevisionsNamed, StartPath, EachPath, Operation, DesiredRow, catalog
<1>30. CASE Exit
    BY <1>30, <1>0 DEF Exit, Idle, RevisionsNamed, StartPath, EachPath,
       Operation, DesiredRow, catalog
<1>31. CASE Boot
    BY <1>31, <1>0 DEF Boot, Idle, RevisionsNamed, StartPath, EachPath,
       Operation, DesiredRow
<1>32. ASSUME NEW p \in Pipelines, KillBegin(p)
      PROVE  RevisionsNamed'
    BY <1>32, <1>0 DEF KillBegin, Idle, RevisionsNamed, StartPath, EachPath,
       Operation, DesiredRow, catalog
<1>33. ASSUME NEW p \in Pipelines, MarkStable(p)
      PROVE  RevisionsNamed'
    BY <1>33, <1>0 DEF MarkStable, Idle, RevisionsNamed, StartPath,
       EachPath, Operation, DesiredRow
<1>34. ASSUME NEW p \in Pipelines, CatalogError(p)
      PROVE  RevisionsNamed'
    BY <1>34, <1>0 DEF CatalogError, Idle, RevisionsNamed, StartPath,
       EachPath, Operation, DesiredRow, catalog
<1>35. ASSUME NEW p \in Pipelines, RetryElapses(p)
      PROVE  RevisionsNamed'
    BY <1>35, <1>0 DEF RetryElapses, RevisionsNamed, StartPath, EachPath,
       Operation, DesiredRow, catalog
<1>36. ASSUME NEW p \in Pipelines, NEW how \in {"ok", "error"},
             JobEnds(p, how)
      PROVE  RevisionsNamed'
    BY <1>36, <1>0 DEF JobEnds, RevisionsNamed, StartPath, EachPath,
       Operation, DesiredRow, catalog
<1>37. CASE UNCHANGED vars
    BY <1>37, <1>0 DEF vars, RevisionsNamed, StartPath, EachPath, Operation,
       DesiredRow
<1> QED
    BY <1>1, <1>2, <1>3, <1>4, <1>5, <1>6, <1>7, <1>8, <1>9, <1>10, <1>11,
       <1>12, <1>13, <1>14, <1>15, <1>16, <1>17, <1>18, <1>19, <1>20,
       <1>21, <1>22, <1>23, <1>24, <1>25, <1>26, <1>27, <1>28, <1>29,
       <1>30, <1>31, <1>32, <1>33, <1>34, <1>35, <1>36, <1>37 DEF Next,
       OperationStep, Starting, Request

\* Every step keeps OperationInv: what an operation reads under the mutex stays
\* true until it lets go.
LEMMA MutexStep == OwnerInv /\ [Next]_vars => OperationInv'
<1> SUFFICES ASSUME OwnerInv, [Next]_vars
             PROVE  OperationInv'
    OBVIOUS
<1>0. /\ op \in Operation /\ jobs \in [Pipelines -> Revision]
      /\ ended \in [Pipelines -> {"no", "ok", "error"}]
      /\ live \in [Pipelines -> Nat]
      /\ RevisionsNamed /\ OperationInv /\ \A q \in Pipelines : Owned(q)
    BY DEF OwnerInv, TypeOK
<1>1. CASE ConvergeBegin
    BY <1>1, <1>0 DEF ConvergeBegin, OnlyOp, Idle, Finished, MayConverge,
       OperationInv, RevisionsNamed, AllPath, StartPath, Operation, mode,
       running
<1>2. CASE Reaped
    BY <1>2, <1>0 DEF Reaped, OnlyOp, OperationInv, RevisionsNamed, AllPath,
       StartPath, Operation, mode, running
<1>3. CASE ListDesired
    BY <1>3, <1>0 DEF ListDesired, OnlyOp, OperationInv, RevisionsNamed,
       AllPath, StartPath, Operation, mode, running
<1>4. CASE ConvergeEnd
    BY <1>4, <1>0 DEF ConvergeEnd, OnlyOp, Idle, OperationInv,
       RevisionsNamed, AllPath, StartPath, Operation, mode, running
<1>5. CASE JoinStopped
    BY <1>5, <1>0 DEF JoinStopped, Joined, OperationInv, RevisionsNamed,
       AllPath, StartPath, Operation, mode, running
<1>6. CASE WriteStopped
    BY <1>6, <1>0 DEF WriteStopped, Visited, OperationInv, RevisionsNamed,
       AllPath, StartPath, Operation, mode, running
<1>7. CASE JoinOld
    BY <1>7, <1>0 DEF JoinOld, Joined, Owned, Joining, OperationInv,
       RevisionsNamed, AllPath, StartPath, Operation, mode, running
<1>8. CASE WriteStarting
    <2>1. /\ op.pc = "write_starting" /\ jobs' = jobs /\ drained' = drained
          /\ \/ op' = [op EXCEPT !.pc = "start"]
             \/ op' = [op EXCEPT !.pc = "start_failed", !.err = "failed"]
        BY <1>8 DEF WriteStarting, Fail, mode, running
    <2>2. /\ op'.at = op.at /\ op'.pc \in {"start", "start_failed"}
          /\ op'.pc = "start_failed" => op'.err # "none"
        BY <1>0, <2>1 DEF Operation
    <2> QED
        BY <1>0, <2>1, <2>2 DEF OperationInv, AllPath
<1>9. CASE WriteRunning
    <2>1. /\ op.pc = "write_running" /\ jobs' = jobs /\ drained' = drained
          /\ \/ op' = [op EXCEPT !.pc = "each", !.todo = @ \ {op.at}]
             \/ op' = [op EXCEPT !.pc = "start_failed", !.err = "failed"]
        BY <1>9 DEF WriteRunning, Fail, Visited, mode, running
    <2>2. /\ op'.pc \in {"each", "start_failed"}
          /\ op'.pc = "start_failed" => op'.err # "none"
        BY <1>0, <2>1 DEF Operation
    <2> QED
        BY <1>0, <2>1, <2>2 DEF OperationInv, AllPath
<1>10. CASE RecordStartFailure
    BY <1>10, <1>0 DEF RecordStartFailure, Visited, OperationInv,
       RevisionsNamed, AllPath, StartPath, Operation, mode, running
<1>11. CASE KillJoin
    BY <1>11, <1>0 DEF KillJoin, Joined, OperationInv, RevisionsNamed,
       AllPath, StartPath, Operation, mode, running
<1>12. CASE KillWrite
    BY <1>12, <1>0 DEF KillWrite, Idle, OperationInv, RevisionsNamed,
       AllPath, StartPath, Operation, mode, running
<1>13. CASE StopAllBegin
    BY <1>13, <1>0 DEF StopAllBegin, Idle, OperationInv, RevisionsNamed,
       AllPath, StartPath, Operation, mode
<1>14. CASE StopAllWrite
    BY <1>14, <1>0 DEF StopAllWrite, OperationInv, RevisionsNamed, AllPath,
       StartPath, Operation, mode, running
<1>15. CASE StopAllEnd
    BY <1>15, <1>0 DEF StopAllEnd, Idle, OperationInv, RevisionsNamed,
       AllPath, StartPath, Operation, running
<1>16. ASSUME NEW p \in Pipelines, Reap(p)
      PROVE  OperationInv'
    BY <1>16, <1>0 DEF Reap, RemoveJob, OperationInv, RevisionsNamed,
       AllPath, StartPath, Operation, mode
<1>17. ASSUME NEW p \in Pipelines, VisitRunning(p)
      PROVE  OperationInv'
    BY <1>17, <1>0 DEF VisitRunning, Visited, OperationInv, RevisionsNamed,
       AllPath, StartPath, Operation, mode, running
<1>18. ASSUME NEW p \in Pipelines, VisitStopped(p)
      PROVE  OperationInv'
    BY <1>18, <1>0 DEF VisitStopped, RemoveJob, OperationInv,
       RevisionsNamed, AllPath, StartPath, Operation, mode
<1>19. ASSUME NEW p \in Pipelines, StopAllJoin(p)
      PROVE  OperationInv'
    BY <1>19, <1>0 DEF StopAllJoin, Joined, OperationInv, RevisionsNamed,
       AllPath, StartPath, Operation, mode, running
<1>20. CASE StartInvalid
    BY <1>20, <1>0 DEF StartInvalid, OnlyOp, Fail, OperationInv,
       RevisionsNamed, AllPath, StartPath, Operation, mode, running
<1>21. CASE StartReplaces
    BY <1>21, <1>0 DEF StartReplaces, AfterValidate, RemoveJob,
       OperationInv, RevisionsNamed, AllPath, StartPath, Operation, mode
<1>22. CASE StartJob
    BY <1>22, <1>0 DEF StartJob, OperationInv, RevisionsNamed, AllPath,
       StartPath, Operation, mode
<1>23. ASSUME NEW how \in {"waiting", "failed"}, StartRefused(how)
      PROVE  OperationInv'
    BY <1>23, <1>0 DEF StartRefused, OnlyOp, Fail, OperationInv,
       RevisionsNamed, AllPath, StartPath, Operation, mode, running
<1>24. CASE BeginShutdown
    BY <1>24, <1>0 DEF BeginShutdown, OperationInv, RevisionsNamed, AllPath,
       StartPath, Operation, running
<1>25. ASSUME NEW p \in Pipelines, NEW r \in 1..MaxRevision,
             RequestStart(p, r)
      PROVE  OperationInv'
    BY <1>25, <1>0 DEF RequestStart, Explicit, OperationInv, RevisionsNamed,
       AllPath, StartPath, Operation, mode, running, process
<1>26. ASSUME NEW p \in Pipelines, NEW activate \in BOOLEAN,
             PutPipeline(p, activate)
      PROVE  OperationInv'
    BY <1>26, <1>0 DEF PutPipeline, Explicit, OperationInv, RevisionsNamed,
       AllPath, StartPath, Operation, mode, running, process
<1>27. ASSUME NEW p \in Pipelines, RequestStop(p)
      PROVE  OperationInv'
    BY <1>27, <1>0 DEF RequestStop, Stopped, OperationInv, RevisionsNamed,
       AllPath, StartPath, Operation, mode, running, process
<1>28. ASSUME NEW p \in Pipelines, KillRequest(p)
      PROVE  OperationInv'
    BY <1>28, <1>0 DEF KillRequest, Stopped, OperationInv, RevisionsNamed,
       AllPath, StartPath, Operation, mode, running
<1>29. CASE CallerLeaves
    BY <1>29, <1>0 DEF CallerLeaves, OnlyOp, AfterCallerLeft, OperationInv,
       RevisionsNamed, AllPath, StartPath, Operation, mode, running
<1>30. CASE Exit
    BY <1>30, <1>0 DEF Exit, Idle, OperationInv, RevisionsNamed, AllPath,
       StartPath, Operation
<1>31. CASE Boot
    BY <1>31, <1>0 DEF Boot, Idle, OperationInv, RevisionsNamed, AllPath,
       StartPath, Operation, running
<1>32. ASSUME NEW p \in Pipelines, KillBegin(p)
      PROVE  OperationInv'
    BY <1>32, <1>0 DEF KillBegin, Idle, RemoveJob, OperationInv,
       RevisionsNamed, AllPath, StartPath, Operation, mode
<1>33. ASSUME NEW p \in Pipelines, MarkStable(p)
      PROVE  OperationInv'
    BY <1>33, <1>0 DEF MarkStable, Idle, OperationInv, RevisionsNamed,
       AllPath, StartPath, Operation, mode
<1>34. ASSUME NEW p \in Pipelines, CatalogError(p)
      PROVE  OperationInv'
    BY <1>34, <1>0 DEF CatalogError, Idle, OperationInv, RevisionsNamed,
       AllPath, StartPath, Operation, mode, running
<1>35. ASSUME NEW p \in Pipelines, RetryElapses(p)
      PROVE  OperationInv'
    BY <1>35, <1>0 DEF RetryElapses, OperationInv, RevisionsNamed, AllPath,
       StartPath, Operation, mode, running
<1>36. ASSUME NEW p \in Pipelines, NEW how \in {"ok", "error"},
             JobEnds(p, how)
      PROVE  OperationInv'
    BY <1>36, <1>0 DEF JobEnds, OperationInv, RevisionsNamed, AllPath,
       StartPath, Operation, mode
<1>37. CASE UNCHANGED vars
    BY <1>37, <1>0 DEF vars, OperationInv, RevisionsNamed, AllPath,
       StartPath, Operation
<1> QED
    BY <1>1, <1>2, <1>3, <1>4, <1>5, <1>6, <1>7, <1>8, <1>9, <1>10, <1>11,
       <1>12, <1>13, <1>14, <1>15, <1>16, <1>17, <1>18, <1>19, <1>20,
       <1>21, <1>22, <1>23, <1>24, <1>25, <1>26, <1>27, <1>28, <1>29,
       <1>30, <1>31, <1>32, <1>33, <1>34, <1>35, <1>36, <1>37 DEF Next,
       OperationStep, Starting, Request

\* Every step keeps Owned: reap_finished, apply_stop, kill and stop_all take a job
\* out of the map before they join it, start_revision joins before it spawns.
LEMMA OwnedStep == OwnerInv /\ [Next]_vars => (\A q \in Pipelines : Owned(q))'
<1> SUFFICES ASSUME OwnerInv, [Next]_vars
             PROVE  (\A q \in Pipelines : Owned(q))'
    OBVIOUS
<1>0. /\ op \in Operation /\ jobs \in [Pipelines -> Revision]
      /\ ended \in [Pipelines -> {"no", "ok", "error"}]
      /\ live \in [Pipelines -> Nat]
      /\ RevisionsNamed /\ OperationInv /\ \A q \in Pipelines : Owned(q)
    BY DEF OwnerInv, TypeOK
<1>1. CASE ConvergeBegin
    BY <1>1, <1>0 DEF ConvergeBegin, OnlyOp, Idle, Finished, MayConverge,
       Owned, Joining, OperationInv, AllPath, RevisionsNamed, StartPath,
       EachPath, Operation, mode, running
<1>2. CASE Reaped
    BY <1>2, <1>0 DEF Reaped, OnlyOp, Owned, Joining, OperationInv, AllPath,
       RevisionsNamed, StartPath, EachPath, Operation, mode, running
<1>3. CASE ListDesired
    BY <1>3, <1>0 DEF ListDesired, OnlyOp, Owned, Joining, OperationInv,
       AllPath, RevisionsNamed, StartPath, EachPath, Operation, mode,
       running
<1>4. CASE ConvergeEnd
    BY <1>4, <1>0 DEF ConvergeEnd, OnlyOp, Idle, Owned, Joining,
       OperationInv, AllPath, RevisionsNamed, StartPath, EachPath,
       Operation, mode, running
<1>5. CASE JoinStopped
    BY <1>5, <1>0 DEF JoinStopped, Joined, Owned, Joining, OperationInv,
       AllPath, RevisionsNamed, StartPath, EachPath, Operation, mode,
       running
<1>6. CASE WriteStopped
    BY <1>6, <1>0 DEF WriteStopped, Visited, Owned, Joining, OperationInv,
       AllPath, RevisionsNamed, StartPath, EachPath, Operation, mode,
       running
<1>7. CASE JoinOld
    BY <1>7, <1>0 DEF JoinOld, Joined, Owned, Joining, OperationInv,
       AllPath, RevisionsNamed, StartPath, EachPath, Operation, mode,
       running
<1>8. CASE WriteStarting
    <2>1. /\ op.pc = "write_starting" /\ jobs' = jobs /\ live' = live
          /\ ended' = ended
          /\ \/ op' = [op EXCEPT !.pc = "start"]
             \/ op' = [op EXCEPT !.pc = "start_failed", !.err = "failed"]
        BY <1>8 DEF WriteStarting, Fail, mode, running
    <2>2. op'.pc \in {"start", "start_failed"}
        BY <1>0, <2>1 DEF Operation
    <2> QED
        BY <1>0, <2>1, <2>2 DEF Owned, Joining
<1>9. CASE WriteRunning
    <2>1. /\ op.pc = "write_running" /\ jobs' = jobs /\ live' = live
          /\ ended' = ended
          /\ \/ op' = [op EXCEPT !.pc = "each", !.todo = @ \ {op.at}]
             \/ op' = [op EXCEPT !.pc = "start_failed", !.err = "failed"]
        BY <1>9 DEF WriteRunning, Fail, Visited, mode, running
    <2>2. op'.pc \in {"each", "start_failed"}
        BY <1>0, <2>1 DEF Operation
    <2> QED
        BY <1>0, <2>1, <2>2 DEF Owned, Joining
<1>10. CASE RecordStartFailure
    BY <1>10, <1>0 DEF RecordStartFailure, Visited, Owned, Joining,
       OperationInv, AllPath, RevisionsNamed, StartPath, EachPath,
       Operation, mode, running
<1>11. CASE KillJoin
    BY <1>11, <1>0 DEF KillJoin, Joined, Owned, Joining, OperationInv,
       AllPath, RevisionsNamed, StartPath, EachPath, Operation, mode,
       running
<1>12. CASE KillWrite
    BY <1>12, <1>0 DEF KillWrite, Idle, Owned, Joining, OperationInv,
       AllPath, RevisionsNamed, StartPath, EachPath, Operation, mode,
       running
<1>13. CASE StopAllBegin
    BY <1>13, <1>0 DEF StopAllBegin, Idle, Owned, Joining, OperationInv,
       AllPath, RevisionsNamed, StartPath, EachPath, Operation, mode
<1>14. CASE StopAllWrite
    BY <1>14, <1>0 DEF StopAllWrite, Owned, Joining, OperationInv, AllPath,
       RevisionsNamed, StartPath, EachPath, Operation, mode, running
<1>15. CASE StopAllEnd
    BY <1>15, <1>0 DEF StopAllEnd, Idle, Owned, Joining, OperationInv,
       AllPath, RevisionsNamed, StartPath, EachPath, Operation, running
<1>16. ASSUME NEW p \in Pipelines, Reap(p)
      PROVE  (\A q \in Pipelines : Owned(q))'
    BY <1>16, <1>0 DEF Reap, RemoveJob, Owned, Joining, OperationInv,
       AllPath, RevisionsNamed, StartPath, EachPath, Operation, mode
<1>17. ASSUME NEW p \in Pipelines, VisitRunning(p)
      PROVE  (\A q \in Pipelines : Owned(q))'
    BY <1>17, <1>0 DEF VisitRunning, Visited, Owned, Joining, OperationInv,
       AllPath, RevisionsNamed, StartPath, EachPath, Operation, mode,
       running
<1>18. ASSUME NEW p \in Pipelines, VisitStopped(p)
      PROVE  (\A q \in Pipelines : Owned(q))'
    BY <1>18, <1>0 DEF VisitStopped, RemoveJob, Owned, Joining,
       OperationInv, AllPath, RevisionsNamed, StartPath, EachPath,
       Operation, mode
<1>19. ASSUME NEW p \in Pipelines, StopAllJoin(p)
      PROVE  (\A q \in Pipelines : Owned(q))'
    BY <1>19, <1>0 DEF StopAllJoin, Joined, Owned, Joining, OperationInv,
       AllPath, RevisionsNamed, StartPath, EachPath, Operation, mode,
       running
<1>20. CASE StartInvalid
    BY <1>20, <1>0 DEF StartInvalid, OnlyOp, Fail, Owned, Joining,
       OperationInv, AllPath, RevisionsNamed, StartPath, EachPath,
       Operation, mode, running
<1>21. CASE StartReplaces
    BY <1>21, <1>0 DEF StartReplaces, AfterValidate, RemoveJob, Owned,
       Joining, OperationInv, AllPath, RevisionsNamed, StartPath, EachPath,
       Operation, mode
<1>22. CASE StartJob
    BY <1>22, <1>0 DEF StartJob, Owned, Joining, OperationInv, AllPath,
       RevisionsNamed, StartPath, EachPath, Operation, mode
<1>23. ASSUME NEW how \in {"waiting", "failed"}, StartRefused(how)
      PROVE  (\A q \in Pipelines : Owned(q))'
    BY <1>23, <1>0 DEF StartRefused, OnlyOp, Fail, Owned, Joining,
       OperationInv, AllPath, RevisionsNamed, StartPath, EachPath,
       Operation, mode, running
<1>24. CASE BeginShutdown
    BY <1>24, <1>0 DEF BeginShutdown, Owned, Joining, OperationInv, AllPath,
       RevisionsNamed, StartPath, EachPath, Operation, running
<1>25. ASSUME NEW p \in Pipelines, NEW r \in 1..MaxRevision,
             RequestStart(p, r)
      PROVE  (\A q \in Pipelines : Owned(q))'
    BY <1>25, <1>0 DEF RequestStart, Explicit, Owned, Joining, OperationInv,
       AllPath, RevisionsNamed, StartPath, EachPath, Operation, mode,
       running, process
<1>26. ASSUME NEW p \in Pipelines, NEW activate \in BOOLEAN,
             PutPipeline(p, activate)
      PROVE  (\A q \in Pipelines : Owned(q))'
    BY <1>26, <1>0 DEF PutPipeline, Explicit, Owned, Joining, OperationInv,
       AllPath, RevisionsNamed, StartPath, EachPath, Operation, mode,
       running, process
<1>27. ASSUME NEW p \in Pipelines, RequestStop(p)
      PROVE  (\A q \in Pipelines : Owned(q))'
    BY <1>27, <1>0 DEF RequestStop, Stopped, Owned, Joining, OperationInv,
       AllPath, RevisionsNamed, StartPath, EachPath, Operation, mode,
       running, process
<1>28. ASSUME NEW p \in Pipelines, KillRequest(p)
      PROVE  (\A q \in Pipelines : Owned(q))'
    BY <1>28, <1>0 DEF KillRequest, Stopped, Owned, Joining, OperationInv,
       AllPath, RevisionsNamed, StartPath, EachPath, Operation, mode,
       running
<1>29. CASE CallerLeaves
    BY <1>29, <1>0 DEF CallerLeaves, OnlyOp, AfterCallerLeft, Owned,
       Joining, OperationInv, AllPath, RevisionsNamed, StartPath, EachPath,
       Operation, mode, running
<1>30. CASE Exit
    BY <1>30, <1>0 DEF Exit, Idle, Owned, Joining, OperationInv, AllPath,
       RevisionsNamed, StartPath, EachPath, Operation
<1>31. CASE Boot
    BY <1>31, <1>0 DEF Boot, Idle, Owned, Joining, OperationInv, AllPath,
       RevisionsNamed, StartPath, EachPath, Operation, running
<1>32. ASSUME NEW p \in Pipelines, KillBegin(p)
      PROVE  (\A q \in Pipelines : Owned(q))'
    BY <1>32, <1>0 DEF KillBegin, Idle, RemoveJob, Owned, Joining,
       OperationInv, AllPath, RevisionsNamed, StartPath, EachPath,
       Operation, mode
<1>33. ASSUME NEW p \in Pipelines, MarkStable(p)
      PROVE  (\A q \in Pipelines : Owned(q))'
    BY <1>33, <1>0 DEF MarkStable, Idle, Owned, Joining, OperationInv,
       AllPath, RevisionsNamed, StartPath, EachPath, Operation, mode
<1>34. ASSUME NEW p \in Pipelines, CatalogError(p)
      PROVE  (\A q \in Pipelines : Owned(q))'
    BY <1>34, <1>0 DEF CatalogError, Idle, Owned, Joining, OperationInv,
       AllPath, RevisionsNamed, StartPath, EachPath, Operation, mode,
       running
<1>35. ASSUME NEW p \in Pipelines, RetryElapses(p)
      PROVE  (\A q \in Pipelines : Owned(q))'
    BY <1>35, <1>0 DEF RetryElapses, Owned, Joining, OperationInv, AllPath,
       RevisionsNamed, StartPath, EachPath, Operation, mode, running
<1>36. ASSUME NEW p \in Pipelines, NEW how \in {"ok", "error"},
             JobEnds(p, how)
      PROVE  (\A q \in Pipelines : Owned(q))'
    BY <1>36, <1>0 DEF JobEnds, Owned, Joining, OperationInv, AllPath,
       RevisionsNamed, StartPath, EachPath, Operation, mode
<1>37. CASE UNCHANGED vars
    BY <1>37, <1>0 DEF vars, Owned, Joining, OperationInv, AllPath,
       RevisionsNamed, StartPath, EachPath, Operation
<1> QED
    BY <1>1, <1>2, <1>3, <1>4, <1>5, <1>6, <1>7, <1>8, <1>9, <1>10, <1>11,
       <1>12, <1>13, <1>14, <1>15, <1>16, <1>17, <1>18, <1>19, <1>20,
       <1>21, <1>22, <1>23, <1>24, <1>25, <1>26, <1>27, <1>28, <1>29,
       <1>30, <1>31, <1>32, <1>33, <1>34, <1>35, <1>36, <1>37 DEF Next,
       OperationStep, Starting, Request

\* The row that set_actual_inner writes for a failure: it counts and latches.
LEMMA FailedRow ==
    ASSUME NEW row \in ActualRow, NEW rev \in Revision
    PROVE  /\ SetActual(row, "failed", rev).status = "failed"
           /\ SetActual(row, "failed", rev).fails = row.fails + 1
           /\ SetActual(row, "failed", rev).blocked
BY DEF SetActual, FailsAfter, BlockedAfter

\* The row that set_actual_inner writes for a completion: it clears the count.
LEMMA CompletedRow ==
    ASSUME NEW row \in ActualRow, NEW rev \in Revision
    PROVE  /\ SetActual(row, "completed", rev).status = "completed"
           /\ SetActual(row, "completed", rev).rev = rev
           /\ SetActual(row, "completed", rev).fails = 0
BY DEF SetActual, FailsAfter, BlockedAfter

\* The row that set_actual_inner writes for a stop, for a start or while the
\* backoff lasts: it keeps the count and the latch.
LEMMA NeutralRow ==
    ASSUME NEW row \in ActualRow, NEW rev \in Revision,
           NEW status \in {"stopped", "starting", "waiting"}
    PROVE  /\ SetActual(row, status, rev).status = status
           /\ SetActual(row, status, rev).fails = row.fails
           /\ SetActual(row, status, rev).blocked = row.blocked
<1>1. CASE status = "stopped"
    BY <1>1 DEF SetActual, FailsAfter, BlockedAfter
<1>2. CASE status = "starting"
    BY <1>2 DEF SetActual, FailsAfter, BlockedAfter
<1>3. CASE status = "waiting"
    BY <1>3 DEF SetActual, FailsAfter, BlockedAfter
<1> QED
    BY <1>1, <1>2, <1>3

\* A catalog write either arrives or is counted as lost.
LEMMA WriteCases ==
    ASSUME lost \in Nat, NEW p, NEW row, WriteActual(p, row)
    PROVE  \/ Written /\ actual' = [actual EXCEPT ![p] = row]
           \/ ~Written /\ actual' = actual /\ lost' # 0
BY DEF WriteActual, Written

\* The row after a boot keeps the count, and keeps or sets the latch.
LEMMA BootFields ==
    ASSUME NEW row \in ActualRow, NEW d \in DesiredRow
    PROVE  LET new == BootRow(row, d) IN
           /\ new.status = "stopped" /\ new.rev = row.rev
           /\ new.fails = row.fails
           /\ row.blocked => new.blocked
           /\ d.status = "running" /\ d.rev \in Fixed => new.blocked
BY DEF BootRow, ActualRow, DesiredRow

\* The outcome of a start that failed is counted when it is written.
LEMMA FailureCounted ==
    ASSUME RecordStartFailure, op.err = "failed", Written
    PROVE  /\ streak' = [streak EXCEPT ![op.at] = streak[op.at] + 1]
           /\ failed' = [failed EXCEPT ![op.at] = TRUE]
<1>1. streak' = [streak EXCEPT ![op.at] = streak[op.at] + 1]
    BY DEF RecordStartFailure, Written
<1>2. failed' = [failed EXCEPT ![op.at] = TRUE]
    BY DEF RecordStartFailure, Written
<1> QED
    BY <1>1, <1>2

\* The outcome of a job that completed is counted when it is reaped.
LEMMA CompletionCounted ==
    ASSUME NEW p, Reap(p), ended[p] = "ok", Written
    PROVE  /\ streak' = [streak EXCEPT ![p] = 0]
           /\ failed' = [failed EXCEPT ![p] = FALSE]
           /\ WriteActual(p, SetActual(actual[p], "completed", jobs[p]))
<1>1. streak' = [streak EXCEPT ![p] = 0]
    BY DEF Reap, Written
<1>2. failed' = [failed EXCEPT ![p] = FALSE]
    BY DEF Reap, Written
<1>3. WriteActual(p, SetActual(actual[p], "completed", jobs[p]))
    BY DEF Reap
<1> QED
    BY <1>1, <1>2, <1>3

\* The outcome of a job that failed is counted when it is reaped.
LEMMA JobFailureCounted ==
    ASSUME NEW p, Reap(p), ended[p] # "ok", Written
    PROVE  /\ streak' = [streak EXCEPT ![p] = streak[p] + 1]
           /\ failed' = [failed EXCEPT ![p] = TRUE]
           /\ WriteActual(p, SetActual(actual[p], "failed", jobs[p]))
<1>1. streak' = [streak EXCEPT ![p] = streak[p] + 1]
    BY DEF Reap, Written
<1>2. failed' = [failed EXCEPT ![p] = TRUE]
    BY DEF Reap, Written
<1>3. WriteActual(p, SetActual(actual[p], "failed", jobs[p]))
    BY DEF Reap
<1> QED
    BY <1>1, <1>2, <1>3

\* A row that is written with a count and a latch which agree with the history.
LEMMA RowRecorded ==
    ASSUME NEW p \in Pipelines, NEW row, NEW n \in Nat, NEW f \in BOOLEAN,
           streak \in [Pipelines -> Nat], failed \in [Pipelines -> BOOLEAN],
           actual \in [Pipelines -> ActualRow],
           actual' = [actual EXCEPT ![p] = row],
           streak' = [streak EXCEPT ![p] = n],
           failed' = [failed EXCEPT ![p] = f],
           row.fails = n, f => row.blocked,
           row.status \in {"starting", "running", "waiting"} => n < MaxAttempts,
           \A q \in Pipelines : Recorded(q)
    PROVE  \A q \in Pipelines : Recorded(q)'
<1> SUFFICES ASSUME NEW q \in Pipelines
             PROVE  Recorded(q)'
    OBVIOUS
<1>1. CASE q = p
    <2>1. actual'[q] = row /\ streak'[q] = n /\ failed'[q] = f
        BY <1>1
    <2> QED
        BY <2>1 DEF Recorded
<1>2. CASE q # p
    <2>1. actual'[q] = actual[q] /\ streak'[q] = streak[q] /\ failed'[q] = failed[q]
        BY <1>2
    <2> QED
        BY <2>1 DEF Recorded
<1> QED
    BY <1>1, <1>2

\* Every step keeps Recorded: a failure is in the status row, in the finished job
\* still in the map, or with the operation that is about to write it.
LEMMA RecordedStep ==
    OwnerInv /\ HoldInv /\ [Next]_vars => (\A q \in Pipelines : Recorded(q))'
<1> SUFFICES ASSUME OwnerInv, HoldInv, [Next]_vars
             PROVE  (\A q \in Pipelines : Recorded(q))'
    OBVIOUS
<1>0. /\ op \in Operation /\ jobs \in [Pipelines -> Revision]
      /\ actual \in [Pipelines -> ActualRow]
      /\ desired \in [Pipelines -> DesiredRow]
      /\ used \in [Pipelines -> SUBSET Revision]
      /\ failed \in [Pipelines -> BOOLEAN]
      /\ streak \in [Pipelines -> Nat] /\ lost \in Nat
      /\ ended \in [Pipelines -> {"no", "ok", "error"}]
      /\ MaxAttempts \in Nat
      /\ OwnerInv /\ HoldInv
    BY ConstantsAssumption DEF OwnerInv, TypeOK
<1>1. CASE ConvergeBegin
    BY <1>1, <1>0 DEF ConvergeBegin, OnlyOp, Idle, Finished, MayConverge,
       HoldInv, Recorded, Admitted, StartPath, OwnerInv, OperationInv,
       Operation, ActualRow, catalog, history
<1>2. CASE Reaped
    BY <1>2, <1>0 DEF Reaped, OnlyOp, HoldInv, Recorded, Admitted,
       StartPath, OwnerInv, OperationInv, Operation, ActualRow, catalog,
       history
<1>3. CASE ListDesired
    BY <1>3, <1>0 DEF ListDesired, OnlyOp, HoldInv, Recorded, Admitted,
       StartPath, OwnerInv, OperationInv, Operation, ActualRow, catalog,
       history
<1>4. CASE ConvergeEnd
    BY <1>4, <1>0 DEF ConvergeEnd, OnlyOp, Idle, HoldInv, Recorded,
       Admitted, StartPath, OwnerInv, OperationInv, Operation, ActualRow,
       catalog, history
<1>5. CASE JoinStopped
    BY <1>5, <1>0 DEF JoinStopped, Joined, HoldInv, Recorded, Admitted,
       StartPath, OwnerInv, OperationInv, Operation, ActualRow, catalog,
       history
<1>6. CASE WriteStopped
    BY <1>6, <1>0 DEF WriteStopped, Visited, WriteActual, SetActual,
       FailsAfter, BlockedAfter, HoldInv, Recorded, Admitted, StartPath,
       OwnerInv, OperationInv, Operation, ActualRow, history
<1>7. CASE JoinOld
    BY <1>7, <1>0 DEF JoinOld, Joined, HoldInv, Recorded, Admitted,
       StartPath, OwnerInv, OperationInv, Operation, ActualRow, catalog,
       history
<1>8. CASE WriteStarting
    <2> DEFINE p == op.at
               row == IF actual[p].status = "waiting" /\ actual[p].rev = op.rev
                      THEN actual[p] ELSE SetActual(actual[p], "starting", op.rev)
    <2>1. p \in Pipelines /\ op.rev \in Revision /\ "starting" \in Status
        BY <1>0 DEF Operation, Status
    <2>2. /\ row.fails = actual[p].fails /\ row.blocked = actual[p].blocked
          /\ row.status \in {"waiting", "starting"}
        BY <1>0, <2>1, NeutralRow
    <2>3. actual[p].fails < MaxAttempts
        BY <1>8, <1>0, <2>1 DEF WriteStarting, HoldInv, Admitted, Recorded, StartPath
    <2>4. WriteActual(p, row) /\ streak' = streak /\ failed' = failed
        BY <1>8 DEF WriteStarting, history
    <2> QED
        BY <1>0, <2>1, <2>2, <2>3, <2>4, WriteCases DEF HoldInv, Recorded
<1>9. CASE WriteRunning
    BY <1>9, <1>0 DEF WriteRunning, Fail, Visited, WriteActual, SetActual,
       FailsAfter, BlockedAfter, Written, HoldInv, Recorded, Admitted,
       StartPath, OwnerInv, OperationInv, Operation, ActualRow
<1>10. CASE RecordStartFailure
    <2> DEFINE p == op.at
               row == SetActual(actual[p], op.err, op.rev)
    <2>1. p \in Pipelines /\ op.rev \in Revision
        BY <1>0 DEF Operation
    <2>2. op.err \in {"waiting", "failed"}
        BY <1>10, <1>0 DEF RecordStartFailure, OwnerInv, OperationInv, Operation
    <2>3. WriteActual(p, row)
        BY <1>10 DEF RecordStartFailure
    <2>4. CASE op.err = "waiting"
        <3>1. /\ row.status = "waiting" /\ row.fails = actual[p].fails
              /\ row.blocked = actual[p].blocked
            BY <1>0, <2>1, <2>4, NeutralRow
        <3>2. actual[p].fails < MaxAttempts
            BY <1>10, <1>0, <2>1, <2>4
            DEF RecordStartFailure, HoldInv, Admitted, Recorded, StartPath
        <3>3. streak' = streak /\ failed' = failed
            BY <1>10, <2>4 DEF RecordStartFailure
        <3> QED
            BY <1>0, <2>1, <2>3, <3>1, <3>2, <3>3, WriteCases DEF HoldInv, Recorded
    <2>5. CASE op.err = "failed"
        <3>1. /\ row.status = "failed" /\ row.fails = actual[p].fails + 1
              /\ row.blocked
            BY <1>0, <2>1, <2>5, FailedRow
        <3>2. CASE Written
            <4>1. actual' = [actual EXCEPT ![p] = row]
                BY <1>0, <2>3, <3>2, WriteCases
            <4>2. /\ streak' = [streak EXCEPT ![p] = streak[p] + 1]
                  /\ failed' = [failed EXCEPT ![p] = TRUE]
                BY <1>10, <2>5, <3>2, FailureCounted
            <4>3. streak[p] + 1 \in Nat /\ row.fails = streak[p] + 1
                BY <1>0, <2>1, <3>1 DEF HoldInv, Recorded
            <4>4. \A q \in Pipelines : Recorded(q)
                BY <1>0 DEF HoldInv
            <4> QED
                BY <1>0, <2>1, <3>1, <4>1, <4>2, <4>3, <4>4, RowRecorded
        <3>3. CASE ~Written
            <4>1. actual' = actual
                BY <1>0, <2>3, <3>3, WriteCases
            <4>2. streak' = streak /\ failed' = failed
                BY <1>10, <3>3 DEF RecordStartFailure
            <4> QED
                BY <1>0, <4>1, <4>2 DEF HoldInv, Recorded
        <3> QED
            BY <3>2, <3>3
    <2> QED
        BY <2>2, <2>4, <2>5
<1>11. CASE KillJoin
    BY <1>11, <1>0 DEF KillJoin, Joined, HoldInv, Recorded, Admitted,
       StartPath, OwnerInv, OperationInv, Operation, ActualRow, catalog,
       history
<1>12. CASE KillWrite
    BY <1>12, <1>0 DEF KillWrite, Idle, WriteActual, SetActual, FailsAfter,
       BlockedAfter, HoldInv, Recorded, Admitted, StartPath, OwnerInv,
       OperationInv, Operation, ActualRow, history
<1>13. CASE StopAllBegin
    BY <1>13, <1>0 DEF StopAllBegin, Idle, HoldInv, Recorded, Admitted,
       StartPath, OwnerInv, OperationInv, Operation, ActualRow, catalog,
       history
<1>14. CASE StopAllWrite
    BY <1>14, <1>0 DEF StopAllWrite, WriteActual, SetActual, FailsAfter,
       BlockedAfter, HoldInv, Recorded, Admitted, StartPath, OwnerInv,
       OperationInv, Operation, ActualRow, history
<1>15. CASE StopAllEnd
    BY <1>15, <1>0 DEF StopAllEnd, Idle, HoldInv, Recorded, Admitted,
       StartPath, OwnerInv, OperationInv, Operation, ActualRow, catalog,
       history
<1>16. ASSUME NEW p \in Pipelines, Reap(p)
      PROVE  (\A q \in Pipelines : Recorded(q))'
    <2>1. WriteActual(p, SetActual(actual[p], IF ended[p] = "ok" THEN "completed"
                                              ELSE "failed", jobs[p]))
        BY <1>16 DEF Reap
    <2>2. CASE ~Written
        <3>1. actual' = actual
            BY <1>0, <2>1, <2>2, WriteCases
        <3>2. streak' = streak /\ failed' = failed
            BY <1>16, <2>2 DEF Reap
        <3> QED
            BY <1>0, <3>1, <3>2 DEF HoldInv, Recorded
    <2>3. CASE Written /\ ended[p] = "ok"
        <3> DEFINE row == SetActual(actual[p], "completed", jobs[p])
        <3>1. /\ streak' = [streak EXCEPT ![p] = 0]
              /\ failed' = [failed EXCEPT ![p] = FALSE]
              /\ WriteActual(p, row)
            BY <1>16, <2>3, CompletionCounted
        <3>2. actual' = [actual EXCEPT ![p] = row]
            BY <1>0, <2>3, <3>1, WriteCases
        <3>3. row.fails = 0 /\ row.status = "completed"
            BY <1>0, CompletedRow
        <3>5. 0 \in Nat /\ FALSE \in BOOLEAN /\ (FALSE => row.blocked)
            OBVIOUS
        <3>4. \A q \in Pipelines : Recorded(q)
            BY <1>0 DEF HoldInv
        <3> QED
            BY <1>0, <3>1, <3>2, <3>3, <3>4, <3>5, RowRecorded
    <2>4. CASE Written /\ ended[p] # "ok"
        <3> DEFINE row == SetActual(actual[p], "failed", jobs[p])
        <3>1. /\ streak' = [streak EXCEPT ![p] = streak[p] + 1]
              /\ failed' = [failed EXCEPT ![p] = TRUE]
              /\ WriteActual(p, row)
            BY <1>16, <2>4, JobFailureCounted
        <3>2. actual' = [actual EXCEPT ![p] = row]
            BY <1>0, <2>4, <3>1, WriteCases
        <3>3. /\ row.fails = actual[p].fails + 1 /\ row.status = "failed"
              /\ row.blocked
            BY <1>0, FailedRow
        <3>4. \A q \in Pipelines : Recorded(q)
            BY <1>0 DEF HoldInv
        <3>5. streak[p] + 1 \in Nat /\ row.fails = streak[p] + 1
            BY <1>0, <3>3, <3>4 DEF Recorded
        <3> QED
            BY <1>0, <3>1, <3>2, <3>3, <3>4, <3>5, RowRecorded
    <2> QED
        BY <2>2, <2>3, <2>4
<1>17. ASSUME NEW p \in Pipelines, VisitRunning(p)
      PROVE  (\A q \in Pipelines : Recorded(q))'
    BY <1>17, <1>0 DEF VisitRunning, Visited, Held, HoldInv, Recorded,
       Admitted, StartPath, OwnerInv, OperationInv, Operation, ActualRow,
       catalog, history
<1>18. ASSUME NEW p \in Pipelines, VisitStopped(p)
      PROVE  (\A q \in Pipelines : Recorded(q))'
    BY <1>18, <1>0 DEF VisitStopped, RemoveJob, HoldInv, Recorded, Admitted,
       StartPath, OwnerInv, OperationInv, Operation, ActualRow, catalog,
       history
<1>19. ASSUME NEW p \in Pipelines, StopAllJoin(p)
      PROVE  (\A q \in Pipelines : Recorded(q))'
    BY <1>19, <1>0 DEF StopAllJoin, Joined, HoldInv, Recorded, Admitted,
       StartPath, OwnerInv, OperationInv, Operation, ActualRow, catalog,
       history
<1>20. CASE StartInvalid
    BY <1>20, <1>0 DEF StartInvalid, OnlyOp, Fail, HoldInv, Recorded,
       Admitted, StartPath, OwnerInv, OperationInv, Operation, ActualRow,
       catalog, history
<1>21. CASE StartReplaces
    BY <1>21, <1>0 DEF StartReplaces, AfterValidate, RemoveJob, HoldInv,
       Recorded, Admitted, StartPath, OwnerInv, OperationInv, Operation,
       ActualRow, catalog, history
<1>22. CASE StartJob
    BY <1>22, <1>0 DEF StartJob, HoldInv, Recorded, Admitted, StartPath,
       OwnerInv, OperationInv, Operation, ActualRow, catalog
<1>23. ASSUME NEW how \in {"waiting", "failed"}, StartRefused(how)
      PROVE  (\A q \in Pipelines : Recorded(q))'
    BY <1>23, <1>0 DEF StartRefused, OnlyOp, Fail, HoldInv, Recorded,
       Admitted, StartPath, OwnerInv, OperationInv, Operation, ActualRow,
       catalog, history
<1>24. CASE BeginShutdown
    BY <1>24, <1>0 DEF BeginShutdown, HoldInv, Recorded, Admitted,
       StartPath, OwnerInv, OperationInv, Operation, ActualRow, catalog,
       history
<1>25. ASSUME NEW p \in Pipelines, NEW r \in 1..MaxRevision,
             RequestStart(p, r)
      PROVE  (\A q \in Pipelines : Recorded(q))'
    BY <1>25, <1>0 DEF RequestStart, Explicit, StartRow, HoldInv, Recorded,
       Admitted, StartPath, OwnerInv, OperationInv, Operation, ActualRow
<1>26. ASSUME NEW p \in Pipelines, NEW activate \in BOOLEAN,
             PutPipeline(p, activate)
      PROVE  (\A q \in Pipelines : Recorded(q))'
    BY <1>26, <1>0 DEF PutPipeline, Explicit, StartRow, HoldInv, Recorded,
       Admitted, StartPath, OwnerInv, OperationInv, Operation, ActualRow,
       history
<1>27. ASSUME NEW p \in Pipelines, RequestStop(p)
      PROVE  (\A q \in Pipelines : Recorded(q))'
    BY <1>27, <1>0 DEF RequestStop, Stopped, HoldInv, Recorded, Admitted,
       StartPath, OwnerInv, OperationInv, Operation, ActualRow, history
<1>28. ASSUME NEW p \in Pipelines, KillRequest(p)
      PROVE  (\A q \in Pipelines : Recorded(q))'
    BY <1>28, <1>0 DEF KillRequest, Stopped, HoldInv, Recorded, Admitted,
       StartPath, OwnerInv, OperationInv, Operation, ActualRow, history
<1>29. CASE CallerLeaves
    BY <1>29, <1>0 DEF CallerLeaves, OnlyOp, AfterCallerLeft, HoldInv,
       Recorded, Admitted, StartPath, OwnerInv, OperationInv, Operation,
       ActualRow, catalog, history
<1>30. CASE Exit
    BY <1>30, <1>0 DEF Exit, Idle, HoldInv, Recorded, Admitted, StartPath,
       OwnerInv, OperationInv, Operation, ActualRow, catalog, history
<1>31. CASE Boot
    <2>1. \A q \in Pipelines :
             /\ actual'[q].status = "stopped"
             /\ actual'[q].fails = actual[q].fails
             /\ actual[q].blocked => actual'[q].blocked
        BY <1>31, <1>0, BootFields DEF Boot
    <2>2. streak' = streak /\ failed' = failed
        BY <1>31 DEF Boot, history
    <2> QED
        BY <1>0, <2>1, <2>2 DEF HoldInv, Recorded
<1>32. ASSUME NEW p \in Pipelines, KillBegin(p)
      PROVE  (\A q \in Pipelines : Recorded(q))'
    BY <1>32, <1>0 DEF KillBegin, Idle, RemoveJob, HoldInv, Recorded,
       Admitted, StartPath, OwnerInv, OperationInv, Operation, ActualRow,
       catalog
<1>33. ASSUME NEW p \in Pipelines, MarkStable(p)
      PROVE  (\A q \in Pipelines : Recorded(q))'
    BY <1>33, <1>0 DEF MarkStable, Idle, WriteActual, Written, HoldInv,
       Recorded, Admitted, StartPath, OwnerInv, OperationInv, Operation,
       ActualRow
<1>34. ASSUME NEW p \in Pipelines, CatalogError(p)
      PROVE  (\A q \in Pipelines : Recorded(q))'
    BY <1>34, <1>0 DEF CatalogError, Idle, HoldInv, Recorded, Admitted,
       StartPath, OwnerInv, OperationInv, Operation, ActualRow, catalog,
       history
<1>35. ASSUME NEW p \in Pipelines, RetryElapses(p)
      PROVE  (\A q \in Pipelines : Recorded(q))'
    BY <1>35, <1>0 DEF RetryElapses, HoldInv, Recorded, Admitted, StartPath,
       OwnerInv, OperationInv, Operation, ActualRow, catalog, history
<1>36. ASSUME NEW p \in Pipelines, NEW how \in {"ok", "error"},
             JobEnds(p, how)
      PROVE  (\A q \in Pipelines : Recorded(q))'
    BY <1>36, <1>0 DEF JobEnds, HoldInv, Recorded, Admitted, StartPath,
       OwnerInv, OperationInv, Operation, ActualRow, catalog, history
<1>37. CASE UNCHANGED vars
    BY <1>37, <1>0 DEF vars, HoldInv, Recorded, Admitted, StartPath,
       OwnerInv, OperationInv, Operation, ActualRow
<1> QED
    BY <1>1, <1>2, <1>3, <1>4, <1>5, <1>6, <1>7, <1>8, <1>9, <1>10, <1>11,
       <1>12, <1>13, <1>14, <1>15, <1>16, <1>17, <1>18, <1>19, <1>20,
       <1>21, <1>22, <1>23, <1>24, <1>25, <1>26, <1>27, <1>28, <1>29,
       <1>30, <1>31, <1>32, <1>33, <1>34, <1>35, <1>36, <1>37 DEF Next,
       OperationStep, Starting, Request

\* Every step keeps Admitted: between the hold check and the start of the job
\* nobody else can write a hold.
LEMMA AdmittedStep == OwnerInv /\ HoldInv /\ [Next]_vars => Admitted'
<1> SUFFICES ASSUME OwnerInv, HoldInv, [Next]_vars
             PROVE  Admitted'
    OBVIOUS
<1>0. /\ op \in Operation /\ jobs \in [Pipelines -> Revision]
      /\ actual \in [Pipelines -> ActualRow]
      /\ desired \in [Pipelines -> DesiredRow]
      /\ used \in [Pipelines -> SUBSET Revision]
      /\ failed \in [Pipelines -> BOOLEAN]
      /\ streak \in [Pipelines -> Nat] /\ lost \in Nat
      /\ ended \in [Pipelines -> {"no", "ok", "error"}]
      /\ MaxAttempts \in Nat
      /\ OwnerInv /\ HoldInv
    BY ConstantsAssumption DEF OwnerInv, TypeOK
<1>1. CASE ConvergeBegin
    BY <1>1, <1>0 DEF ConvergeBegin, OnlyOp, Idle, Finished, MayConverge,
       HoldInv, Recorded, Admitted, StartPath, OwnerInv, OperationInv,
       RevisionsNamed, Operation, catalog, mode, history, counters
<1>2. CASE Reaped
    BY <1>2, <1>0 DEF Reaped, OnlyOp, HoldInv, Recorded, Admitted,
       StartPath, OwnerInv, OperationInv, RevisionsNamed, Operation,
       catalog, mode, history, counters
<1>3. CASE ListDesired
    BY <1>3, <1>0 DEF ListDesired, OnlyOp, HoldInv, Recorded, Admitted,
       StartPath, OwnerInv, OperationInv, RevisionsNamed, Operation,
       catalog, mode, history, counters
<1>4. CASE ConvergeEnd
    BY <1>4, <1>0 DEF ConvergeEnd, OnlyOp, Idle, HoldInv, Recorded,
       Admitted, StartPath, OwnerInv, OperationInv, RevisionsNamed,
       Operation, catalog, mode, history, counters
<1>5. CASE JoinStopped
    BY <1>5, <1>0 DEF JoinStopped, Joined, HoldInv, Recorded, Admitted,
       StartPath, OwnerInv, OperationInv, RevisionsNamed, Operation,
       catalog, mode, history, counters
<1>6. CASE WriteStopped
    BY <1>6, <1>0 DEF WriteStopped, Visited, WriteActual, SetActual,
       FailsAfter, BlockedAfter, HoldInv, Recorded, Admitted, StartPath,
       OwnerInv, OperationInv, RevisionsNamed, Operation, mode, history
<1>7. CASE JoinOld
    BY <1>7, <1>0 DEF JoinOld, Joined, HoldInv, Recorded, Admitted,
       StartPath, OwnerInv, OperationInv, RevisionsNamed, Operation,
       catalog, mode, history, counters
<1>8. CASE WriteStarting
    <2> DEFINE p == op.at
               row == IF actual[p].status = "waiting" /\ actual[p].rev = op.rev
                      THEN actual[p] ELSE SetActual(actual[p], "starting", op.rev)
    <2>1. p \in Pipelines /\ op.rev \in Revision
        BY <1>0 DEF Operation
    <2>2. row.blocked = actual[p].blocked
        BY <1>0, <2>1, NeutralRow
    <2>3. /\ WriteActual(p, row)
          /\ streak' = streak /\ used' = used /\ desired' = desired /\ safe' = safe
        BY <1>8 DEF WriteStarting, history, mode
    <2>4. CASE Written
        <3>1. op' = [op EXCEPT !.pc = "start"]
            BY <1>8, <2>4 DEF WriteStarting
        <3>2. actual' = [actual EXCEPT ![p] = row]
            BY <1>0, <2>3, <2>4, WriteCases
        <3>3. op'.pc = "start" /\ op'.at = p /\ op'.rev = op.rev /\ op'.snap = op.snap
            BY <1>0, <3>1 DEF Operation
        <3>4. actual'[p].blocked = actual[p].blocked
            BY <1>0, <2>1, <2>2, <3>2
        <3>5. lost' = lost /\ op.pc = "write_starting"
            BY <1>8, <2>4 DEF Written, WriteStarting
        <3> QED
            BY <1>0, <2>3, <3>3, <3>4, <3>5 DEF HoldInv, Admitted, StartPath
    <2>5. CASE ~Written
        <3>1. op' = [op EXCEPT !.pc = "start_failed", !.err = "failed"]
            BY <1>8, <2>5 DEF WriteStarting, Fail
        <3>2. op'.pc = "start_failed" /\ op'.err = "failed"
            BY <1>0, <3>1 DEF Operation
        <3>3. lost' # 0
            BY <1>0, <2>3, <2>5, WriteCases
        <3> QED
            BY <3>2, <3>3 DEF Admitted
    <2> QED
        BY <2>4, <2>5
<1>9. CASE WriteRunning
    <2>1. CASE Written
        <3>1. op' = Visited(op.at)
            BY <1>9, <2>1 DEF WriteRunning
        <3>2. op'.pc = "each"
            BY <1>0, <3>1 DEF Visited, Operation
        <3> QED
            BY <3>2 DEF Admitted, StartPath
    <2>2. CASE ~Written
        <3>1. op' = [op EXCEPT !.pc = "start_failed", !.err = "failed"]
            BY <1>9, <2>2 DEF WriteRunning, Fail
        <3>2. op'.pc = "start_failed" /\ op'.err = "failed"
            BY <1>0, <3>1 DEF Operation
        <3>3. WriteActual(op.at, SetActual(actual[op.at], "running", op.rev))
            BY <1>9 DEF WriteRunning
        <3>4. lost' # 0
            BY <1>0, <2>2, <3>3, WriteCases
        <3> QED
            BY <3>2, <3>4 DEF Admitted
    <2> QED
        BY <2>1, <2>2
<1>10. CASE RecordStartFailure
    BY <1>10, <1>0 DEF RecordStartFailure, Visited, WriteActual, SetActual,
       FailsAfter, BlockedAfter, Written, HoldInv, Recorded, Admitted,
       StartPath, OwnerInv, OperationInv, RevisionsNamed, Operation, mode
<1>11. CASE KillJoin
    BY <1>11, <1>0 DEF KillJoin, Joined, HoldInv, Recorded, Admitted,
       StartPath, OwnerInv, OperationInv, RevisionsNamed, Operation,
       catalog, mode, history, counters
<1>12. CASE KillWrite
    BY <1>12, <1>0 DEF KillWrite, Idle, WriteActual, SetActual, FailsAfter,
       BlockedAfter, HoldInv, Recorded, Admitted, StartPath, OwnerInv,
       OperationInv, RevisionsNamed, Operation, mode, history
<1>13. CASE StopAllBegin
    BY <1>13, <1>0 DEF StopAllBegin, Idle, HoldInv, Recorded, Admitted,
       StartPath, OwnerInv, OperationInv, RevisionsNamed, Operation,
       catalog, mode, history, counters
<1>14. CASE StopAllWrite
    BY <1>14, <1>0 DEF StopAllWrite, WriteActual, SetActual, FailsAfter,
       BlockedAfter, HoldInv, Recorded, Admitted, StartPath, OwnerInv,
       OperationInv, RevisionsNamed, Operation, mode, history
<1>15. CASE StopAllEnd
    BY <1>15, <1>0 DEF StopAllEnd, Idle, HoldInv, Recorded, Admitted,
       StartPath, OwnerInv, OperationInv, RevisionsNamed, Operation,
       catalog, history, counters
<1>16. ASSUME NEW p \in Pipelines, Reap(p)
      PROVE  Admitted'
    BY <1>16, <1>0 DEF Reap, RemoveJob, WriteActual, SetActual, FailsAfter,
       BlockedAfter, Written, HoldInv, Recorded, Admitted, StartPath,
       OwnerInv, OperationInv, RevisionsNamed, Operation, mode
<1>17. ASSUME NEW p \in Pipelines, VisitRunning(p)
      PROVE  Admitted'
    <2>1. /\ UNCHANGED <<catalog, mode, running, history, counters>>
          /\ op.pc = "each" /\ op.snap[p].status = "running"
        BY <1>17 DEF VisitRunning
    <2>2. CASE ~Held(p) /\ ~Completed(p) /\ ~Already(p) /\
               op' = [op EXCEPT !.pc = "validate", !.at = p, !.rev = op.snap[p].rev]
        <3>1. /\ op'.pc = "validate" /\ op'.at = p /\ op'.rev = op.snap[p].rev
              /\ op'.snap = op.snap
            BY <1>0, <2>2 DEF Operation
        <3>2. /\ streak' = streak /\ actual' = actual /\ used' = used
              /\ lost' = lost /\ desired' = desired /\ safe' = safe
            BY <2>1 DEF catalog, mode, history, counters
        <3>3. streak[p] < MaxAttempts
            BY <1>0, <2>2 DEF Held, HoldInv, Recorded, ActualRow
        <3>4. safe => ~actual[p].blocked
            BY <2>2 DEF Held
        <3>5. ASSUME op.snap[p].rev \in Fixed, lost = 0, desired[p] = op.snap[p]
              PROVE  op.snap[p].rev \notin used[p]
            <4>1. Latched(p) /\ Wants(p, op.snap[p].rev)
                BY <1>0, <2>1, <3>5 DEF HoldInv, Wants
            <4>2. ~Emptied
                BY <1>0, <2>1 DEF Emptied, AllPath, OwnerInv, OperationInv
            <4>3. ~actual[p].blocked
                BY <2>2, <3>5 DEF Held
            <4> QED
                BY <2>2, <3>5, <4>1, <4>2, <4>3 DEF Latched, LatchedAt, Completed, Already
        <3> QED
            BY <3>1, <3>2, <3>3, <3>4, <3>5 DEF Admitted
    <2>3. CASE op' = Visited(p)
        <3>1. op'.pc = "each"
            BY <1>0, <2>3 DEF Visited, Operation
        <3> QED
            BY <3>1 DEF Admitted, StartPath
    <2> QED
        BY <1>17, <2>2, <2>3 DEF VisitRunning
<1>18. ASSUME NEW p \in Pipelines, VisitStopped(p)
      PROVE  Admitted'
    BY <1>18, <1>0 DEF VisitStopped, RemoveJob, HoldInv, Recorded, Admitted,
       StartPath, OwnerInv, OperationInv, RevisionsNamed, Operation,
       catalog, mode, history, counters
<1>19. ASSUME NEW p \in Pipelines, StopAllJoin(p)
      PROVE  Admitted'
    BY <1>19, <1>0 DEF StopAllJoin, Joined, HoldInv, Recorded, Admitted,
       StartPath, OwnerInv, OperationInv, RevisionsNamed, Operation,
       catalog, mode, history, counters
<1>20. CASE StartInvalid
    BY <1>20, <1>0 DEF StartInvalid, OnlyOp, Fail, HoldInv, Recorded,
       Admitted, StartPath, OwnerInv, OperationInv, RevisionsNamed,
       Operation, catalog, mode, history, counters
<1>21. CASE StartReplaces
    BY <1>21, <1>0 DEF StartReplaces, AfterValidate, RemoveJob, HoldInv,
       Recorded, Admitted, StartPath, OwnerInv, OperationInv,
       RevisionsNamed, Operation, catalog, mode, history, counters
<1>22. CASE StartJob
    BY <1>22, <1>0 DEF StartJob, HoldInv, Recorded, Admitted, StartPath,
       OwnerInv, OperationInv, RevisionsNamed, Operation, catalog, mode,
       counters
<1>23. ASSUME NEW how \in {"waiting", "failed"}, StartRefused(how)
      PROVE  Admitted'
    BY <1>23, <1>0 DEF StartRefused, OnlyOp, Fail, HoldInv, Recorded,
       Admitted, StartPath, OwnerInv, OperationInv, RevisionsNamed,
       Operation, catalog, mode, history, counters
<1>24. CASE BeginShutdown
    BY <1>24, <1>0 DEF BeginShutdown, HoldInv, Recorded, Admitted,
       StartPath, OwnerInv, OperationInv, RevisionsNamed, Operation,
       catalog, history, counters
<1>25. ASSUME NEW p \in Pipelines, NEW r \in 1..MaxRevision,
             RequestStart(p, r)
      PROVE  Admitted'
    BY <1>25, <1>0 DEF RequestStart, Explicit, StartRow, HoldInv, Recorded,
       Admitted, StartPath, OwnerInv, OperationInv, RevisionsNamed,
       Operation, mode, process
<1>26. ASSUME NEW p \in Pipelines, NEW activate \in BOOLEAN,
             PutPipeline(p, activate)
      PROVE  Admitted'
    BY <1>26, <1>0 DEF PutPipeline, Explicit, StartRow, HoldInv, Recorded,
       Admitted, StartPath, OwnerInv, OperationInv, RevisionsNamed,
       Operation, mode, process, history
<1>27. ASSUME NEW p \in Pipelines, RequestStop(p)
      PROVE  Admitted'
    BY <1>27, <1>0 DEF RequestStop, Stopped, HoldInv, Recorded, Admitted,
       StartPath, OwnerInv, OperationInv, RevisionsNamed, Operation, mode,
       process, history
<1>28. ASSUME NEW p \in Pipelines, KillRequest(p)
      PROVE  Admitted'
    BY <1>28, <1>0 DEF KillRequest, Stopped, HoldInv, Recorded, Admitted,
       StartPath, OwnerInv, OperationInv, RevisionsNamed, Operation, mode,
       history
<1>29. CASE CallerLeaves
    BY <1>29, <1>0 DEF CallerLeaves, OnlyOp, AfterCallerLeft, HoldInv,
       Recorded, Admitted, StartPath, OwnerInv, OperationInv,
       RevisionsNamed, Operation, catalog, mode, history, counters
<1>30. CASE Exit
    BY <1>30, <1>0 DEF Exit, Idle, HoldInv, Recorded, Admitted, StartPath,
       OwnerInv, OperationInv, RevisionsNamed, Operation, catalog, history
<1>31. CASE Boot
    BY <1>31, <1>0 DEF Boot, Idle, BootRow, HoldInv, Recorded, Admitted,
       StartPath, OwnerInv, OperationInv, RevisionsNamed, Operation,
       history, counters
<1>32. ASSUME NEW p \in Pipelines, KillBegin(p)
      PROVE  Admitted'
    BY <1>32, <1>0 DEF KillBegin, Idle, RemoveJob, HoldInv, Recorded,
       Admitted, StartPath, OwnerInv, OperationInv, RevisionsNamed,
       Operation, catalog, mode, counters
<1>33. ASSUME NEW p \in Pipelines, MarkStable(p)
      PROVE  Admitted'
    BY <1>33, <1>0 DEF MarkStable, Idle, WriteActual, Written, HoldInv,
       Recorded, Admitted, StartPath, OwnerInv, OperationInv,
       RevisionsNamed, Operation, mode
<1>34. ASSUME NEW p \in Pipelines, CatalogError(p)
      PROVE  Admitted'
    BY <1>34, <1>0 DEF CatalogError, Idle, HoldInv, Recorded, Admitted,
       StartPath, OwnerInv, OperationInv, RevisionsNamed, Operation,
       catalog, mode, history
<1>35. ASSUME NEW p \in Pipelines, RetryElapses(p)
      PROVE  Admitted'
    BY <1>35, <1>0 DEF RetryElapses, HoldInv, Recorded, Admitted, StartPath,
       OwnerInv, OperationInv, RevisionsNamed, Operation, catalog, mode,
       history, counters
<1>36. ASSUME NEW p \in Pipelines, NEW how \in {"ok", "error"},
             JobEnds(p, how)
      PROVE  Admitted'
    BY <1>36, <1>0 DEF JobEnds, HoldInv, Recorded, Admitted, StartPath,
       OwnerInv, OperationInv, RevisionsNamed, Operation, catalog, mode,
       history, counters
<1>37. CASE UNCHANGED vars
    BY <1>37, <1>0 DEF vars, HoldInv, Recorded, Admitted, StartPath,
       OwnerInv, OperationInv, RevisionsNamed, Operation
<1> QED
    BY <1>1, <1>2, <1>3, <1>4, <1>5, <1>6, <1>7, <1>8, <1>9, <1>10, <1>11,
       <1>12, <1>13, <1>14, <1>15, <1>16, <1>17, <1>18, <1>19, <1>20,
       <1>21, <1>22, <1>23, <1>24, <1>25, <1>26, <1>27, <1>28, <1>29,
       <1>30, <1>31, <1>32, <1>33, <1>34, <1>35, <1>36, <1>37 DEF Next,
       OperationStep, Starting, Request

\* Every step keeps Latched: a revision that failed while wanted stays latched
\* until a request names it or a new one.
LEMMA LatchedStep ==
    OwnerInv /\ HoldInv /\ [Next]_vars => (\A q \in Pipelines : Latched(q))'
<1> SUFFICES ASSUME OwnerInv, HoldInv, [Next]_vars
             PROVE  (\A q \in Pipelines : Latched(q))'
    OBVIOUS
<1>0. /\ op \in Operation /\ jobs \in [Pipelines -> Revision]
      /\ actual \in [Pipelines -> ActualRow]
      /\ desired \in [Pipelines -> DesiredRow]
      /\ used \in [Pipelines -> SUBSET Revision]
      /\ failed \in [Pipelines -> BOOLEAN]
      /\ streak \in [Pipelines -> Nat] /\ lost \in Nat
      /\ ended \in [Pipelines -> {"no", "ok", "error"}]
      /\ MaxAttempts \in Nat
      /\ OwnerInv /\ HoldInv
    BY ConstantsAssumption DEF OwnerInv, TypeOK
<1>1. CASE ConvergeBegin
    BY <1>1, <1>0 DEF ConvergeBegin, OnlyOp, Idle, Finished, MayConverge,
       HoldInv, Latched, LatchedAt, Wants, Emptied, Admitted, StartPath,
       EachPath, KillPath, AllPath, OwnerInv, OperationInv, RevisionsNamed,
       Operation, catalog, mode, running, history, counters
<1>2. CASE Reaped
    BY <1>2, <1>0 DEF Reaped, OnlyOp, HoldInv, Latched, LatchedAt, Wants,
       Emptied, Admitted, StartPath, EachPath, KillPath, AllPath, OwnerInv,
       OperationInv, RevisionsNamed, Operation, catalog, mode, running,
       history, counters
<1>3. CASE ListDesired
    BY <1>3, <1>0 DEF ListDesired, OnlyOp, HoldInv, Latched, LatchedAt,
       Wants, Emptied, Admitted, StartPath, EachPath, KillPath, AllPath,
       OwnerInv, OperationInv, RevisionsNamed, Operation, catalog, mode,
       running, history, counters
<1>4. CASE ConvergeEnd
    BY <1>4, <1>0 DEF ConvergeEnd, OnlyOp, Idle, HoldInv, Latched,
       LatchedAt, Wants, Emptied, Admitted, StartPath, EachPath, KillPath,
       AllPath, OwnerInv, OperationInv, RevisionsNamed, Operation, catalog,
       mode, running, history, counters
<1>5. CASE JoinStopped
    BY <1>5, <1>0 DEF JoinStopped, Joined, HoldInv, Latched, LatchedAt,
       Wants, Emptied, Admitted, StartPath, EachPath, KillPath, AllPath,
       OwnerInv, OperationInv, RevisionsNamed, Operation, catalog, mode,
       running, history, counters
<1>6. CASE WriteStopped
    <2> SUFFICES ASSUME NEW q \in Pipelines, NEW r \in Fixed,
                        Wants(q, r)', r \in used'[q], lost' = 0
                 PROVE  LatchedAt(q, r)'
        BY DEF Latched, LatchedAt
    <2>1. /\ desired' = desired /\ used' = used /\ jobs' = jobs
          /\ op.pc = "write_stop" /\ op' = Visited(op.at)
        BY <1>6 DEF WriteStopped, history, running
    <2>2. /\ actual' = [actual EXCEPT ![op.at] = actual'[op.at]]
          /\ lost = 0
        BY <1>6, <1>0 DEF WriteStopped, WriteActual
    <2>3. LatchedAt(q, r)
        BY <1>0, <2>1, <2>2 DEF HoldInv, Latched, LatchedAt, Wants
    <2>4. q # op.at
        BY <1>0, <2>1, <2>3 DEF LatchedAt, EachPath, OwnerInv, RevisionsNamed, Wants
    <2>5. actual'[q] = actual[q]
        BY <1>0, <2>2, <2>4
    <2>6. op'.pc = "each" /\ op'.snap = op.snap
        BY <1>0, <2>1 DEF Visited, Operation
    <2>7. ~Emptied
        BY <1>0, <2>1 DEF Emptied, AllPath, OwnerInv, OperationInv
    <2> QED
        BY <2>1, <2>3, <2>5, <2>6, <2>7 DEF LatchedAt, EachPath, KillPath
<1>7. CASE JoinOld
    BY <1>7, <1>0 DEF JoinOld, Joined, HoldInv, Latched, LatchedAt, Wants,
       Emptied, Admitted, StartPath, EachPath, KillPath, AllPath, OwnerInv,
       OperationInv, RevisionsNamed, Operation, catalog, mode, running,
       history, counters
<1>8. CASE WriteStarting
    BY <1>8, <1>0 DEF WriteStarting, Fail, WriteActual, SetActual,
       FailsAfter, BlockedAfter, Written, HoldInv, Latched, LatchedAt,
       Wants, Emptied, Admitted, StartPath, EachPath, KillPath, AllPath,
       OwnerInv, OperationInv, RevisionsNamed, Operation, mode, running,
       history
<1>9. CASE WriteRunning
    <2> SUFFICES ASSUME NEW q \in Pipelines, NEW r \in Fixed,
                        Wants(q, r)', r \in used'[q], lost' = 0
                 PROVE  LatchedAt(q, r)'
        BY DEF Latched, LatchedAt
    <2>1. /\ desired' = desired /\ used' = used /\ jobs' = jobs
          /\ op.pc = "write_running"
        BY <1>9 DEF WriteRunning, running
    <2>2. WriteActual(op.at, SetActual(actual[op.at], "running", op.rev))
        BY <1>9 DEF WriteRunning
    <2>3. Written
        BY <1>0, <2>2, WriteCases
    <2>4. /\ actual' = [actual EXCEPT ![op.at] = actual'[op.at]]
          /\ lost = 0
        BY <1>0, <2>2, <2>3 DEF WriteActual, Written
    <2>5. op' = Visited(op.at)
        BY <1>9, <2>3 DEF WriteRunning
    <2>6. op'.pc = "each" /\ op'.snap = op.snap
        BY <1>0, <2>5 DEF Visited, Operation
    <2>7. LatchedAt(q, r)
        BY <1>0, <2>1, <2>4 DEF HoldInv, Latched, LatchedAt, Wants
    <2>8. ~Emptied
        BY <1>0, <2>1 DEF Emptied, AllPath, OwnerInv, OperationInv
    <2>9. CASE q = op.at
        <3>1. jobs[q] = r
            BY <1>0, <2>1, <2>7, <2>9
            DEF LatchedAt, EachPath, StartPath, OwnerInv, OperationInv,
                RevisionsNamed, Wants
        <3> QED
            BY <2>1, <2>6, <2>7, <3>1 DEF LatchedAt, EachPath, StartPath, KillPath
    <2>10. CASE q # op.at
        <3>1. actual'[q] = actual[q]
            BY <1>0, <2>4, <2>10
        <3> QED
            BY <2>1, <2>6, <2>7, <2>8, <3>1
            DEF LatchedAt, EachPath, StartPath, KillPath
    <2> QED
        BY <2>9, <2>10
<1>10. CASE RecordStartFailure
    <2> SUFFICES ASSUME NEW q \in Pipelines, NEW r \in Fixed,
                        Wants(q, r)', r \in used'[q], lost' = 0
                 PROVE  LatchedAt(q, r)'
        BY DEF Latched, LatchedAt
    <2>1. /\ desired' = desired /\ used' = used /\ jobs' = jobs
          /\ op.pc = "start_failed" /\ op' = [Visited(op.at) EXCEPT !.err = "none"]
        BY <1>10 DEF RecordStartFailure, running
    <2>2. WriteActual(op.at, SetActual(actual[op.at], op.err, op.rev))
        BY <1>10 DEF RecordStartFailure
    <2>3. /\ actual' = [actual EXCEPT ![op.at] = actual'[op.at]]
          /\ lost = 0
        BY <1>0, <2>2 DEF WriteActual
    <2>4. LatchedAt(q, r)
        BY <1>0, <2>1, <2>3 DEF HoldInv, Latched, LatchedAt, Wants
    <2>5. q # op.at
        BY <1>0, <2>1, <2>3, <2>4
        DEF LatchedAt, EachPath, StartPath, OwnerInv, RevisionsNamed, Wants, HoldInv,
            Admitted
    <2>6. actual'[q] = actual[q]
        BY <1>0, <2>3, <2>5
    <2>7. op'.pc = "each" /\ op'.snap = op.snap
        BY <1>0, <2>1 DEF Visited, Operation
    <2>8. ~Emptied
        BY <1>0, <2>1 DEF Emptied, AllPath, OwnerInv, OperationInv
    <2> QED
        BY <2>1, <2>4, <2>6, <2>7, <2>8 DEF LatchedAt, EachPath, StartPath, KillPath
<1>11. CASE KillJoin
    BY <1>11, <1>0 DEF KillJoin, Joined, HoldInv, Latched, LatchedAt, Wants,
       Emptied, Admitted, StartPath, EachPath, KillPath, AllPath, OwnerInv,
       OperationInv, RevisionsNamed, Operation, catalog, mode, running,
       history, counters
<1>12. CASE KillWrite
    BY <1>12, <1>0 DEF KillWrite, Idle, WriteActual, SetActual, FailsAfter,
       BlockedAfter, HoldInv, Latched, LatchedAt, Wants, Emptied, Admitted,
       StartPath, EachPath, KillPath, AllPath, OwnerInv, OperationInv,
       RevisionsNamed, Operation, mode, running, history
<1>13. CASE StopAllBegin
    BY <1>13, <1>0 DEF StopAllBegin, Idle, HoldInv, Latched, LatchedAt,
       Wants, Emptied, Admitted, StartPath, EachPath, KillPath, AllPath,
       OwnerInv, OperationInv, RevisionsNamed, Operation, catalog, mode,
       history, counters
<1>14. CASE StopAllWrite
    BY <1>14, <1>0 DEF StopAllWrite, WriteActual, SetActual, FailsAfter,
       BlockedAfter, HoldInv, Latched, LatchedAt, Wants, Emptied, Admitted,
       StartPath, EachPath, KillPath, AllPath, OwnerInv, OperationInv,
       RevisionsNamed, Operation, mode, running, history
<1>15. CASE StopAllEnd
    BY <1>15, <1>0 DEF StopAllEnd, Idle, HoldInv, Latched, LatchedAt, Wants,
       Emptied, Admitted, StartPath, EachPath, KillPath, AllPath, OwnerInv,
       OperationInv, RevisionsNamed, Operation, catalog, running, history,
       counters
<1>16. ASSUME NEW p \in Pipelines, Reap(p)
      PROVE  (\A q \in Pipelines : Latched(q))'
    <2> SUFFICES ASSUME NEW q \in Pipelines, NEW r \in Fixed,
                        Wants(q, r)', r \in used'[q], lost' = 0
                 PROVE  LatchedAt(q, r)'
        BY DEF Latched, LatchedAt
    <2>1. /\ desired' = desired /\ used' = used /\ op.pc = "reap"
          /\ jobs' = [jobs EXCEPT ![p] = 0] /\ jobs[p] # 0
        BY <1>16, <1>0 DEF Reap, RemoveJob, OwnerInv, OperationInv
    <2>2. op'.pc = "reap"
        BY <1>16, <1>0 DEF Reap, Operation
    <2>3. /\ WriteActual(p, SetActual(actual[p], IF ended[p] = "ok" THEN "completed"
                                                 ELSE "failed", jobs[p]))
        BY <1>16 DEF Reap
    <2>4. Written
        BY <1>0, <2>3, WriteCases
    <2>5. lost = 0
        BY <2>4 DEF Written
    <2>6. LatchedAt(q, r)
        BY <1>0, <2>1, <2>5 DEF HoldInv, Latched, LatchedAt, Wants
    <2>7. ~Emptied
        BY <1>0, <2>1 DEF Emptied, AllPath, OwnerInv, OperationInv
    <2>8. CASE q # p
        <3>1. actual'[q] = actual[q] /\ jobs'[q] = jobs[q]
            BY <1>0, <2>1, <2>3, <2>4, <2>8, WriteCases
        <3> QED
            BY <2>2, <2>6, <2>7, <3>1 DEF LatchedAt, EachPath, StartPath, KillPath
    <2>9. CASE q = p /\ ended[p] = "ok"
        <3>1. actual'[q] = SetActual(actual[p], "completed", jobs[p])
            BY <1>0, <2>3, <2>4, <2>9, WriteCases
        <3>2. jobs[p] = r /\ jobs'[q] = 0
            BY <1>0, <2>1, <2>6, <2>9 DEF LatchedAt
        <3>3. actual'[q].status = "completed" /\ actual'[q].rev = r
            BY <1>0, <3>1, <3>2, CompletedRow
        <3> QED
            BY <2>2, <3>2, <3>3 DEF LatchedAt, EachPath, StartPath, KillPath
    <2>10. CASE q = p /\ ended[p] # "ok"
        <3>1. actual'[q] = SetActual(actual[p], "failed", jobs[p])
            BY <1>0, <2>3, <2>4, <2>10, WriteCases
        <3>2. jobs'[q] = 0
            BY <1>0, <2>1, <2>10
        <3>3. actual'[q].blocked
            BY <1>0, <3>1, FailedRow
        <3> QED
            BY <2>2, <3>2, <3>3 DEF LatchedAt, EachPath, StartPath, KillPath
    <2> QED
        BY <2>8, <2>9, <2>10
<1>17. ASSUME NEW p \in Pipelines, VisitRunning(p)
      PROVE  (\A q \in Pipelines : Latched(q))'
    BY <1>17, <1>0 DEF VisitRunning, Visited, Held, HoldInv, Latched,
       LatchedAt, Wants, Emptied, Admitted, StartPath, EachPath, KillPath,
       AllPath, OwnerInv, OperationInv, RevisionsNamed, Operation, catalog,
       mode, running, history, counters
<1>18. ASSUME NEW p \in Pipelines, VisitStopped(p)
      PROVE  (\A q \in Pipelines : Latched(q))'
    BY <1>18, <1>0 DEF VisitStopped, RemoveJob, HoldInv, Latched, LatchedAt,
       Wants, Emptied, Admitted, StartPath, EachPath, KillPath, AllPath,
       OwnerInv, OperationInv, RevisionsNamed, Operation, catalog, mode,
       history, counters
<1>19. ASSUME NEW p \in Pipelines, StopAllJoin(p)
      PROVE  (\A q \in Pipelines : Latched(q))'
    BY <1>19, <1>0 DEF StopAllJoin, Joined, HoldInv, Latched, LatchedAt,
       Wants, Emptied, Admitted, StartPath, EachPath, KillPath, AllPath,
       OwnerInv, OperationInv, RevisionsNamed, Operation, catalog, mode,
       running, history, counters
<1>20. CASE StartInvalid
    BY <1>20, <1>0 DEF StartInvalid, OnlyOp, Fail, HoldInv, Latched,
       LatchedAt, Wants, Emptied, Admitted, StartPath, EachPath, KillPath,
       AllPath, OwnerInv, OperationInv, RevisionsNamed, Operation, catalog,
       mode, running, history, counters
<1>21. CASE StartReplaces
    BY <1>21, <1>0 DEF StartReplaces, AfterValidate, RemoveJob, HoldInv,
       Latched, LatchedAt, Wants, Emptied, Admitted, StartPath, EachPath,
       KillPath, AllPath, OwnerInv, OperationInv, RevisionsNamed, Operation,
       catalog, mode, history, counters
<1>22. CASE StartJob
    <2> SUFFICES ASSUME NEW q \in Pipelines, NEW r \in Fixed,
                        Wants(q, r)', r \in used'[q], lost' = 0
                 PROVE  LatchedAt(q, r)'
        BY DEF Latched, LatchedAt
    <2>1. /\ desired' = desired /\ actual' = actual /\ lost' = lost
          /\ op.pc = "start" /\ drained' = drained
          /\ jobs' = [jobs EXCEPT ![op.at] = op.rev]
          /\ used' = [used EXCEPT ![op.at] = used[op.at] \union {op.rev}]
        BY <1>22 DEF StartJob, catalog, counters, mode
    <2>2. op'.pc = "write_running" /\ op'.snap = op.snap
        BY <1>22, <1>0 DEF StartJob, Operation
    <2>3. ~Emptied
        BY <1>0, <2>1 DEF Emptied, AllPath, OwnerInv, OperationInv
    <2>4. CASE r \in used[q]
        <3>1. LatchedAt(q, r)
            BY <1>0, <2>1, <2>4 DEF HoldInv, Latched, LatchedAt, Wants
        <3>2. q # op.at
            BY <1>0, <2>1, <2>4, <3>1
            DEF LatchedAt, EachPath, StartPath, OwnerInv, RevisionsNamed, Wants,
                HoldInv, Admitted
        <3>3. jobs'[q] = jobs[q]
            BY <1>0, <2>1, <3>2
        <3> QED
            BY <2>1, <2>2, <2>3, <3>1, <3>3
            DEF LatchedAt, EachPath, StartPath, KillPath
    <2>5. CASE r \notin used[q]
        <3>1. q = op.at /\ r = op.rev /\ op.at \in Pipelines
            BY <1>0, <2>1, <2>5 DEF Operation
        <3>2. jobs'[q] = r
            BY <1>0, <2>1, <3>1
        <3>3. op.snap[q] = desired[q]
            BY <1>0, <2>1, <3>1
            DEF OwnerInv, RevisionsNamed, Wants, StartPath, Operation, DesiredRow
        <3> QED
            BY <2>1, <2>2, <3>2, <3>3 DEF LatchedAt, EachPath, StartPath, KillPath
    <2> QED
        BY <2>4, <2>5
<1>23. ASSUME NEW how \in {"waiting", "failed"}, StartRefused(how)
      PROVE  (\A q \in Pipelines : Latched(q))'
    BY <1>23, <1>0 DEF StartRefused, OnlyOp, Fail, HoldInv, Latched,
       LatchedAt, Wants, Emptied, Admitted, StartPath, EachPath, KillPath,
       AllPath, OwnerInv, OperationInv, RevisionsNamed, Operation, catalog,
       mode, running, history, counters
<1>24. CASE BeginShutdown
    BY <1>24, <1>0 DEF BeginShutdown, HoldInv, Latched, LatchedAt, Wants,
       Emptied, Admitted, StartPath, EachPath, KillPath, AllPath, OwnerInv,
       OperationInv, RevisionsNamed, Operation, catalog, running, history,
       counters
<1>25. ASSUME NEW p \in Pipelines, NEW r \in 1..MaxRevision,
             RequestStart(p, r)
      PROVE  (\A q \in Pipelines : Latched(q))'
    BY <1>25, <1>0 DEF RequestStart, Explicit, StartRow, HoldInv, Latched,
       LatchedAt, Wants, Emptied, Admitted, StartPath, EachPath, KillPath,
       AllPath, OwnerInv, OperationInv, RevisionsNamed, Operation, mode,
       running, process
<1>26. ASSUME NEW p \in Pipelines, NEW activate \in BOOLEAN,
             PutPipeline(p, activate)
      PROVE  (\A q \in Pipelines : Latched(q))'
    BY <1>26, <1>0 DEF PutPipeline, Explicit, StartRow, HoldInv, Latched,
       LatchedAt, Wants, Emptied, Admitted, StartPath, EachPath, KillPath,
       AllPath, OwnerInv, OperationInv, RevisionsNamed, Operation, mode,
       running, process, history
<1>27. ASSUME NEW p \in Pipelines, RequestStop(p)
      PROVE  (\A q \in Pipelines : Latched(q))'
    BY <1>27, <1>0 DEF RequestStop, Stopped, HoldInv, Latched, LatchedAt,
       Wants, Emptied, Admitted, StartPath, EachPath, KillPath, AllPath,
       OwnerInv, OperationInv, RevisionsNamed, Operation, mode, running,
       process, history
<1>28. ASSUME NEW p \in Pipelines, KillRequest(p)
      PROVE  (\A q \in Pipelines : Latched(q))'
    BY <1>28, <1>0 DEF KillRequest, Stopped, HoldInv, Latched, LatchedAt,
       Wants, Emptied, Admitted, StartPath, EachPath, KillPath, AllPath,
       OwnerInv, OperationInv, RevisionsNamed, Operation, mode, running,
       history
<1>29. CASE CallerLeaves
    BY <1>29, <1>0 DEF CallerLeaves, OnlyOp, AfterCallerLeft, HoldInv,
       Latched, LatchedAt, Wants, Emptied, Admitted, StartPath, EachPath,
       KillPath, AllPath, OwnerInv, OperationInv, RevisionsNamed, Operation,
       catalog, mode, running, history, counters
<1>30. CASE Exit
    BY <1>30, <1>0 DEF Exit, Idle, HoldInv, Latched, LatchedAt, Wants,
       Emptied, Admitted, StartPath, EachPath, KillPath, AllPath, OwnerInv,
       OperationInv, RevisionsNamed, Operation, catalog, history
<1>31. CASE Boot
    <2> SUFFICES ASSUME NEW q \in Pipelines, NEW r \in Fixed,
                        Wants(q, r)', r \in used'[q], lost' = 0
                 PROVE  LatchedAt(q, r)'
        BY DEF Latched, LatchedAt
    <2>1. desired' = desired /\ jobs' = jobs /\ op.pc = "exited" /\ op' = Idle
        BY <1>31 DEF Boot, running
    <2>2. /\ actual'[q] = BootRow(actual[q], desired[q])
          /\ used' = used /\ lost' = lost
        BY <1>31 DEF Boot, history, counters
    <2>3. LatchedAt(q, r)
        BY <1>0, <2>1, <2>2 DEF HoldInv, Latched, LatchedAt, Wants
    <2>4. actual'[q].blocked
        BY <1>0, <2>1, <2>2, BootFields DEF Wants
    <2>5. op'.pc = "idle"
        BY <2>1 DEF Idle
    <2> QED
        BY <2>1, <2>3, <2>4, <2>5 DEF LatchedAt, EachPath, StartPath, KillPath
<1>32. ASSUME NEW p \in Pipelines, KillBegin(p)
      PROVE  (\A q \in Pipelines : Latched(q))'
    BY <1>32, <1>0 DEF KillBegin, Idle, RemoveJob, HoldInv, Latched,
       LatchedAt, Wants, Emptied, Admitted, StartPath, EachPath, KillPath,
       AllPath, OwnerInv, OperationInv, RevisionsNamed, Operation, catalog,
       mode, counters
<1>33. ASSUME NEW p \in Pipelines, MarkStable(p)
      PROVE  (\A q \in Pipelines : Latched(q))'
    BY <1>33, <1>0 DEF MarkStable, Idle, WriteActual, Written, HoldInv,
       Latched, LatchedAt, Wants, Emptied, Admitted, StartPath, EachPath,
       KillPath, AllPath, OwnerInv, OperationInv, RevisionsNamed, Operation,
       mode
<1>34. ASSUME NEW p \in Pipelines, CatalogError(p)
      PROVE  (\A q \in Pipelines : Latched(q))'
    BY <1>34, <1>0 DEF CatalogError, Idle, HoldInv, Latched, LatchedAt,
       Wants, Emptied, Admitted, StartPath, EachPath, KillPath, AllPath,
       OwnerInv, OperationInv, RevisionsNamed, Operation, catalog, mode,
       running, history
<1>35. ASSUME NEW p \in Pipelines, RetryElapses(p)
      PROVE  (\A q \in Pipelines : Latched(q))'
    BY <1>35, <1>0 DEF RetryElapses, HoldInv, Latched, LatchedAt, Wants,
       Emptied, Admitted, StartPath, EachPath, KillPath, AllPath, OwnerInv,
       OperationInv, RevisionsNamed, Operation, catalog, mode, running,
       history, counters
<1>36. ASSUME NEW p \in Pipelines, NEW how \in {"ok", "error"},
             JobEnds(p, how)
      PROVE  (\A q \in Pipelines : Latched(q))'
    BY <1>36, <1>0 DEF JobEnds, HoldInv, Latched, LatchedAt, Wants, Emptied,
       Admitted, StartPath, EachPath, KillPath, AllPath, OwnerInv,
       OperationInv, RevisionsNamed, Operation, catalog, mode, history,
       counters
<1>37. CASE UNCHANGED vars
    BY <1>37, <1>0 DEF vars, HoldInv, Latched, LatchedAt, Wants, Emptied,
       Admitted, StartPath, EachPath, KillPath, AllPath, OwnerInv,
       OperationInv, RevisionsNamed, Operation
<1> QED
    BY <1>1, <1>2, <1>3, <1>4, <1>5, <1>6, <1>7, <1>8, <1>9, <1>10, <1>11,
       <1>12, <1>13, <1>14, <1>15, <1>16, <1>17, <1>18, <1>19, <1>20,
       <1>21, <1>22, <1>23, <1>24, <1>25, <1>26, <1>27, <1>28, <1>29,
       <1>30, <1>31, <1>32, <1>33, <1>34, <1>35, <1>36, <1>37 DEF Next,
       OperationStep, Starting, Request

-----------------------------------------------------------------------------
(* The theorems.                                                           *)

\* The state after a first boot is typed.
LEMMA InitTyped == Init => TypeOK
<1> SUFFICES ASSUME Init
             PROVE  TypeOK
    OBVIOUS
<1>1. op \in Operation
    BY IdleTyped DEF Init
<1>2. /\ latest \in [Pipelines -> 1..MaxRevision] /\ jobs \in [Pipelines -> Revision]
      /\ live \in [Pipelines -> Nat] /\ streak \in [Pipelines -> Nat]
      /\ used \in [Pipelines -> SUBSET Revision] /\ kills \subseteq Pipelines
    BY ConstantsAssumption DEF Init, Revision
<1>3. desired \in [Pipelines -> DesiredRow] /\ actual \in [Pipelines -> ActualRow]
    BY ConstantsAssumption DEF Init, Revision, Stopped, DesiredRow, ActualRow, Status
<1>4. /\ stable \in [Pipelines -> BOOLEAN] /\ failed \in [Pipelines -> BOOLEAN]
      /\ ended \in [Pipelines -> {"no", "ok", "error"}]
      /\ retry \in [Pipelines -> {"none", "scheduled", "due"}]
    BY DEF Init
<1>5. safe \in BOOLEAN /\ shutdown \in BOOLEAN /\ drained \in BOOLEAN
    BY ConstantsAssumption DEF Init
<1>6. requests \in Nat /\ killCount \in Nat /\ restarts \in Nat /\ lost \in Nat
    BY DEF Init
<1> QED
    BY <1>1, <1>2, <1>3, <1>4, <1>5, <1>6 DEF TypeOK

\* The initial state satisfies the ownership invariant.
LEMMA OwnerInit == Init => OwnerInv
<1> SUFFICES ASSUME Init
             PROVE  OwnerInv
    OBVIOUS
<1>1. op.pc = "idle" /\ ~drained
    BY DEF Init, Idle
<1>2. RevisionsNamed
    BY <1>1 DEF Init, Stopped, RevisionsNamed, EachPath, StartPath
<1>3. OperationInv
    BY <1>1 DEF OperationInv, AllPath
<1>4. \A p \in Pipelines : Owned(p)
    BY <1>1 DEF Init, Owned, Joining
<1> QED
    BY <1>2, <1>3, <1>4, InitTyped DEF OwnerInv

\* The initial state satisfies the hold invariant.
LEMMA HoldInit == Init => HoldInv
<1> SUFFICES ASSUME Init
             PROVE  HoldInv
    OBVIOUS
<1>1. Admitted
    BY DEF Init, Idle, Admitted, StartPath
<1>2. \A p \in Pipelines : Recorded(p)
    BY DEF Init, Recorded
<1>3. \A p \in Pipelines : Latched(p)
    BY DEF Init, Latched, Wants, Stopped
<1> QED
    BY <1>1, <1>2, <1>3 DEF HoldInv

\* The ownership invariant is inductive.
LEMMA OwnerStep == OwnerInv /\ [Next]_vars => OwnerInv'
BY TypeStep, NamedStep, MutexStep, OwnedStep DEF OwnerInv

\* The hold invariant is inductive, given the ownership invariant.
LEMMA HoldStep == OwnerInv /\ HoldInv /\ [Next]_vars => HoldInv'
BY AdmittedStep, RecordedStep, LatchedStep DEF HoldInv

\* Ownership of the tasks is an invariant: it is what both OneJob and
\* ShutdownIsFinal follow from.
THEOREM OwnerInvariant == Spec => []OwnerInv
BY OwnerInit, OwnerStep, PTL DEF Spec

\* The catalog rows, the map of jobs, the operation that holds the mutex and the
\* counters have their types, however many pipelines, revisions and requests
\* there are.
THEOREM TypeCorrect == Spec => []TypeOK
<1>1. OwnerInv => TypeOK
    BY DEF OwnerInv
<1> QED
    BY <1>1, OwnerInvariant, PTL

\* Two jobs of one pipeline never run at the same time, whatever is requested,
\* killed, cancelled or crashes while start_named replaces a revision.
THEOREM OneJobAtATime == Spec => []OneJob
<1>1. OwnerInv => OneJob
    <2> SUFFICES ASSUME OwnerInv, NEW p \in Pipelines
                 PROVE  live[p] <= 1
        BY DEF OneJob
    <2>1. Owned(p) /\ live[p] \in Nat /\ ended[p] \in {"no", "ok", "error"}
        BY DEF OwnerInv, TypeOK
    <2> QED
        BY <2>1 DEF Owned
<1> QED
    BY <1>1, OwnerInvariant, PTL

\* Once stop_all_inner has returned no task of any pipeline runs.
THEOREM ShutdownLeavesNothing == Spec => []ShutdownIsFinal
<1>1. OwnerInv => ShutdownIsFinal
    <2> SUFFICES ASSUME OwnerInv, drained, NEW p \in Pipelines
                 PROVE  live[p] = 0
        BY DEF ShutdownIsFinal
    <2>1. Owned(p) /\ op.pc = "idle" /\ jobs[p] = 0
        BY DEF OwnerInv, OperationInv
    <2> QED
        BY <2>1 DEF Owned, Joining
<1> QED
    BY <1>1, OwnerInvariant, PTL

\* The holds are an invariant beside the ownership: the rows agree with what
\* happened, a start under way passed the hold check with a row that no other
\* operation can have changed, and a fixed revision that ran is held back.
THEOREM HoldInvariant == Spec => [](OwnerInv /\ HoldInv)
BY OwnerInit, OwnerStep, HoldInit, HoldStep, PTL DEF Spec

\* What NoUnattendedRestart says of one step.
AttendedStep ==
    \A p \in Pipelines :
       Opens(p) /\ lost = 0 =>
          /\ op.rev \in Fixed /\ desired[p] = op.snap[p]
                => op.rev \notin used[p]
          /\ ~(safe /\ failed[p])
          /\ streak[p] < MaxAttempts

\* Every step from a state of both invariants satisfies AttendedStep.
LEMMA AttendedAction ==
    OwnerInv /\ HoldInv /\ [Next]_vars => AttendedStep
<1> SUFFICES ASSUME OwnerInv, HoldInv, NEW p \in Pipelines, Opens(p), lost = 0
             PROVE  /\ op.rev \in Fixed /\ desired[p] = op.snap[p]
                          => op.rev \notin used[p]
                    /\ ~(safe /\ failed[p])
                    /\ streak[p] < MaxAttempts
    BY DEF AttendedStep
<1>1. op.pc = "start" /\ op.at = p
    BY DEF Opens
<1>2. streak[p] < MaxAttempts
    BY <1>1 DEF HoldInv, Admitted, StartPath
<1>3. op.rev \in Fixed /\ desired[p] = op.snap[p] => op.rev \notin used[p]
    BY <1>1 DEF HoldInv, Admitted, StartPath
<1>4. safe => ~actual[p].blocked
    BY <1>1 DEF HoldInv, Admitted, StartPath
<1>5. failed[p] => actual[p].blocked
    BY DEF HoldInv, Recorded
<1>6. ~(safe /\ failed[p])
    BY <1>4, <1>5
<1> QED
    BY <1>2, <1>3, <1>6

\* Nothing starts by itself again what must not: a fixed revision opens its
\* source once per explicit start, a safe-mode process starts nothing that
\* failed, and no pipeline starts after MAX_PIPELINE_ATTEMPTS failures.
THEOREM NothingRestartsUnattended == Spec => NoUnattendedRestart
<1>1. OwnerInv /\ HoldInv /\ [Next]_vars => AttendedStep
    BY AttendedAction
<1> QED
    BY <1>1, HoldInvariant, PTL DEF Spec, NoUnattendedRestart, AttendedStep

=============================================================================
