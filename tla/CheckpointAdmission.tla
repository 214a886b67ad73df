------------------------ MODULE CheckpointAdmission ------------------------
(***************************************************************************)
(* Who may take a checkpoint of an aligned file job, and what is left when *)
(* the one who asked no longer waits.                                      *)
(*                                                                         *)
(* Callers (the API, the periodic scheduler) take the single admission of  *)
(* CheckpointControl and send it through a command channel of capacity one *)
(* to the source actor.  The actor injects the barrier and hands the       *)
(* request to a worker task, which waits for alignment and commits on the  *)
(* blocking pool.  The admission travels with the request: callers time    *)
(* out, are cancelled or go away, and the request goes on without them.    *)
(*                                                                         *)
(* The dataflow (AlignedGraph) and the store (CheckpointStore) appear here *)
(* only by their outcomes.  A deadline is an event that happens once per   *)
(* request and is then visible to everybody who looks.                     *)
(***************************************************************************)
EXTENDS Naturals, FiniteSets

CONSTANTS
  Callers,   \* those who ask for checkpoints, one request at a time each
  MaxReq     \* bound: how many admissions are ever granted

ASSUME AdmissionAssumption == MaxReq \in Nat /\ IsFiniteSet(Callers)

VARIABLES
  gate,       \* the semaphore of CheckpointControl: TRUE when free
  status,     \* CheckpointStatus: active, last_success_id, last_error
  durable,    \* the checkpoint that CURRENT names
  nextId,     \* the next checkpoint id
  req,        \* the requests admitted so far
  admitted,   \* how many
  cmd,        \* the command channel: the queued request, 0 if none
  caller,     \* what every caller waits for, and the last Ok it was given
  actor,      \* the source actor: loop, publishing, injecting, joining, ended
  cancelled,  \* the job's cancellation token
  abort       \* checkpoint_cancel

vars == <<gate, status, durable, nextId, req, admitted, cmd, caller, actor,
          cancelled, abort>>

Reqs == 1 .. MaxReq
NoReq == [pc |-> "none", id |-> 0, open |-> FALSE, late |-> FALSE,
          ok |-> FALSE, answer |-> "none"]

Init ==
  /\ gate = TRUE
  /\ status = [active |-> FALSE, last |-> 0, error |-> FALSE]
  /\ durable = 0
  /\ nextId = 1
  /\ req = [r \in Reqs |-> NoReq]
  /\ admitted = 0
  /\ cmd = 0
  /\ caller = [c \in Callers |-> [waits |-> 0, told |-> 0]]
  /\ actor = "loop"
  /\ cancelled = FALSE
  /\ abort = FALSE

At(r, pcs) == req[r].pc \in pcs
Goto(r, pc) == req' = [req EXCEPT ![r].pc = pc]
\* The request is over with an error or with its id; finish() comes next.
Ends(r, ok) == req' = [req EXCEPT ![r].pc = "finish", ![r].ok = ok]

-----------------------------------------------------------------------------
(* Callers                                                                 *)

\* try_begin takes the permit; without one the caller is told "busy".
TryBegin(c) ==
  /\ caller[c].waits = 0
  /\ ~cancelled
  /\ gate
  /\ admitted < MaxReq
  /\ gate' = FALSE
  /\ admitted' = admitted + 1
  /\ req' = [req EXCEPT ![admitted + 1] = [NoReq EXCEPT !.pc = "permit",
                                                        !.open = TRUE]]
  /\ caller' = [caller EXCEPT ![c].waits = admitted + 1]
  /\ UNCHANGED <<status, durable, nextId, cmd, actor, cancelled, abort>>

\* ... and then, under the status lock, says so.
MarkActive(r) ==
  /\ At(r, {"permit"})
  /\ status' = [status EXCEPT !.active = TRUE]
  /\ Goto(r, "admitted")
  /\ UNCHANGED <<gate, durable, nextId, admitted, cmd, caller, actor,
                 cancelled, abort>>

\* try_send: refused when the channel is full or the actor is gone, and the
\* admission is dropped with the message.
Submit(c) ==
  LET r == caller[c].waits IN
  /\ r # 0 /\ At(r, {"admitted"})
  /\ IF cmd = 0 /\ actor # "ended"
       THEN cmd' = r /\ Goto(r, "queued") /\ caller' = caller
       ELSE /\ cmd' = cmd
            /\ req' = [req EXCEPT ![r].pc = "drop", ![r].open = FALSE]
            /\ caller' = [caller EXCEPT ![c].waits = 0]
  /\ UNCHANGED <<gate, status, durable, nextId, admitted, actor, cancelled,
                 abort>>

Waiting(c) == caller[c].waits # 0 /\ ~At(caller[c].waits, {"permit", "admitted"})

\* The reply arrives, or its sender is dropped without one.
Answered(c) ==
  LET r == caller[c].waits IN
  /\ Waiting(c)
  /\ ~cancelled
  /\ req[r].answer # "none"
  /\ caller' = [caller EXCEPT ![c].waits = 0,
                  ![c].told = IF req[r].answer = "ok" THEN req[r].id ELSE @]
  /\ req' = [req EXCEPT ![r].open = FALSE]
  /\ UNCHANGED <<gate, status, durable, nextId, admitted, cmd, actor,
                 cancelled, abort>>

\* The wait ends at the deadline or when the job is cancelled ...
GivesUpCancelled(c) == Waiting(c) /\ cancelled
GivesUp(c) ==
  /\ Waiting(c)
  /\ \/ cancelled
     \/ req[caller[c].waits].late /\ req[caller[c].waits].answer = "none"

\* ... or at any time, with the future of a client that has gone.  Dropping the
\* receiver closes the reply; the admission is not touched.
WaiterReleases(c) ==
  /\ Waiting(c)
  /\ caller' = [caller EXCEPT ![c].waits = 0]
  /\ req' = [req EXCEPT ![caller[c].waits].open = FALSE]
  /\ gate' = TRUE
  /\ UNCHANGED <<status, durable, nextId, admitted, cmd, actor, cancelled,
                 abort>>
WaiterGone(c) ==
  /\ Waiting(c)
  /\ caller' = [caller EXCEPT ![c].waits = 0]
  /\ req' = [req EXCEPT ![caller[c].waits].open = FALSE]
  /\ UNCHANGED <<gate, status, durable, nextId, admitted, cmd, actor,
                 cancelled, abort>>

\* The deadline of a request passes.
Deadline(r) ==
  /\ ~At(r, {"none", "done"})
  /\ ~req[r].late
  /\ req' = [req EXCEPT ![r].late = TRUE]
  /\ UNCHANGED <<gate, status, durable, nextId, admitted, cmd, caller, actor,
                 cancelled, abort>>

-----------------------------------------------------------------------------
(* The end of an admission                                                 *)

\* finish() writes the outcome into the status.
Outcome(ok, id) == [active |-> FALSE, error |-> ~ok,
                    last |-> IF ok THEN id ELSE status.last]
FinishedIfAwaited(r) ==
  IF req[r].open THEN Outcome(req[r].ok, req[r].id)
                 ELSE [status EXCEPT !.active = FALSE]
Finished(r) == Outcome(req[r].ok, req[r].id)
Finish(r) ==
  /\ At(r, {"finish"})
  /\ status' = Finished(r)
  /\ Goto(r, "reply")
  /\ UNCHANGED <<gate, durable, nextId, admitted, cmd, caller, actor,
                 cancelled, abort>>

\* reply.send; the answer is dropped if nobody waits.
Reply(r) ==
  /\ At(r, {"reply"})
  /\ req' = [req EXCEPT ![r].pc = "release",
                        ![r].answer = IF req[r].ok THEN "ok" ELSE "error"]
  /\ UNCHANGED <<gate, status, durable, nextId, admitted, cmd, caller, actor,
                 cancelled, abort>>

\* Drop of an unfinished admission: the status first, the permit after it.
Discard(r) ==
  /\ At(r, {"drop"})
  /\ status' = Outcome(FALSE, 0)
  /\ req' = [req EXCEPT ![r].pc = "release", ![r].answer = "error"]
  /\ UNCHANGED <<gate, durable, nextId, admitted, cmd, caller, actor,
                 cancelled, abort>>

\* The admission's fields are dropped: the permit goes back.
Release(r) ==
  /\ At(r, {"release"})
  /\ gate' = TRUE
  /\ Goto(r, "done")
  /\ UNCHANGED <<status, durable, nextId, admitted, cmd, caller, actor,
                 cancelled, abort>>

-----------------------------------------------------------------------------
(* The source actor                                                        *)

\* A file batch is published into the dataflow, which may push back.
Publish ==
  /\ actor = "loop" /\ ~cancelled
  /\ actor' = "publishing"
  /\ UNCHANGED <<gate, status, durable, nextId, req, admitted, cmd, caller,
                 cancelled, abort>>
Published ==
  /\ actor = "publishing"
  /\ actor' = "loop"
  /\ UNCHANGED <<gate, status, durable, nextId, req, admitted, cmd, caller,
                 cancelled, abort>>

\* next_r.fetch_add: every attempt gets an id of its own, failed ones too.
IdAfter(id) == id + 1

\* A command whose caller has gone or whose deadline has passed is dropped;
\* any other gets a fresh id and its barrier is injected.
Take ==
  /\ actor = "loop" /\ ~cancelled
  /\ cmd # 0
  /\ cmd' = 0
  /\ IF ~req[cmd].open \/ req[cmd].late
       THEN Goto(cmd, "drop") /\ UNCHANGED <<nextId, actor>>
       ELSE /\ req' = [req EXCEPT ![cmd].pc = "inject", ![cmd].id = nextId]
            /\ nextId' = IdAfter(nextId)
            /\ actor' = "injecting"
  /\ UNCHANGED <<gate, status, durable, admitted, caller, cancelled, abort>>

Injected(r) ==
  /\ At(r, {"inject"})
  /\ actor' = "loop"
  /\ Goto(r, "align")
  /\ UNCHANGED <<gate, status, durable, nextId, admitted, cmd, caller,
                 cancelled, abort>>

\* Reading the position fails, the barrier cannot be sent, or the deadline
\* passes while the channel pushes back.
InjectFails(r) ==
  /\ At(r, {"inject"})
  /\ actor' = "loop"
  /\ Ends(r, FALSE)
  /\ UNCHANGED <<gate, status, durable, nextId, admitted, cmd, caller,
                 cancelled, abort>>

\* Leaving the loop drops the request whose barrier is being injected.
Dropped == [r \in Reqs |-> IF At(r, {"inject"})
                             THEN [req[r] EXCEPT !.pc = "drop"] ELSE req[r]]

\* Cancellation is seen in the loop, in a publish and in an injection.
SeesCancelInLoop == {"loop"}
SeesCancelIn == {"loop", "publishing", "injecting"}
ActorCancelled ==
  /\ cancelled
  /\ actor \in SeesCancelIn
  /\ actor' = "joining"
  /\ req' = Dropped
  /\ UNCHANGED <<gate, status, durable, nextId, admitted, cmd, caller,
                 cancelled, abort>>

\* The file ends, or something fails; only a failure aborts the worker.
ActorLeaves(fails) ==
  /\ actor \in {"loop", "publishing"} \/ (fails /\ actor = "injecting")
  /\ actor' = "joining"
  /\ abort' = (abort \/ fails)
  /\ req' = Dropped
  /\ UNCHANGED <<gate, status, durable, nextId, admitted, cmd, caller,
                 cancelled>>

\* The actor waits for its workers, then drops the channel and what is in it.
InWorker(r) == At(r, {"align", "commit", "finish", "reply", "release", "drop"})
               /\ req[r].id # 0
NotJoined == TRUE
Joined == \A r \in Reqs : ~InWorker(r)
ActorEnds ==
  /\ actor = "joining"
  /\ Joined
  /\ actor' = "ended"
  /\ cmd' = 0
  /\ IF cmd = 0 THEN req' = req ELSE Goto(cmd, "drop")
  /\ UNCHANGED <<gate, status, durable, nextId, admitted, caller, cancelled,
                 abort>>

-----------------------------------------------------------------------------
(* The worker                                                              *)

Aligned(r) ==
  /\ At(r, {"align"})
  /\ ~abort
  /\ Goto(r, "commit")
  /\ UNCHANGED <<gate, status, durable, nextId, admitted, cmd, caller, actor,
                 cancelled, abort>>

\* A participant refuses, or the deadline passes.
AlignError(r) ==
  /\ At(r, {"align"})
  /\ Ends(r, FALSE)
  /\ UNCHANGED <<gate, status, durable, nextId, admitted, cmd, caller, actor,
                 cancelled, abort>>
TimedOutNever(r) == FALSE /\ UNCHANGED vars
TimedOut(r) == req[r].late /\ AlignError(r)
AlignFails(r) == AlignError(r)

AlignAborted(r) ==
  /\ At(r, {"align"})
  /\ abort
  /\ Goto(r, "drop")
  /\ UNCHANGED <<gate, status, durable, nextId, admitted, cmd, caller, actor,
                 cancelled, abort>>

\* The blocking commit: nothing cancels it once it is under way.
CommittedReplies(r) ==
  /\ At(r, {"commit"})
  /\ durable' = req[r].id
  /\ req' = [req EXCEPT ![r].pc = "reply", ![r].ok = TRUE]
  /\ UNCHANGED <<gate, status, nextId, admitted, cmd, caller, actor,
                 cancelled, abort>>
Committed(r) ==
  /\ At(r, {"commit"})
  /\ durable' = req[r].id
  /\ Ends(r, TRUE)
  /\ UNCHANGED <<gate, status, nextId, admitted, cmd, caller, actor,
                 cancelled, abort>>

\* An error of the commit; when only the last sync of the directory failed,
\* CURRENT already names the new checkpoint.
CommitFails(r) ==
  /\ At(r, {"commit"})
  /\ durable' \in {durable, req[r].id}
  /\ Ends(r, FALSE)
  /\ UNCHANGED <<gate, status, nextId, admitted, cmd, caller, actor,
                 cancelled, abort>>

\* stop_job or a failing stage cancels the job and, as its child token,
\* checkpoint_cancel.
Cancel ==
  /\ ~cancelled
  /\ cancelled' = TRUE
  /\ abort' = TRUE
  /\ UNCHANGED <<gate, status, durable, nextId, req, admitted, cmd, caller,
                 actor>>

-----------------------------------------------------------------------------
Next ==
  \/ \E c \in Callers :
       TryBegin(c) \/ Submit(c) \/ Answered(c) \/ WaiterGone(c)
  \/ \E r \in Reqs :
       \/ MarkActive(r) \/ Deadline(r) \/ Finish(r) \/ Reply(r)
       \/ Discard(r) \/ Release(r)
       \/ Injected(r) \/ InjectFails(r)
       \/ Aligned(r) \/ AlignFails(r) \/ TimedOut(r) \/ AlignAborted(r)
       \/ Committed(r) \/ CommitFails(r)
  \/ Publish \/ Published \/ Take \/ ActorCancelled
  \/ \E fails \in BOOLEAN : ActorLeaves(fails)
  \/ ActorEnds
  \/ Cancel

Spec == Init /\ [][Next]_vars

\* Deadlines pass, the blocking commit ends, and a task that can go on does.
\* Nothing is assumed of the dataflow: a barrier may never get into a full
\* channel, alignment may never come, and a batch may never be published.
Fairness ==
  /\ \A c \in Callers :
       /\ WF_vars(Submit(c)) /\ WF_vars(Answered(c))
       /\ WF_vars(GivesUp(c) /\ WaiterGone(c))
  /\ \A r \in Reqs :
       /\ WF_vars(MarkActive(r)) /\ WF_vars(Deadline(r))
       /\ WF_vars(Finish(r)) /\ WF_vars(Reply(r))
       /\ WF_vars(Discard(r)) /\ WF_vars(Release(r))
       /\ WF_vars(req[r].late /\ InjectFails(r))
       /\ WF_vars(TimedOut(r)) /\ WF_vars(AlignAborted(r))
       /\ WF_vars(Committed(r) \/ CommitFails(r))
  /\ WF_vars(ActorCancelled)
  /\ WF_vars(ActorEnds)

FairSpec == Spec /\ Fairness

-----------------------------------------------------------------------------
(* Properties                                                              *)

Pcs == {"none", "permit", "admitted", "queued", "inject", "align", "commit",
        "finish", "reply", "release", "drop", "done"}

ReqRecord == [pc : Pcs, id : 0 .. MaxReq, open : BOOLEAN, late : BOOLEAN,
              ok : BOOLEAN, answer : {"none", "ok", "error"}]

\* Every variable of the admission keeps its type.
TypeOK ==
  /\ gate \in BOOLEAN
  /\ status \in [active : BOOLEAN, last : 0 .. MaxReq, error : BOOLEAN]
  /\ durable \in 0 .. MaxReq
  /\ nextId \in 1 .. MaxReq + 1
  /\ req \in [Reqs -> ReqRecord]
  /\ admitted \in 0 .. MaxReq
  /\ cmd \in 0 .. MaxReq
  /\ caller \in [Callers -> [waits : 0 .. MaxReq, told : 0 .. MaxReq]]
  /\ actor \in {"loop", "publishing", "injecting", "joining", "ended"}
  /\ cancelled \in BOOLEAN
  /\ abort \in BOOLEAN

Live(r) == ~At(r, {"none", "done"})

\* At most one request exists, and the gate is closed as long as it does:
\* neither a timed-out caller nor a retry can put a second attempt beside one
\* that is still aligning or committing.
OneAdmission ==
  \A r \in Reqs : Live(r) => ~gate /\ \A q \in Reqs : Live(q) => q = r

\* A caller whose wait timed out is told to inspect the status before it tries
\* again.  It says "active" for as long as the request is worked on, and once
\* the gate is open again it names the checkpoint of CURRENT, a late commit that
\* nobody waited for included, or reports the error that left this open.
StatusIsTruth ==
  /\ \A r \in Reqs : At(r, {"admitted", "queued", "inject", "align", "commit"})
       => status.active
  /\ gate => ~status.active /\ (status.last = durable \/ status.error)

\* A caller who was told Ok(id) finds that checkpoint, or a later one, published
\* and in the status.
OkIsDurable ==
  \A c \in Callers : caller[c].told <= durable /\ caller[c].told <= status.last

\* When the source task has ended no commit is under way, so the supervisor may
\* start the next attempt on the same store.
EndedMeansQuiet ==
  actor = "ended" => \A r \in Reqs : ~At(r, {"inject", "align", "commit"})

\* A stop always completes, however the dataflow pushes back.
StopCompletes == cancelled ~> actor = "ended"

\* An attempt under way never keeps the gate for good: deadline and drop lead
\* every request the actor has taken back to an open gate.
GateReopens ==
  \A r \in Reqs : At(r, {"inject", "align", "commit"}) ~> At(r, {"done"})

\* Every caller gets an answer or gives up.
CallersReturn == \A c \in Callers : caller[c].waits # 0 ~> caller[c].waits = 0
=============================================================================
