---------------------- MODULE CheckpointAdmissionProofs ----------------------
(***************************************************************************)
(* Theorems about CheckpointAdmission, for any callers and any number of   *)
(* requests.                                                               *)
(***************************************************************************)
EXTENDS CheckpointAdmission, Integers, TLAPS

\* The counters: an id is handed out at most once per admission, everything
\* published has one, the status never names more than is published, and it is
\* behind only while a request is on its way to finish() or after an error.
Counters ==
  /\ nextId <= admitted + 1
  /\ durable < nextId
  /\ status.last <= durable
  /\ (\A r \in Reqs : ~At(r, {"finish"})) => status.last = durable \/ status.error
  /\ gate => ~status.active
  /\ \A c \in Callers : caller[c].told <= status.last

\* What holds of a request wherever it stands: which ids it may have, that the
\* command channel and the actor hold it only there, and what the status and
\* CURRENT say of it.
ReqOk(r) ==
  /\ Live(r) => r <= admitted
  /\ At(r, {"permit", "admitted", "queued"}) => nextId <= r
  /\ At(r, {"inject", "align", "commit"}) =>
       durable < req[r].id /\ req[r].id < nextId /\ actor # "ended"
  /\ At(r, {"inject"}) => actor = "injecting"
  /\ cmd = r => At(r, {"queued"})
  /\ At(r, {"finish"}) /\ req[r].ok => req[r].id = durable
  /\ At(r, {"reply"}) /\ req[r].ok => req[r].id <= status.last
  /\ req[r].answer = "ok" => req[r].id <= status.last
  /\ At(r, {"permit", "admitted", "queued"}) => req[r].answer = "none"
  /\ At(r, {"admitted", "queued", "inject", "align", "commit"}) => status.active
  /\ At(r, {"reply", "release"}) => ~status.active

\* The inductive invariant.
AdmissionInv ==
  /\ TypeOK
  /\ OneAdmission
  /\ Counters
  /\ \A r \in Reqs : ReqOk(r)

\* The record of a request that does not exist yet is one of a request.
LEMMA NoReqType == NoReq \in ReqRecord
<1>1. 0 \in 0 .. MaxReq
    BY AdmissionAssumption
<1> QED
    BY <1>1 DEF NoReq, ReqRecord, Pcs

\* A freshly started job satisfies it.
LEMMA AdmissionInit == Init => AdmissionInv
<1> SUFFICES ASSUME Init PROVE AdmissionInv
    OBVIOUS
<1>1. TypeOK
    <2>1. 0 \in 0 .. MaxReq /\ 1 \in 1 .. MaxReq + 1
        BY AdmissionAssumption
    <2>3. req \in [Reqs -> ReqRecord]
        BY NoReqType DEF Init
    <2>4. status \in [active : BOOLEAN, last : 0 .. MaxReq, error : BOOLEAN]
        BY <2>1 DEF Init
    <2>5. caller \in [Callers -> [waits : 0 .. MaxReq, told : 0 .. MaxReq]]
        BY <2>1 DEF Init
    <2> QED
        BY <2>1, <2>3, <2>4, <2>5 DEF Init, TypeOK
<1>2. \A r \in Reqs : req[r].pc = "none" /\ req[r].answer = "none"
    BY DEF Init, NoReq
<1>3. \A r \in Reqs : cmd # r
    BY AdmissionAssumption DEF Init, Reqs
<1> QED
    BY <1>1, <1>2, <1>3 DEF Init, AdmissionInv, OneAdmission, Counters, ReqOk, At, Live

-----------------------------------------------------------------------------
(* What a step does to the requests, field by field.                       *)

Others(r) == \A q \in Reqs : q # r => req'[q] = req[q]
Became(r, pc, id, ok, answer) ==
  /\ req'[r].pc = pc /\ req'[r].id = id
  /\ req'[r].ok = ok /\ req'[r].answer = answer

\* Replacing one request keeps the type and the other requests.
LEMMA Replaced ==
  ASSUME TypeOK, NEW r \in Reqs, NEW x \in ReqRecord,
         req' = [req EXCEPT ![r] = x]
  PROVE  req' \in [Reqs -> ReqRecord] /\ Others(r) /\ req'[r] = x
    BY DEF TypeOK, Others

\* The record of a request stays one when its state and its outcome are set,
LEMMA OutcomeSet ==
  ASSUME NEW x \in ReqRecord, NEW p \in Pcs, NEW k \in BOOLEAN
  PROVE  [x EXCEPT !.pc = p, !.ok = k] \in ReqRecord
    BY DEF ReqRecord
\* when its state and its answer are set,
LEMMA AnswerSet ==
  ASSUME NEW x \in ReqRecord, NEW p \in Pcs, NEW a \in {"none", "ok", "error"}
  PROVE  [x EXCEPT !.pc = p, !.answer = a] \in ReqRecord
    BY DEF ReqRecord
\* when its caller goes away or its deadline passes,
LEMMA OpenSet ==
  ASSUME NEW x \in ReqRecord, NEW p \in Pcs, NEW b \in BOOLEAN
  PROVE  /\ [x EXCEPT !.pc = p, !.open = b] \in ReqRecord
         /\ [x EXCEPT !.open = b] \in ReqRecord
         /\ [x EXCEPT !.late = b] \in ReqRecord
    BY DEF ReqRecord
\* and when the actor gives it an id.
LEMMA IdSet ==
  ASSUME NEW x \in ReqRecord, NEW p \in Pcs, NEW i \in 0 .. MaxReq
  PROVE  [x EXCEPT !.pc = p, !.id = i] \in ReqRecord
    BY DEF ReqRecord

\* Goto moves one request on and leaves its other fields alone.
LEMMA Moved ==
  ASSUME TypeOK, NEW r \in Reqs, NEW p \in Pcs, Goto(r, p)
  PROVE  /\ req' \in [Reqs -> ReqRecord]
         /\ Others(r)
         /\ Became(r, p, req[r].id, req[r].ok, req[r].answer)
<1> DEFINE x == [req[r] EXCEPT !.pc = p]
<1>1. x \in ReqRecord
    BY DEF ReqRecord, TypeOK
<1>2. req' = [req EXCEPT ![r] = x]
    BY DEF Goto
<1> HIDE DEF x
<1>3. req' \in [Reqs -> ReqRecord] /\ Others(r) /\ req'[r] = x
    BY <1>1, <1>2, Replaced
<1> QED
    BY <1>3 DEF x, Became, TypeOK, ReqRecord

\* Ends takes one request to finish() with its outcome.
LEMMA Ended ==
  ASSUME TypeOK, NEW r \in Reqs, NEW ok \in BOOLEAN, Ends(r, ok)
  PROVE  /\ req' \in [Reqs -> ReqRecord]
         /\ Others(r)
         /\ Became(r, "finish", req[r].id, ok, req[r].answer)
<1> DEFINE x == [req[r] EXCEPT !.pc = "finish", !.ok = ok]
<1>0. "finish" \in Pcs /\ req[r] \in ReqRecord
    BY DEF Pcs, TypeOK
<1>1. x \in ReqRecord
    BY <1>0, OutcomeSet
<1>2. req' = [req EXCEPT ![r] = x]
    BY DEF Ends
<1> HIDE DEF x
<1>3. req' \in [Reqs -> ReqRecord] /\ Others(r) /\ req'[r] = x
    BY <1>1, <1>2, Replaced
<1> QED
    BY <1>3 DEF x, Became, TypeOK, ReqRecord

\* Ids of the states of a request that the cases below move to.
LEMMA PcsHold ==
  /\ "admitted" \in Pcs /\ "queued" \in Pcs /\ "inject" \in Pcs
  /\ "align" \in Pcs /\ "commit" \in Pcs /\ "reply" \in Pcs
  /\ "release" \in Pcs /\ "drop" \in Pcs /\ "done" \in Pcs
  /\ "permit" \in Pcs
    BY DEF Pcs

-----------------------------------------------------------------------------
(* The steps.                                                              *)

\* A step that moves the live request r: the others are over or not begun, so
\* only r and the counters have to be looked at.
LEMMA MoveKeeps ==
  ASSUME AdmissionInv, TypeOK', NEW r \in Reqs, Live(r), Others(r),
         gate' = gate \/ ~Live(r)',
         cmd' = cmd \/ cmd' = r \/ cmd' \notin Reqs,
         status.last <= status'.last,
         Counters', ReqOk(r)'
  PROVE  AdmissionInv'
<1> USE DEF At, Live, Others
<1>1. \A q \in Reqs : q # r => ~Live(q) /\ ~Live(q)' /\ ReqOk(q)
    BY DEF AdmissionInv, OneAdmission
<1>2. OneAdmission'
    BY <1>1 DEF AdmissionInv, OneAdmission
<1>3. ASSUME NEW q \in Reqs, q # r
      PROVE  ReqOk(q)'
    <2>1. req'[q] = req[q] /\ req[q].pc \in {"none", "done"}
        BY <1>1, <1>3
    <2>2. cmd # q /\ cmd' # q
        BY <1>1, <1>3, <2>1 DEF ReqOk
    <2>3. req[q].answer = "ok" => req[q].id <= status'.last
        <3>1. req[q].id \in Int /\ status.last \in Int /\ status'.last \in Int
            BY <1>3 DEF AdmissionInv, TypeOK, ReqRecord
        <3> QED
            BY <1>1, <1>3, <3>1 DEF ReqOk
    <2> QED
        BY <2>1, <2>2, <2>3 DEF ReqOk
<1> QED
    BY <1>2, <1>3 DEF AdmissionInv

\* Taking the permit: the gate was open, so no other request is live.
LEMMA TryBeginKeeps ==
  ASSUME AdmissionInv, NEW c \in Callers, TryBegin(c)
  PROVE  AdmissionInv'
<1> DEFINE x == [NoReq EXCEPT !.pc = "permit", !.open = TRUE]
<1>0. TypeOK
    BY DEF AdmissionInv
<1>1. PICK r \in Reqs : r = admitted + 1
    BY <1>0, AdmissionAssumption DEF TryBegin, TypeOK, Reqs
<1>2. x \in ReqRecord
    BY NoReqType, PcsHold, OpenSet
<1>3. req' = [req EXCEPT ![r] = x]
    BY <1>1 DEF TryBegin
<1>4. x.pc = "permit" /\ x.answer = "none"
    BY DEF NoReq
<1> HIDE DEF x
<1>5. /\ req' \in [Reqs -> ReqRecord] /\ Others(r)
      /\ req'[r].pc = "permit" /\ req'[r].answer = "none"
    BY <1>0, <1>1, <1>2, <1>3, <1>4, Replaced
<1>6. /\ caller' \in [Callers -> [waits : 0 .. MaxReq, told : 0 .. MaxReq]]
      /\ \A d \in Callers : caller'[d].told = caller[d].told
    BY <1>0, <1>1, AdmissionAssumption DEF TryBegin, TypeOK, Reqs
<1>7. TypeOK'
    BY <1>0, <1>1, <1>5, <1>6, AdmissionAssumption DEF TryBegin, TypeOK, Reqs
<1>8. /\ gate /\ ~gate' /\ admitted' = r
      /\ UNCHANGED <<status, durable, nextId, cmd, actor>>
    BY <1>1 DEF TryBegin
<1>9. admitted \in Int /\ nextId \in Int /\ r \in Int
    BY <1>0, <1>1, AdmissionAssumption DEF TypeOK
<1> USE DEF AdmissionInv, Others, At, Live
<1>10. \A q \in Reqs : ~Live(q)
    BY <1>8 DEF OneAdmission
<1>11. OneAdmission'
    BY <1>1, <1>5, <1>8, <1>10 DEF OneAdmission
<1>12. Counters'
    BY <1>1, <1>5, <1>6, <1>8, <1>9, <1>10 DEF Counters
<1>13. \A q \in Reqs : cmd # q
    BY <1>10 DEF ReqOk
<1>14. ReqOk(r)'
    BY <1>1, <1>5, <1>8, <1>9, <1>13 DEF ReqOk, Counters
<1>15. \A q \in Reqs : q # r => ReqOk(q)'
    BY <1>5, <1>8, <1>10, <1>13 DEF ReqOk
<1> QED
    BY <1>7, <1>11, <1>12, <1>14, <1>15

\* The numbers of a typed state are integers.
LEMMA Numbers ==
  ASSUME TypeOK
  PROVE  /\ nextId \in Int /\ durable \in Int /\ admitted \in Int
         /\ status.last \in Int
         /\ \A r \in Reqs : r \in Int /\ req[r].id \in Int
         /\ \A c \in Callers : caller[c].told \in Int
<1>1. \A r \in Reqs : req[r].id \in 0 .. MaxReq
    BY DEF TypeOK, ReqRecord
<1>2. \A c \in Callers : caller[c].told \in 0 .. MaxReq
    BY DEF TypeOK
<1>3. status.last \in 0 .. MaxReq
    BY DEF TypeOK
<1> QED
    BY <1>1, <1>2, <1>3, AdmissionAssumption DEF TypeOK, Reqs

\* A step that leaves every request where it is, with its id and its outcome.
Same(q) ==
  /\ req'[q].pc = req[q].pc /\ req'[q].id = req[q].id
  /\ req'[q].ok = req[q].ok /\ req'[q].answer = req[q].answer

\* Such a step keeps the invariant: deadlines, answers and the actor's own work
\* do not disturb a request.
LEMMA QuietKeeps ==
  ASSUME AdmissionInv, TypeOK',
         \A q \in Reqs : Same(q),
         UNCHANGED <<gate, status, durable, nextId, admitted, cmd>>,
         \/ actor' = actor
         \/ actor' # "ended" /\ \A q \in Reqs : ~At(q, {"inject"}),
         \A c \in Callers : caller'[c].told <= status.last
  PROVE  AdmissionInv'
<1> USE DEF AdmissionInv, At, Live, Same
<1>1. OneAdmission'
    BY DEF OneAdmission
<1>2. Counters'
    BY DEF Counters
<1>3. ASSUME NEW q \in Reqs PROVE ReqOk(q)'
    <2>1. ReqOk(q) /\ Same(q)
        BY <1>3
    <2> QED
        BY <2>1 DEF ReqOk
<1> QED
    BY <1>1, <1>2, <1>3

\* Where the callers go: a caller that is answered has been told an id that is
\* in the status.
LEMMA AnsweredKeeps ==
  ASSUME AdmissionInv, NEW c \in Callers, Answered(c) \/ WaiterGone(c)
  PROVE  AdmissionInv'
<1> DEFINE x == [req[caller[c].waits] EXCEPT !.open = FALSE]
<1>0. TypeOK /\ Counters /\ \A q \in Reqs : ReqOk(q)
    BY DEF AdmissionInv
<1>1. PICK r \in Reqs : r = caller[c].waits
    BY <1>0, AdmissionAssumption DEF Answered, WaiterGone, Waiting, TypeOK, Reqs
<1>2. req' = [req EXCEPT ![r] = x]
    BY <1>1 DEF Answered, WaiterGone
<1>3. x \in ReqRecord
    <2>1. req[r] \in ReqRecord
        BY <1>0 DEF TypeOK
    <2> QED
        BY <1>1, <2>1, PcsHold, OpenSet
<1>4. /\ x.pc = req[r].pc /\ x.id = req[r].id
      /\ x.ok = req[r].ok /\ x.answer = req[r].answer
    BY <1>0, <1>1 DEF TypeOK, ReqRecord
<1> HIDE DEF x
<1>5. req' \in [Reqs -> ReqRecord] /\ Others(r) /\ req'[r] = x
    BY <1>0, <1>2, <1>3, Replaced
<1>6. \A q \in Reqs : Same(q)
    BY <1>4, <1>5 DEF Others, Same
<1>7. /\ caller' \in [Callers -> [waits : 0 .. MaxReq, told : 0 .. MaxReq]]
      /\ \A d \in Callers : caller'[d].told <= status.last
    <2>1. req[r].id \in 0 .. MaxReq /\ 0 \in 0 .. MaxReq
        BY <1>0, AdmissionAssumption DEF TypeOK, ReqRecord
    <2>2. \A d \in Callers : caller[d].told <= status.last
        BY <1>0 DEF Counters
    <2>3. req[r].answer = "ok" => req[r].id <= status.last
        BY <1>0 DEF ReqOk
    <2>4. CASE Answered(c)
        BY <1>0, <1>1, <2>1, <2>2, <2>3, <2>4 DEF Answered, TypeOK
    <2>5. CASE WaiterGone(c)
        BY <1>0, <2>1, <2>2, <2>5 DEF WaiterGone, TypeOK
    <2> QED
        BY <2>4, <2>5
<1>8. UNCHANGED <<gate, status, durable, nextId, admitted, cmd, actor,
                  cancelled, abort>>
    BY DEF Answered, WaiterGone
<1>9. TypeOK'
    BY <1>0, <1>5, <1>7, <1>8 DEF TypeOK
<1> QED
    BY <1>6, <1>7, <1>8, <1>9, QuietKeeps

\* A deadline passes.
LEMMA DeadlineKeeps ==
  ASSUME AdmissionInv, NEW r \in Reqs, Deadline(r)
  PROVE  AdmissionInv'
<1> DEFINE x == [req[r] EXCEPT !.late = TRUE]
<1>0. TypeOK /\ Counters
    BY DEF AdmissionInv
<1>1. x \in ReqRecord
    <2>1. req[r] \in ReqRecord
        BY <1>0 DEF TypeOK
    <2> QED
        BY <2>1, PcsHold, OpenSet
<1>2. /\ x.pc = req[r].pc /\ x.id = req[r].id
      /\ x.ok = req[r].ok /\ x.answer = req[r].answer
    BY <1>0 DEF TypeOK, ReqRecord
<1>3. req' = [req EXCEPT ![r] = x]
    BY DEF Deadline
<1> HIDE DEF x
<1>4. req' \in [Reqs -> ReqRecord] /\ Others(r) /\ req'[r] = x
    BY <1>0, <1>1, <1>3, Replaced
<1>5. \A q \in Reqs : Same(q)
    BY <1>2, <1>4 DEF Others, Same
<1>6. UNCHANGED <<gate, status, durable, nextId, admitted, cmd, caller, actor,
                  cancelled, abort>>
    BY DEF Deadline
<1>7. TypeOK'
    BY <1>0, <1>4, <1>6 DEF TypeOK
<1> QED
    BY <1>0, <1>5, <1>6, <1>7, QuietKeeps DEF Counters

\* The steps that touch no request.
LEMMA IdleKeeps ==
  ASSUME AdmissionInv, Publish \/ Published \/ Cancel \/ UNCHANGED vars
  PROVE  AdmissionInv'
<1>0. TypeOK /\ Counters
    BY DEF AdmissionInv
<1>1. /\ UNCHANGED <<gate, status, durable, nextId, req, admitted, cmd, caller>>
      /\ cancelled' \in BOOLEAN /\ abort' \in BOOLEAN
    BY <1>0 DEF Publish, Published, Cancel, vars, TypeOK
<1>2. \/ actor' = actor
      \/ actor' \in {"loop", "publishing"} /\ \A q \in Reqs : ~At(q, {"inject"})
    BY DEF Publish, Published, Cancel, vars, AdmissionInv, ReqOk
<1>3. TypeOK'
    BY <1>0, <1>1, <1>2 DEF TypeOK
<1>4. \A q \in Reqs : Same(q)
    BY <1>1 DEF Same
<1> QED
    BY <1>0, <1>1, <1>2, <1>3, <1>4, QuietKeeps DEF Counters

-----------------------------------------------------------------------------
(* Steps of the request itself.                                            *)

\* The permit is held, so the status may say "active".
LEMMA MarkActiveKeeps ==
  ASSUME AdmissionInv, NEW r \in Reqs, MarkActive(r)
  PROVE  AdmissionInv'
<1>0. TypeOK /\ Counters /\ OneAdmission /\ \A q \in Reqs : ReqOk(q)
    BY DEF AdmissionInv
<1>1. /\ req' \in [Reqs -> ReqRecord] /\ Others(r)
      /\ Became(r, "admitted", req[r].id, req[r].ok, req[r].answer)
    BY <1>0, Moved, PcsHold DEF MarkActive
<1>2. /\ status' \in [active : BOOLEAN, last : 0 .. MaxReq, error : BOOLEAN]
      /\ status'.last = status.last /\ status'.active
      /\ status'.error = status.error
    BY <1>0 DEF MarkActive, TypeOK
<1>3. /\ UNCHANGED <<gate, durable, nextId, admitted, cmd, caller, actor,
                     cancelled, abort>>
      /\ req[r].pc = "permit"
    BY DEF MarkActive, At
<1>4. TypeOK'
    BY <1>0, <1>1, <1>2, <1>3 DEF TypeOK
<1> USE DEF At, Live, Became
<1>5. ~gate
    BY <1>0, <1>3 DEF OneAdmission
<1>6. Counters'
    BY <1>0, <1>1, <1>2, <1>3, <1>5 DEF Counters, Others
<1>7. ReqOk(r)'
    BY <1>0, <1>1, <1>2, <1>3 DEF ReqOk
<1>8. status.last <= status'.last
    BY <1>0, <1>2, Numbers
<1> QED
    BY <1>1, <1>3, <1>4, <1>6, <1>7, <1>8, MoveKeeps

\* Taking the outcome into the status: a success is the checkpoint of CURRENT.
LEMMA FinishKeeps ==
  ASSUME AdmissionInv, NEW r \in Reqs, Finish(r)
  PROVE  AdmissionInv'
<1>0. TypeOK /\ Counters /\ OneAdmission /\ \A q \in Reqs : ReqOk(q)
    BY DEF AdmissionInv
<1>1. /\ req' \in [Reqs -> ReqRecord] /\ Others(r)
      /\ Became(r, "reply", req[r].id, req[r].ok, req[r].answer)
    BY <1>0, Moved, PcsHold DEF Finish
<1>2. /\ status' \in [active : BOOLEAN, last : 0 .. MaxReq, error : BOOLEAN]
      /\ status'.last = (IF req[r].ok THEN req[r].id ELSE status.last)
      /\ ~status'.active /\ status'.error = ~req[r].ok
    BY <1>0 DEF Finish, Finished, Outcome, TypeOK, ReqRecord
<1>3. /\ UNCHANGED <<gate, durable, nextId, admitted, cmd, caller, actor,
                     cancelled, abort>>
      /\ req[r].pc = "finish"
    BY DEF Finish, At
<1>4. TypeOK'
    BY <1>0, <1>1, <1>2, <1>3 DEF TypeOK
<1> USE DEF At, Live, Became
<1>5. /\ req[r].ok => req[r].id = durable
      /\ status.last <= durable
      /\ req[r].answer = "ok" => req[r].id <= status.last
    BY <1>0, <1>3 DEF ReqOk, Counters
<1>6. status.last <= status'.last /\ status'.last <= durable
    BY <1>0, <1>2, <1>5, Numbers
<1>7. Counters'
    <2>1. \A c \in Callers : caller[c].told <= status'.last
        BY <1>0, <1>2, <1>4, <1>6, Numbers DEF Counters
    <2>2. status'.last = durable \/ status'.error
        BY <1>2, <1>5
    <2> QED
        BY <1>0, <1>2, <1>3, <1>6, <2>1, <2>2 DEF Counters
<1>8. req[r].id \in Int /\ status.last \in Int /\ status'.last \in Int
    BY <1>0, <1>2, Numbers
<1>9. ReqOk(r)'
    BY <1>0, <1>1, <1>2, <1>3, <1>5, <1>6, <1>8 DEF ReqOk
<1> QED
    BY <1>1, <1>3, <1>4, <1>6, <1>7, <1>9, MoveKeeps

\* The reply carries the outcome.
LEMMA ReplyKeeps ==
  ASSUME AdmissionInv, NEW r \in Reqs, Reply(r)
  PROVE  AdmissionInv'
<1> DEFINE a == IF req[r].ok THEN "ok" ELSE "error"
           x == [req[r] EXCEPT !.pc = "release", !.answer = a]
<1>0. TypeOK /\ Counters /\ OneAdmission /\ \A q \in Reqs : ReqOk(q)
    BY DEF AdmissionInv
<1>1. x \in ReqRecord /\ req' = [req EXCEPT ![r] = x]
    <2>1. req[r] \in ReqRecord
        BY <1>0 DEF TypeOK
    <2> QED
        BY <2>1, PcsHold, AnswerSet DEF Reply
<1>2. x.pc = "release" /\ x.id = req[r].id /\ x.ok = req[r].ok /\ x.answer = a
    BY <1>0 DEF TypeOK, ReqRecord
<1> HIDE DEF x
<1>3. /\ req' \in [Reqs -> ReqRecord] /\ Others(r)
      /\ Became(r, "release", req[r].id, req[r].ok, a)
    BY <1>0, <1>1, <1>2, Replaced DEF Became
<1>4. /\ UNCHANGED <<gate, status, durable, nextId, admitted, cmd, caller,
                     actor, cancelled, abort>>
      /\ req[r].pc = "reply"
    BY DEF Reply, At
<1>5. TypeOK'
    BY <1>0, <1>3, <1>4 DEF TypeOK
<1> USE DEF At, Live, Became
<1>6. Counters'
    BY <1>0, <1>3, <1>4 DEF Counters, Others
<1>7. ReqOk(r)'
    BY <1>0, <1>3, <1>4 DEF ReqOk
<1>8. status.last <= status'.last
    BY <1>0, <1>4, Numbers
<1> QED
    BY <1>3, <1>4, <1>5, <1>6, <1>7, <1>8, MoveKeeps

\* Dropping an unfinished admission reports an error and moves no id.
LEMMA DiscardKeeps ==
  ASSUME AdmissionInv, NEW r \in Reqs, Discard(r)
  PROVE  AdmissionInv'
<1> DEFINE x == [req[r] EXCEPT !.pc = "release", !.answer = "error"]
<1>0. TypeOK /\ Counters /\ OneAdmission /\ \A q \in Reqs : ReqOk(q)
    BY DEF AdmissionInv
<1>1. x \in ReqRecord /\ req' = [req EXCEPT ![r] = x]
    <2>1. req[r] \in ReqRecord
        BY <1>0 DEF TypeOK
    <2> QED
        BY <2>1, PcsHold, AnswerSet DEF Discard
<1>2. /\ x.pc = "release" /\ x.id = req[r].id /\ x.ok = req[r].ok
      /\ x.answer = "error"
    BY <1>0 DEF TypeOK, ReqRecord
<1> HIDE DEF x
<1>3. /\ req' \in [Reqs -> ReqRecord] /\ Others(r)
      /\ Became(r, "release", req[r].id, req[r].ok, "error")
    BY <1>0, <1>1, <1>2, Replaced DEF Became
<1>4. /\ status' \in [active : BOOLEAN, last : 0 .. MaxReq, error : BOOLEAN]
      /\ status'.last = status.last /\ ~status'.active /\ status'.error
    BY <1>0 DEF Discard, Outcome, TypeOK
<1>5. /\ UNCHANGED <<gate, durable, nextId, admitted, cmd, caller, actor,
                     cancelled, abort>>
      /\ req[r].pc = "drop"
    BY DEF Discard, At
<1>6. TypeOK'
    BY <1>0, <1>3, <1>4, <1>5 DEF TypeOK
<1> USE DEF At, Live, Became
<1>7. Counters'
    BY <1>0, <1>3, <1>4, <1>5 DEF Counters
<1>8. ReqOk(r)'
    BY <1>0, <1>3, <1>4, <1>5 DEF ReqOk
<1>9. status.last <= status'.last
    BY <1>0, <1>4, Numbers
<1> QED
    BY <1>3, <1>5, <1>6, <1>7, <1>8, <1>9, MoveKeeps

\* The permit goes back when the request is over.
LEMMA ReleaseKeeps ==
  ASSUME AdmissionInv, NEW r \in Reqs, Release(r)
  PROVE  AdmissionInv'
<1>0. TypeOK /\ Counters /\ OneAdmission /\ \A q \in Reqs : ReqOk(q)
    BY DEF AdmissionInv
<1>1. /\ req' \in [Reqs -> ReqRecord] /\ Others(r)
      /\ Became(r, "done", req[r].id, req[r].ok, req[r].answer)
    BY <1>0, Moved, PcsHold DEF Release
<1>2. /\ UNCHANGED <<status, durable, nextId, admitted, cmd, caller, actor,
                     cancelled, abort>>
      /\ gate' = TRUE
      /\ req[r].pc = "release"
    BY DEF Release, At
<1>3. TypeOK'
    BY <1>0, <1>1, <1>2 DEF TypeOK
<1> USE DEF At, Live, Became
<1>4. Counters'
    BY <1>0, <1>1, <1>2 DEF Counters, Others, ReqOk
<1>5. ReqOk(r)'
    BY <1>0, <1>1, <1>2 DEF ReqOk
<1>6. status.last <= status'.last
    BY <1>0, <1>2, Numbers
<1> QED
    BY <1>1, <1>2, <1>3, <1>4, <1>5, <1>6, MoveKeeps

-----------------------------------------------------------------------------
(* The worker: injection, alignment, commit.                               *)

\* Injection and alignment move the request on, or an abort drops it.
LEMMA WorkKeeps ==
  ASSUME AdmissionInv, NEW r \in Reqs,
         Injected(r) \/ Aligned(r) \/ AlignAborted(r)
  PROVE  AdmissionInv'
<1>0. TypeOK /\ Counters /\ OneAdmission /\ \A q \in Reqs : ReqOk(q)
    BY DEF AdmissionInv
<1>1. PICK p \in {"align", "commit", "drop"} :
        /\ Goto(r, p)
        /\ p = "align" => actor' = "loop"
        /\ actor' = actor \/ actor' = "loop"
        /\ req[r].pc \in {"inject", "align"}
        /\ p = "drop" \/ p = "commit" => actor' = actor
    BY DEF Injected, Aligned, AlignAborted, At
<1>2. UNCHANGED <<gate, status, durable, nextId, admitted, cmd, caller,
                  cancelled, abort>>
    BY DEF Injected, Aligned, AlignAborted
<1>3. /\ req' \in [Reqs -> ReqRecord] /\ Others(r)
      /\ Became(r, p, req[r].id, req[r].ok, req[r].answer)
    <2>1. p \in Pcs
        BY <1>1, PcsHold
    <2> QED
        BY <1>0, <1>1, <2>1, Moved
<1>4. TypeOK'
    BY <1>0, <1>1, <1>2, <1>3 DEF TypeOK
<1> USE DEF At, Live, Became
<1>5. Counters'
    BY <1>0, <1>1, <1>2, <1>3 DEF Counters, Others
<1>6. ReqOk(r)'
    BY <1>0, <1>1, <1>2, <1>3 DEF ReqOk
<1>7. status.last <= status'.last
    BY <1>0, <1>2, Numbers
<1> QED
    BY <1>1, <1>2, <1>3, <1>4, <1>5, <1>6, <1>7, MoveKeeps

\* A barrier that cannot be injected, or an alignment that fails or runs into
\* the deadline, ends the request with an error and publishes nothing.
LEMMA FailKeeps ==
  ASSUME AdmissionInv, NEW r \in Reqs,
         InjectFails(r) \/ AlignFails(r) \/ TimedOut(r)
  PROVE  AdmissionInv'
<1>0. TypeOK /\ Counters /\ OneAdmission /\ \A q \in Reqs : ReqOk(q)
    BY DEF AdmissionInv
<1>1. /\ Ends(r, FALSE)
      /\ actor' = actor \/ actor' = "loop"
      /\ req[r].pc \in {"inject", "align"}
      /\ UNCHANGED <<gate, status, durable, nextId, admitted, cmd, caller,
                     cancelled, abort>>
    BY DEF InjectFails, AlignFails, TimedOut, AlignError, At
<1>2. /\ req' \in [Reqs -> ReqRecord] /\ Others(r)
      /\ Became(r, "finish", req[r].id, FALSE, req[r].answer)
    BY <1>0, <1>1, Ended
<1>3. TypeOK'
    BY <1>0, <1>1, <1>2 DEF TypeOK
<1> USE DEF At, Live, Became
<1>4. Counters'
    BY <1>0, <1>1, <1>2 DEF Counters, OneAdmission
<1>5. ReqOk(r)'
    BY <1>0, <1>1, <1>2 DEF ReqOk
<1>6. status.last <= status'.last
    BY <1>0, <1>1, Numbers
<1> QED
    BY <1>1, <1>2, <1>3, <1>4, <1>5, <1>6, MoveKeeps

\* A commit, whatever it reports, publishes nothing but the id of its request,
\* which is above everything published before.
LEMMA CommitKeeps ==
  ASSUME AdmissionInv, NEW r \in Reqs, Committed(r) \/ CommitFails(r)
  PROVE  AdmissionInv'
<1>0. TypeOK /\ Counters /\ OneAdmission /\ \A q \in Reqs : ReqOk(q)
    BY DEF AdmissionInv
<1>1. PICK k \in BOOLEAN :
        /\ Ends(r, k)
        /\ durable' \in {durable, req[r].id}
        /\ k => durable' = req[r].id
        /\ req[r].pc = "commit"
    BY DEF Committed, CommitFails, At
<1>2. UNCHANGED <<gate, status, nextId, admitted, cmd, caller, actor,
                  cancelled, abort>>
    BY DEF Committed, CommitFails
<1>3. /\ req' \in [Reqs -> ReqRecord] /\ Others(r)
      /\ Became(r, "finish", req[r].id, k, req[r].answer)
    BY <1>0, <1>1, Ended
<1>4. durable' \in 0 .. MaxReq
    BY <1>0, <1>1 DEF TypeOK, ReqRecord
<1>5. TypeOK'
    BY <1>0, <1>2, <1>3, <1>4 DEF TypeOK
<1> USE DEF At, Live, Became
<1>6. durable < req[r].id /\ req[r].id < nextId
    BY <1>0, <1>1 DEF ReqOk
<1>7. Counters'
    <2>1. durable' < nextId /\ status.last <= durable'
        BY <1>0, <1>1, <1>6, Numbers DEF Counters
    <2>2. ~gate
        BY <1>0, <1>1 DEF OneAdmission
    <2> QED
        BY <1>0, <1>2, <1>3, <2>1, <2>2 DEF Counters
<1>8. ReqOk(r)'
    BY <1>0, <1>1, <1>2, <1>3 DEF ReqOk
<1>9. status.last <= status'.last
    BY <1>0, <1>2, Numbers
<1> QED
    BY <1>1, <1>2, <1>3, <1>5, <1>7, <1>8, <1>9, MoveKeeps

-----------------------------------------------------------------------------
(* The command channel and the actor.                                      *)

\* A command is queued, or refused and dropped.
LEMMA SubmitKeeps ==
  ASSUME AdmissionInv, NEW c \in Callers, Submit(c)
  PROVE  AdmissionInv'
<1>0. TypeOK /\ Counters /\ OneAdmission /\ \A q \in Reqs : ReqOk(q)
    BY DEF AdmissionInv
<1>1. PICK r \in Reqs : r = caller[c].waits
    BY <1>0, AdmissionAssumption DEF Submit, TypeOK, Reqs
<1>2. /\ UNCHANGED <<gate, status, durable, nextId, admitted, actor, cancelled,
                     abort>>
      /\ req[r].pc = "admitted"
    BY <1>1 DEF Submit, At
<1>3. PICK p \in {"queued", "drop"} :
        /\ req' \in [Reqs -> ReqRecord] /\ Others(r)
        /\ Became(r, p, req[r].id, req[r].ok, req[r].answer)
        /\ cmd' = cmd \/ cmd' = r
        /\ p = "drop" => cmd' = cmd
    <2>1. CASE cmd = 0 /\ actor # "ended"
        <3>1. Goto(r, "queued") /\ cmd' = r
            BY <1>1, <2>1 DEF Submit
        <3> QED
            BY <1>0, <3>1, Moved, PcsHold
    <2>2. CASE ~(cmd = 0 /\ actor # "ended")
        <3> DEFINE x == [req[r] EXCEPT !.pc = "drop", !.open = FALSE]
        <3>1. x \in ReqRecord
            <4>1. req[r] \in ReqRecord
                BY <1>0 DEF TypeOK
            <4> QED
                BY <4>1, PcsHold, OpenSet
        <3>2. req' = [req EXCEPT ![r] = x] /\ cmd' = cmd
            BY <1>1, <2>2 DEF Submit
        <3>3. /\ x.pc = "drop" /\ x.id = req[r].id
              /\ x.ok = req[r].ok /\ x.answer = req[r].answer
            BY <1>0 DEF TypeOK, ReqRecord
        <3> HIDE DEF x
        <3>4. /\ req' \in [Reqs -> ReqRecord] /\ Others(r)
              /\ Became(r, "drop", req[r].id, req[r].ok, req[r].answer)
            BY <1>0, <3>1, <3>2, <3>3, Replaced DEF Became
        <3> QED
            BY <3>2, <3>4
    <2> QED
        BY <2>1, <2>2
<1>4. /\ caller' \in [Callers -> [waits : 0 .. MaxReq, told : 0 .. MaxReq]]
      /\ \A d \in Callers : caller'[d].told = caller[d].told
    BY <1>0, AdmissionAssumption DEF Submit, TypeOK
<1>5. TypeOK'
    <2>1. cmd' \in 0 .. MaxReq
        BY <1>0, <1>3, AdmissionAssumption DEF TypeOK, Reqs
    <2> QED
        BY <1>0, <1>2, <1>3, <1>4, <2>1 DEF TypeOK
<1> USE DEF At, Live, Became
<1>6. cmd # r
    BY <1>0, <1>2 DEF ReqOk
<1>7. Counters'
    BY <1>0, <1>2, <1>3, <1>4 DEF Counters, Others
<1>8. ReqOk(r)'
    BY <1>0, <1>2, <1>3, <1>6 DEF ReqOk
<1>9. status.last <= status'.last
    BY <1>0, <1>2, Numbers
<1> QED
    BY <1>2, <1>3, <1>5, <1>7, <1>8, <1>9, MoveKeeps

\* A command is taken: dropped, or given an id above everything published.
LEMMA TakeKeeps ==
  ASSUME AdmissionInv, Take
  PROVE  AdmissionInv'
<1>0. TypeOK /\ Counters /\ OneAdmission /\ \A q \in Reqs : ReqOk(q)
    BY DEF AdmissionInv
<1>1. PICK r \in Reqs : r = cmd
    BY <1>0, AdmissionAssumption DEF Take, TypeOK, Reqs
<1>2. /\ UNCHANGED <<gate, status, durable, admitted, caller, cancelled, abort>>
      /\ cmd' = 0 /\ actor = "loop"
      /\ req[r].pc = "queued" /\ nextId <= r
    BY <1>0, <1>1 DEF Take, ReqOk, At
<1>3. cmd' \notin Reqs
    BY <1>2, AdmissionAssumption DEF Reqs
<1>4. nextId \in 0 .. MaxReq /\ nextId + 1 \in 1 .. MaxReq + 1
    BY <1>0, <1>2, AdmissionAssumption DEF TypeOK, Reqs
<1>5. status.last <= status'.last
    BY <1>0, <1>2, Numbers
<1>6. CASE ~req[r].open \/ req[r].late
    <2>1. Goto(r, "drop") /\ UNCHANGED <<nextId, actor>>
        BY <1>1, <1>6 DEF Take
    <2>2. /\ req' \in [Reqs -> ReqRecord] /\ Others(r)
          /\ Became(r, "drop", req[r].id, req[r].ok, req[r].answer)
        BY <1>0, <2>1, Moved, PcsHold
    <2>3. TypeOK'
        BY <1>0, <1>2, <2>1, <2>2, AdmissionAssumption DEF TypeOK
    <2> USE DEF At, Live, Became
    <2>4. Counters'
        BY <1>0, <1>2, <2>1, <2>2 DEF Counters, Others
    <2>5. ReqOk(r)'
        BY <1>0, <1>2, <1>3, <2>1, <2>2 DEF ReqOk
    <2> QED
        BY <1>2, <1>3, <1>5, <2>2, <2>3, <2>4, <2>5, MoveKeeps
<1>7. CASE ~(~req[r].open \/ req[r].late)
    <2> DEFINE x == [req[r] EXCEPT !.pc = "inject", !.id = nextId]
    <2>1. /\ req' = [req EXCEPT ![r] = x]
          /\ nextId' = nextId + 1 /\ actor' = "injecting"
        BY <1>1, <1>7 DEF Take, IdAfter
    <2>2. x \in ReqRecord
        <3>1. req[r] \in ReqRecord
            BY <1>0 DEF TypeOK
        <3> QED
            BY <1>4, <3>1, PcsHold, IdSet
    <2>3. /\ x.pc = "inject" /\ x.id = nextId
          /\ x.ok = req[r].ok /\ x.answer = req[r].answer
        BY <1>0 DEF TypeOK, ReqRecord
    <2> HIDE DEF x
    <2>4. /\ req' \in [Reqs -> ReqRecord] /\ Others(r)
          /\ Became(r, "inject", nextId, req[r].ok, req[r].answer)
        BY <1>0, <2>1, <2>2, <2>3, Replaced DEF Became
    <2>5. TypeOK'
        BY <1>0, <1>2, <1>4, <2>1, <2>4, AdmissionAssumption DEF TypeOK
    <2> USE DEF At, Live, Became
    <2>6. r <= admitted
        BY <1>0, <1>2 DEF ReqOk
    <2>7. Counters'
        <3>1. nextId + 1 <= admitted + 1 /\ durable < nextId + 1
            BY <1>0, <1>2, <2>6, Numbers DEF Counters
        <3> QED
            BY <1>0, <1>2, <2>1, <2>4, <3>1 DEF Counters, Others
    <2>8. ReqOk(r)'
        <3>1. durable < nextId /\ nextId < nextId + 1
            BY <1>0, Numbers DEF Counters
        <3>2. req[r].answer # "ok"
            BY <1>0, <1>2 DEF ReqOk
        <3> QED
            BY <1>0, <1>2, <1>3, <2>1, <2>4, <2>6, <3>1, <3>2 DEF ReqOk
    <2> QED
        BY <1>2, <1>3, <1>5, <2>4, <2>5, <2>7, <2>8, MoveKeeps
<1> QED
    BY <1>6, <1>7

\* The actor leaves its loop: a request whose barrier is being injected is
\* dropped, every other one goes on.
LEMMA LeaveKeeps ==
  ASSUME AdmissionInv,
         ActorCancelled \/ \E fails \in BOOLEAN : ActorLeaves(fails)
  PROVE  AdmissionInv'
<1>0. TypeOK /\ Counters /\ OneAdmission /\ \A q \in Reqs : ReqOk(q)
    BY DEF AdmissionInv
<1>1. /\ UNCHANGED <<gate, status, durable, nextId, admitted, cmd, caller>>
      /\ req' = Dropped
      /\ actor' = "joining"
      /\ cancelled' \in BOOLEAN /\ abort' \in BOOLEAN
    BY <1>0 DEF ActorCancelled, ActorLeaves, TypeOK
<1>2. CASE \A q \in Reqs : ~At(q, {"inject"})
    <2>1. req' = req
        BY <1>0, <1>1, <1>2 DEF Dropped, TypeOK
    <2>2. \A q \in Reqs : Same(q)
        BY <2>1 DEF Same
    <2>3. TypeOK'
        BY <1>0, <1>1, <2>1 DEF TypeOK
    <2> QED
        BY <1>0, <1>1, <1>2, <2>2, <2>3, QuietKeeps DEF Counters
<1>3. ASSUME NEW r \in Reqs, At(r, {"inject"})
      PROVE  AdmissionInv'
    <2> DEFINE x == [req[r] EXCEPT !.pc = "drop"]
    <2>1. \A q \in Reqs : At(q, {"inject"}) => q = r
        BY <1>0, <1>3 DEF OneAdmission, At, Live
    <2>2. req' = [req EXCEPT ![r] = x]
        BY <1>0, <1>1, <1>3, <2>1 DEF Dropped, TypeOK
    <2>3. Goto(r, "drop")
        BY <2>2 DEF Goto
    <2>4. /\ req' \in [Reqs -> ReqRecord] /\ Others(r)
          /\ Became(r, "drop", req[r].id, req[r].ok, req[r].answer)
        BY <1>0, <2>3, Moved, PcsHold
    <2>5. TypeOK'
        BY <1>0, <1>1, <2>4 DEF TypeOK
    <2> USE DEF At, Live, Became
    <2>6. Counters'
        BY <1>0, <1>1, <1>3, <2>4 DEF Counters, Others
    <2>7. ReqOk(r)'
        BY <1>0, <1>1, <1>3, <2>4 DEF ReqOk
    <2>8. status.last <= status'.last
        BY <1>0, <1>1, Numbers
    <2> QED
        BY <1>1, <1>3, <2>4, <2>5, <2>6, <2>7, <2>8, MoveKeeps
<1> QED
    BY <1>2, <1>3

\* The actor ends: its workers are over, what is left in the channel is dropped.
LEMMA EndKeeps ==
  ASSUME AdmissionInv, ActorEnds
  PROVE  AdmissionInv'
<1>0. TypeOK /\ Counters /\ OneAdmission /\ \A q \in Reqs : ReqOk(q)
    BY DEF AdmissionInv
<1>1. /\ UNCHANGED <<gate, status, durable, nextId, admitted, caller, cancelled,
                     abort>>
      /\ actor = "joining" /\ actor' = "ended" /\ cmd' = 0
    BY DEF ActorEnds
<1>2. cmd' \notin Reqs
    BY <1>1, AdmissionAssumption DEF Reqs
<1>3. \A q \in Reqs : ~At(q, {"inject", "align", "commit"})
    <2> SUFFICES ASSUME NEW q \in Reqs, At(q, {"inject", "align", "commit"})
                 PROVE  FALSE
        OBVIOUS
    <2>1. durable < req[q].id /\ ~At(q, {"inject"})
        BY <1>0, <1>1 DEF ReqOk
    <2>2. durable \in Nat /\ req[q].id \in Nat
        BY <1>0, AdmissionAssumption DEF TypeOK, ReqRecord
    <2>3. req[q].id # 0
        BY <2>1, <2>2
    <2> QED
        BY <2>1, <2>3 DEF ActorEnds, Joined, InWorker, At
<1>4. CASE cmd = 0
    <2>1. req' = req /\ cmd' = cmd
        BY <1>1, <1>4 DEF ActorEnds
    <2>2. TypeOK'
        BY <1>0, <1>1, <2>1 DEF TypeOK
    <2> USE DEF At, Live
    <2>3. OneAdmission' /\ Counters'
        BY <1>0, <1>1, <2>1 DEF OneAdmission, Counters
    <2>4. \A q \in Reqs : ReqOk(q)'
        BY <1>0, <1>1, <1>3, <2>1 DEF ReqOk
    <2> QED
        BY <2>2, <2>3, <2>4 DEF AdmissionInv
<1>5. CASE cmd # 0
    <2>1. PICK r \in Reqs : r = cmd
        BY <1>0, <1>5, AdmissionAssumption DEF TypeOK, Reqs
    <2>2. Goto(r, "drop") /\ req[r].pc = "queued"
        BY <1>0, <1>5, <2>1 DEF ActorEnds, ReqOk, At
    <2>3. /\ req' \in [Reqs -> ReqRecord] /\ Others(r)
          /\ Became(r, "drop", req[r].id, req[r].ok, req[r].answer)
        BY <1>0, <2>2, Moved, PcsHold
    <2>4. TypeOK'
        BY <1>0, <1>1, <2>3, AdmissionAssumption DEF TypeOK
    <2> USE DEF At, Live, Became
    <2>5. Counters'
        BY <1>0, <1>1, <2>2, <2>3 DEF Counters, Others
    <2>6. ReqOk(r)'
        BY <1>0, <1>1, <1>2, <2>2, <2>3 DEF ReqOk
    <2>7. status.last <= status'.last
        BY <1>0, <1>1, Numbers
    <2> QED
        BY <1>1, <1>2, <2>2, <2>3, <2>4, <2>5, <2>6, <2>7, MoveKeeps
<1> QED
    BY <1>4, <1>5

-----------------------------------------------------------------------------
(* The invariant holds in every state, and what it says of the properties. *)

\* Every step of callers, actor, worker and cancellation keeps the inductive
\* invariant.
THEOREM AdmissionInvariant == Spec => []AdmissionInv
<1>1. AdmissionInv /\ [Next]_vars => AdmissionInv'
    <2> SUFFICES ASSUME AdmissionInv, [Next]_vars
                 PROVE  AdmissionInv'
        OBVIOUS
    <2>1. ASSUME NEW c \in Callers,
                 TryBegin(c) \/ Submit(c) \/ Answered(c) \/ WaiterGone(c)
          PROVE  AdmissionInv'
        BY <2>1, TryBeginKeeps, SubmitKeeps, AnsweredKeeps
    <2>2. ASSUME NEW r \in Reqs,
                 \/ MarkActive(r) \/ Deadline(r) \/ Finish(r) \/ Reply(r)
                 \/ Discard(r) \/ Release(r)
          PROVE  AdmissionInv'
        BY <2>2, MarkActiveKeeps, DeadlineKeeps, FinishKeeps, ReplyKeeps,
           DiscardKeeps, ReleaseKeeps
    <2>3. ASSUME NEW r \in Reqs,
                 \/ Injected(r) \/ InjectFails(r)
                 \/ Aligned(r) \/ AlignFails(r) \/ TimedOut(r) \/ AlignAborted(r)
                 \/ Committed(r) \/ CommitFails(r)
          PROVE  AdmissionInv'
        BY <2>3, WorkKeeps, FailKeeps, CommitKeeps
    <2>4. ASSUME \/ ActorCancelled
                 \/ \E fails \in BOOLEAN : ActorLeaves(fails)
                 \/ Take \/ ActorEnds
          PROVE  AdmissionInv'
        BY <2>4, TakeKeeps, LeaveKeeps, EndKeeps
    <2> QED
        BY <2>1, <2>2, <2>3, <2>4, IdleKeeps DEF Next
<1> QED
    BY <1>1, AdmissionInit, PTL DEF Spec

\* Every variable of the admission protocol keeps its type, whatever the number
\* of callers and of requests.
THEOREM AdmissionTyped == Spec => []TypeOK
<1>1. AdmissionInv => TypeOK
    BY DEF AdmissionInv
<1> QED
    BY <1>1, AdmissionInvariant, PTL

\* CheckpointControl admits one attempt at a time: the permit that travels with
\* a request keeps every other caller out until it is over.
THEOREM AtMostOneAttempt == Spec => []OneAdmission
<1>1. AdmissionInv => OneAdmission
    BY DEF AdmissionInv
<1> QED
    BY <1>1, AdmissionInvariant, PTL

\* The status says "active" while a request is worked on, and with the gate open
\* it names the checkpoint of CURRENT or reports an error.
THEOREM StatusTellsTheTruth == Spec => []StatusIsTruth
<1>1. AdmissionInv => StatusIsTruth
    <2> SUFFICES ASSUME AdmissionInv PROVE StatusIsTruth
        OBVIOUS
    <2>1. gate => \A r \in Reqs : ~At(r, {"finish"})
        BY DEF AdmissionInv, OneAdmission, Live, At
    <2> QED
        BY <2>1 DEF AdmissionInv, Counters, ReqOk, StatusIsTruth, At
<1> QED
    BY <1>1, AdmissionInvariant, PTL

\* What a caller was told to be saved is published and in the status.
THEOREM AnswersAreDurable == Spec => []OkIsDurable
<1>1. AdmissionInv => OkIsDurable
    BY Numbers DEF AdmissionInv, Counters, OkIsDurable
<1> QED
    BY <1>1, AdmissionInvariant, PTL

\* A source task that has ended leaves no attempt behind that could still
\* publish.
THEOREM EndIsQuiet == Spec => []EndedMeansQuiet
<1>1. AdmissionInv => EndedMeansQuiet
    BY DEF AdmissionInv, ReqOk, EndedMeansQuiet, At
<1> QED
    BY <1>1, AdmissionInvariant, PTL
=============================================================================
