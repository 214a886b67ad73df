--------------------------- MODULE JetStreamSource ---------------------------
(***************************************************************************)
(* The reliable JetStream source (sparrow-connectors jetstream/reader.rs,  *)
(* ledger.rs, ack.rs; sparrow-control supervisor/jetstream_source.rs and   *)
(* input_dlq.rs): one attempt after another opens a fresh consumer at the  *)
(* restored cut, pulls bounded batches, publishes rows into the Kernel     *)
(* inbox, quarantines poison records, cuts checkpoints, and ACKs at the    *)
(* broker only what a durable checkpoint covers.                           *)
(*                                                                         *)
(* Messages are their stream sequences 1..NumMsgs; the ones in Poison do   *)
(* not decode.  The job between the inbox and the sink is one stage that   *)
(* applies batches in order and answers a barrier with its rows.  A reply  *)
(* token is not told apart from the newest one of its message, and every   *)
(* entry counts one unit of the byte limits.  Not modelled: a second node  *)
(* with copied owner files (the code excludes it) and replay ranges.       *)
(***************************************************************************)
EXTENDS Integers, Sequences, SequencesExt, FiniteSets

CONSTANTS
    NumMsgs,         \* bound: messages in the stream
    Poison,          \* the messages that do not decode
    MaxPending,      \* max_pending of the ledger, and of the consumer
    PullMessages,    \* pull_messages
    BatchRows,       \* batch_rows of the actor
    InboxCap,        \* inbox_capacity
    AckConcurrency,  \* ACK_CONCURRENCY
    AckTries,        \* confirmations tried per ACK (3 in the code)
    DlqEntries,      \* max_entries of the input DLQ
    Retain,          \* generations the checkpoint store keeps
    MaxAttempts,     \* bound: attempts of the job
    MaxCommands,     \* bound: checkpoint commands
    MaxFaults        \* bound: faults of every kind together

ASSUME JetStreamAssumption ==
    /\ NumMsgs \in Nat \ {0} /\ Poison \subseteq 1..NumMsgs
    /\ MaxPending \in Nat \ {0} /\ PullMessages \in Nat \ {0}
    /\ BatchRows \in Nat \ {0} /\ InboxCap \in Nat \ {0}
    /\ AckConcurrency \in Nat \ {0} /\ AckTries \in Nat \ {0}
    /\ DlqEntries \in Nat \ {0} /\ Retain \in Nat \ {0}
    /\ MaxAttempts \in Nat /\ MaxCommands \in Nat /\ MaxFaults \in Nat

Msgs == 1..NumMsgs
None == 0

VARIABLES
    \* the broker
    first,      \* first sequence the stream still retains
    binding,    \* attempt named by the ownership entry, None before the first
    consumers,  \* attempts whose durable consumer exists
    consumer,   \* the newest consumer: next new message, acked, delivery count
    \* on disk
    hist,       \* retained checkpoints, oldest first
    dlq,        \* poison records in the input DLQ
    captured,   \* captured[s]: times the record of s was inserted
    floor,      \* replay_floor of the input DLQ
    \* the attempt
    phase,      \* down, delete, bind, create, running, closing
    attempt,
    wire,       \* frames of the open pull, not yet read
    pulling,    \* Reader.pull is Some
    ledger,     \* DeliveryLedger
    deferred,   \* Actor.deferred
    qfull,      \* Actor.quarantine_full
    bootstrap,  \* Actor.bootstrap
    pc,         \* the actor: loop, decode, poll, batch or barrier
    build,      \* publish_input's locals
    workers,    \* checkpoint workers not yet joined
    nextId,     \* Actor.next_checkpoint
    command,    \* a command waits in the actor's channel
    \* the job
    inbox,      \* tx: batches and barriers
    applied,    \* rows the job's state holds, in order
    \* bounds
    faults, commands

brokerVars == <<first, binding, consumers, consumer>>
diskVars == <<hist, dlq, captured, floor>>
readerVars == <<wire, pulling, ledger>>
buildVars == <<deferred, qfull, pc, build>>
cutVars == <<bootstrap, workers, nextId, command>>
jobVars == <<inbox, applied>>
boundVars == <<faults, commands>>
vars == <<brokerVars, diskVars, phase, attempt, readerVars, buildVars, cutVars,
          jobVars, boundVars>>

\* The rows are the messages after one position and up to another that decode,
\* each of them once and in order.
Span(rows, from, to) ==
    /\ Range(rows) = {s \in from + 1..to : s \notin Poison}
    /\ \A i, j \in DOMAIN rows : i < j => rows[i] < rows[j]

NewLedger(cut) == [delivered |-> 0, received |-> cut, published |-> cut,
                   committed |-> cut, entries |-> <<>>]
NewConsumer(cut) == [next |-> cut + 1, acked |-> {}, unacked |-> {}, count |-> 0]
NoBuild == [first |-> None, last |-> None, rows |-> <<>>, record |-> None,
            turn |-> 0]
Entry == [published : BOOLEAN, confirm : {"none", "asking", "ok", "failed"},
          tries : Nat]
Ledger(seqs) == [delivered : Nat, received : Nat, published : Nat,
                 committed : Nat, entries : [seqs -> Entry]]
LedgerOK(L) ==
    /\ DOMAIN L.entries \subseteq Nat /\ IsFiniteSet(DOMAIN L.entries)
    /\ L \in Ledger(DOMAIN L.entries)
Consumer == [next : Nat, acked : SUBSET Msgs, unacked : SUBSET Nat, count : Nat]
Generation == [cut : Nat, rows : Seq(Nat), readable : BOOLEAN]
Build == [first : Nat, last : Nat, rows : Seq(Nat), record : Nat, turn : Nat]
Worker == [id : Nat, cut : Nat, rows : Seq(Nat),
           st : {"sending", "aligning", "aligned", "durable", "finished",
                 "returned", "expired", "error"}]
Batch == [barrier : Nat, rows : Seq(Nat)]
Frame == [seq : Nat, count : Nat]

TypeOK ==
    /\ first \in Nat /\ binding \in Nat /\ attempt \in Nat
    /\ consumers \subseteq Nat /\ consumer \in Consumer
    /\ hist \in Seq(Generation)
    /\ dlq \subseteq Poison /\ captured \in [Poison -> Nat] /\ floor \in Nat
    /\ phase \in {"down", "delete", "bind", "create", "running", "closing"}
    /\ wire \in Seq(Frame)
    /\ LedgerOK(ledger)
    /\ deferred \in Nat
    /\ pc \in {"loop", "decode", "poll", "batch", "barrier"}
    /\ build \in Build
    /\ workers \subseteq Worker /\ nextId \in Nat
    /\ inbox \in Seq(Batch) /\ applied \in Seq(Nat)
    /\ pulling \in BOOLEAN /\ qfull \in BOOLEAN
    /\ bootstrap \in BOOLEAN /\ command \in BOOLEAN
    /\ faults \in Nat /\ commands \in Nat

Init ==
    /\ first = 1 /\ binding = None /\ consumers = {} /\ consumer = NewConsumer(0)
    /\ hist = <<>> /\ dlq = {} /\ captured = [s \in Poison |-> 0] /\ floor = 0
    /\ phase = "down" /\ attempt = 0
    /\ wire = <<>> /\ pulling = FALSE /\ ledger = NewLedger(0)
    /\ deferred = None /\ qfull = FALSE /\ pc = "loop" /\ build = NoBuild
    /\ bootstrap = FALSE /\ workers = {} /\ nextId = 1 /\ command = FALSE
    /\ inbox = <<>> /\ applied = <<>>
    /\ faults = 0 /\ commands = 0

Fault == faults < MaxFaults /\ faults' = faults + 1


-----------------------------------------------------------------------------
(* The end of an attempt.  An error cancels the job; the actor then joins  *)
(* its workers and closes the reader.  A crash drops everything at once.   *)

Abort ==
    /\ phase' = "closing"
    /\ UNCHANGED <<brokerVars, diskVars, attempt, readerVars, buildVars, cutVars,
                   jobVars, commands>>

Forget ==
    /\ phase' = "down"
    /\ wire' = <<>> /\ pulling' = FALSE /\ ledger' = NewLedger(0)
    /\ deferred' = None /\ qfull' = FALSE /\ pc' = "loop" /\ build' = NoBuild
    /\ bootstrap' = FALSE /\ workers' = {} /\ nextId' = 1 /\ command' = FALSE
    /\ inbox' = <<>> /\ applied' = <<>>
    /\ UNCHANGED <<brokerVars, diskVars, attempt, commands>>

\* A stop, a failed output, an unhealthy connection or a late answer.
JobFails == phase = "running" /\ Fault /\ Abort

Crash == phase # "down" /\ Fault /\ Forget

Close ==
    /\ phase = "closing"
    /\ \A w \in workers : w.st \in {"returned", "expired", "error"}
    /\ Forget
    /\ UNCHANGED faults

-----------------------------------------------------------------------------
(* Reader::open under the store's lock: the old consumer is deleted while  *)
(* the binding still names it, then the binding moves, then the new        *)
(* consumer is created at the restored cut.  A request that fails may have *)
(* reached the broker.                                                     *)

Readable == {i \in DOMAIN hist : hist[i].readable}
Restored ==
    IF hist = <<>> THEN [cut |-> 0, rows |-> <<>>]
    ELSE hist[CHOOSE i \in Readable : \A j \in Readable : j <= i]

opening == <<diskVars, readerVars, buildVars, cutVars, jobVars, commands>>

Open ==
    /\ phase = "down" /\ attempt < MaxAttempts
    /\ hist = <<>> \/ Readable # {}
    /\ first <= Restored.cut + 1
    /\ attempt' = attempt + 1
    /\ phase' = IF binding = None THEN "bind" ELSE "delete"
    /\ UNCHANGED <<brokerVars, opening, faults>>

\* Mutant: a deletion that failed is passed over.
DeleteOldIgnored ==
    /\ phase = "delete" /\ phase' = "bind"
    /\ \/ consumers' = consumers \ {binding} /\ UNCHANGED faults
       \/ UNCHANGED consumers /\ Fault
    /\ UNCHANGED <<first, binding, consumer, attempt, opening>>

DeleteOld ==
    /\ phase = "delete"
    /\ \/ phase' = "bind" /\ consumers' = consumers \ {binding} /\ UNCHANGED faults
       \/ phase' = "down" /\ consumers' \in {consumers, consumers \ {binding}} /\ Fault
    /\ UNCHANGED <<first, binding, consumer, attempt, opening>>

Bind ==
    /\ phase = "bind"
    /\ \/ phase' = "create" /\ binding' = attempt /\ UNCHANGED faults
       \/ phase' = "down" /\ binding' \in {binding, attempt} /\ Fault
    /\ UNCHANGED <<first, consumers, consumer, attempt, opening>>

CreateFails ==
    /\ phase = "create" /\ phase' = "down" /\ Fault
    /\ \/ consumers' = consumers \cup {attempt} /\ consumer' = NewConsumer(Restored.cut)
       \/ UNCHANGED <<consumers, consumer>>
    /\ UNCHANGED <<first, binding, attempt, opening>>

CheckStart(cut) == cut >= floor

\* The consumer exists and the input DLQ is asked; the job starts or not.
Create ==
    /\ phase = "create"
    /\ consumers' = consumers \cup {attempt}
    /\ consumer' = NewConsumer(Restored.cut)
    /\ IF CheckStart(Restored.cut)
       THEN /\ phase' = "running"
            /\ ledger' = NewLedger(Restored.cut)
            /\ applied' = Restored.rows
            /\ bootstrap' = (hist = <<>>)
       ELSE phase' = "down" /\ UNCHANGED <<ledger, applied, bootstrap>>
    /\ UNCHANGED <<first, binding, diskVars, attempt, wire, pulling, buildVars,
                   workers, nextId, command, inbox, boundVars>>

-----------------------------------------------------------------------------
(* The broker answers a pull with what is available, redeliveries first;   *)
(* every frame, a redelivery too, has the next consumer sequence.          *)

Pending == DOMAIN ledger.entries
Full == Cardinality(Pending) = MaxPending
PoisonCutPending == qfull /\ ledger.published > ledger.committed

Running == phase = "running" /\ pc = "loop"
MayRead == Running /\ ~bootstrap /\ ~PoisonCutPending

Frames(seqs) == [i \in DOMAIN seqs |-> [seq |-> seqs[i], count |-> consumer.count + i]]

Deliver(again, n) ==
    LET from == IF consumer.next < first THEN first ELSE consumer.next
        seqs == again \o [i \in 1..n |-> from + i - 1]
    IN  /\ from + n <= NumMsgs + 1
        /\ Cardinality(consumer.unacked) + n <= MaxPending
        /\ wire' = Frames(seqs)
        /\ consumer' = [consumer EXCEPT
                          !.next = IF n = 0 THEN @ ELSE from + n,
                          !.unacked = @ \cup (from..from + n - 1),
                          !.count = @ + Len(seqs)]

PreparePull ==
    /\ MayRead /\ deferred = None /\ ~pulling /\ ~Full
    /\ LET room == MaxPending - Cardinality(Pending)
           count == IF room < PullMessages THEN room ELSE PullMessages
       IN  \/ \E n \in 0..count : Deliver(<<>>, n) /\ UNCHANGED faults
           \/ \E s \in consumer.unacked, n \in 0..count - 1 :
                  Deliver(<<s>>, n) /\ Fault
    /\ pulling' = TRUE
    /\ UNCHANGED <<first, binding, consumers, diskVars, phase, attempt, ledger,
                   buildVars, cutVars, jobVars, commands>>

\* The client drops a frame.
DropFrame ==
    /\ Fault
    /\ \E i \in DOMAIN wire : wire' = RemoveAt(wire, i)
    /\ UNCHANGED <<brokerVars, diskVars, phase, attempt, pulling, ledger,
                   buildVars, cutVars, jobVars, commands>>

-----------------------------------------------------------------------------
(* DeliveryLedger.                                                         *)

Known(f) == f.seq <= ledger.committed \/ f.seq \in Pending
ObserveFails(f) ==
    \/ f.count # ledger.delivered + 1
    \/ ~Known(f) /\ (f.seq # ledger.received + 1 \/ Full)
Observed(f) ==
    IF Known(f) THEN [ledger EXCEPT !.delivered = f.count]
    ELSE [ledger EXCEPT
            !.delivered = f.count, !.received = f.seq,
            !.entries = [s \in Pending \cup {f.seq} |->
                           IF s \in Pending THEN ledger.entries[s]
                           ELSE [published |-> FALSE, confirm |-> "none", tries |-> 0]]]

PublishFails(from, to) ==
    from <= to /\ (from # ledger.published + 1 \/ ~(from..to \subseteq Pending))
Published(from, to) ==
    [ledger EXCEPT
        !.published = IF from <= to THEN to ELSE @,
        !.entries = [s \in Pending |-> IF s \in from..to
                                       THEN [ledger.entries[s] EXCEPT !.published = TRUE]
                                       ELSE ledger.entries[s]]]

\* Mutant: what was published, committed or not.
AckablePublished(L, s) == s <= L.published

Ackable(L, s) == s <= L.committed

\* next_confirmation over the free slots, lowest sequence first
Serviced(L) ==
    LET left == {s \in DOMAIN L.entries : L.entries[s].confirm # "ok"}
        asking == {s \in left : L.entries[s].confirm = "asking"}
        waiting == {s \in left : L.entries[s].confirm = "none" /\ Ackable(L, s)}
        starts(s) == /\ s \in waiting
                     /\ Cardinality(asking) + Cardinality({t \in waiting : t < s})
                          < AckConcurrency
    IN  [L EXCEPT !.entries = [s \in left |-> IF starts(s)
                                              THEN [L.entries[s] EXCEPT !.confirm = "asking"]
                                              ELSE L.entries[s]]]

AckFailed == \E s \in Pending : ledger.entries[s].confirm = "failed"

ServiceAcks ==
    /\ Running
    /\ IF AckFailed
       THEN Abort /\ UNCHANGED faults
       ELSE /\ ledger' = Serviced(ledger) /\ ledger' # ledger
            /\ UNCHANGED <<brokerVars, diskVars, phase, attempt, wire, pulling,
                           buildVars, cutVars, jobVars, boundVars>>

-----------------------------------------------------------------------------
(* AckDriver: a confirmation is asked AckTries times at most; a request    *)
(* whose reply is lost may have reached the broker.                        *)

AckAtBroker(s) == consumer' = [consumer EXCEPT !.acked = @ \cup {s},
                                               !.unacked = @ \ {s}]

Confirm(s) ==
    /\ phase \in {"running", "closing"}
    /\ s \in Pending /\ ledger.entries[s].confirm = "asking"
    /\ LET n == ledger.entries[s].tries + 1
       IN  \/ /\ AckAtBroker(s)
              /\ ledger' = [ledger EXCEPT !.entries[s].confirm = "ok"]
              /\ UNCHANGED faults
           \/ /\ AckAtBroker(s) \/ UNCHANGED consumer
              /\ ledger' = [ledger EXCEPT !.entries[s].tries = n,
                                          !.entries[s].confirm =
                                              IF n = AckTries THEN "failed" ELSE @]
              /\ Fault
    /\ UNCHANGED <<first, binding, consumers, diskVars, phase, attempt, wire,
                   pulling, buildVars, cutVars, jobVars, commands>>

-----------------------------------------------------------------------------
(* Input: the main loop takes one record, publish_input drains the ones    *)
(* that are ready behind it, and the batch is published as a whole.        *)

inputFrame == <<brokerVars, phase, attempt, cutVars, jobVars, boundVars>>

StartBatch(s) ==
    /\ pc' = "decode"
    /\ build' = [first |-> s, last |-> s - 1, rows |-> <<>>, record |-> s, turn |-> 1]

ReadFrame ==
    /\ MayRead /\ deferred = None /\ wire # <<>>
    /\ LET f == Head(wire)
       IN  IF ObserveFails(f) THEN Abort /\ UNCHANGED faults
           ELSE /\ wire' = Tail(wire)
                /\ ledger' = Observed(f)
                /\ IF Known(f) THEN UNCHANGED <<pc, build>> ELSE StartBatch(f.seq)
                /\ UNCHANGED <<inputFrame, diskVars, pulling, deferred, qfull>>

ReadDeferred ==
    /\ MayRead /\ deferred # None
    /\ StartBatch(deferred)
    /\ deferred' = None
    /\ UNCHANGED <<inputFrame, diskVars, readerVars, qfull>>

EndPull ==
    /\ MayRead /\ deferred = None /\ pulling /\ wire = <<>>
    /\ pulling' = FALSE
    /\ UNCHANGED <<inputFrame, diskVars, wire, ledger, buildVars>>

\* A record that decodes joins the batch, or waits when the bytes are used up.
DecodeRow ==
    /\ phase = "running" /\ pc = "decode" /\ build.record \notin Poison
    /\ \/ /\ build' = [build EXCEPT !.rows = Append(@, build.record),
                                    !.last = build.record, !.record = None]
          /\ pc' = IF Len(build'.rows) >= BatchRows THEN "batch" ELSE "poll"
          /\ UNCHANGED deferred
       \/ /\ build.rows # <<>>
          /\ deferred' = build.record
          /\ build' = [build EXCEPT !.record = None]
          /\ pc' = "batch"
    /\ UNCHANGED <<inputFrame, diskVars, readerVars, qfull>>

\* A full DLQ keeps the record and the batch ends before it.
Quarantine ==
    LET s == build.record
        kept == s \in dlq
        taken == CheckStart(s) /\ (kept \/ Cardinality(dlq) < DlqEntries)
    IN  /\ phase = "running" /\ pc = "decode" /\ s \in Poison
        /\ IF ~CheckStart(s) THEN Abort /\ UNCHANGED faults
           ELSE /\ dlq' = IF taken THEN dlq \cup {s} ELSE dlq
                /\ captured' = IF taken /\ ~kept THEN [captured EXCEPT ![s] = @ + 1]
                               ELSE captured
                /\ qfull' = ~taken
                /\ deferred' = IF taken THEN deferred ELSE s
                /\ build' = [build EXCEPT !.record = None,
                                          !.last = IF taken THEN s ELSE @]
                /\ pc' = "batch"
                /\ UNCHANGED <<inputFrame, hist, floor, readerVars>>

\* One turn of the loop ends with a poll that never waits; a record it finds
\* in the last turn is deferred.
Poll ==
    /\ phase = "running" /\ pc = "poll" /\ wire # <<>>
    /\ LET f == Head(wire)
           found == IF Known(f) THEN None ELSE f.seq
           over == build.turn = BatchRows
       IN  IF ObserveFails(f) THEN Abort /\ UNCHANGED faults
           ELSE /\ wire' = Tail(wire)
                /\ ledger' = Observed(f)
                /\ build' = [build EXCEPT !.turn = @ + 1,
                                          !.record = IF over THEN None ELSE found]
                /\ deferred' = IF over THEN found ELSE deferred
                /\ pc' = IF over THEN "batch"
                         ELSE IF found = None THEN "poll" ELSE "decode"
                /\ UNCHANGED <<inputFrame, diskVars, pulling, qfull>>

PollNothing ==
    /\ phase = "running" /\ pc = "poll"
    /\ pc' = "batch"
    /\ pulling' \in (IF wire = <<>> THEN {pulling, FALSE} ELSE {pulling})
    /\ UNCHANGED <<inputFrame, diskVars, wire, ledger, deferred, qfull, build>>

\* Published positions move only once the inbox has the rows.
PublishBatch ==
    /\ phase = "running" /\ pc = "batch"
    /\ build.rows # <<>> => Len(inbox) < InboxCap
    /\ IF PublishFails(build.first, build.last) THEN Abort /\ UNCHANGED faults
       ELSE /\ inbox' = IF build.rows = <<>> THEN inbox
                        ELSE Append(inbox, [barrier |-> None, rows |-> build.rows])
            /\ ledger' = Published(build.first, build.last)
            /\ pc' = "loop" /\ build' = NoBuild
            /\ UNCHANGED <<brokerVars, diskVars, phase, attempt, wire, pulling,
                           deferred, qfull, cutVars, applied, boundVars>>

-----------------------------------------------------------------------------
(* Checkpoints.  The admission gate is held by a queued command and by a   *)
(* worker until it reports its outcome.                                    *)

AtGate == {"sending", "aligning", "aligned", "durable"}
GateFree == ~command /\ \A w \in workers : w.st \notin AtGate

\* Mutant: a full ledger waits for the next periodic checkpoint.
NeedsCutForPoison == bootstrap \/ PoisonCutPending

NeedsCut ==
    \/ bootstrap
    \/ PoisonCutPending
    \/ /\ deferred = None /\ ~pulling /\ Full
       /\ ledger.published > ledger.committed

Verified == binding = attempt /\ first <= ledger.committed + 1

\* Mutant: the cut of what was read.
ReceivedCut == ledger.received

SourceCut == ledger.published

BeginCheckpoint ==
    IF ~Verified THEN Abort /\ UNCHANGED faults
    ELSE /\ workers' = workers \cup {[id |-> nextId, cut |-> SourceCut,
                                      rows |-> <<>>, st |-> "sending"]}
         /\ nextId' = nextId + 1
         /\ command' = FALSE
         /\ pc' = "barrier"
         /\ UNCHANGED <<brokerVars, diskVars, phase, attempt, readerVars, deferred,
                        qfull, build, bootstrap, jobVars, boundVars>>

ForceCheckpoint == Running /\ NeedsCut /\ workers = {} /\ GateFree /\ BeginCheckpoint

RequestCheckpoint ==
    /\ phase = "running" /\ GateFree /\ commands < MaxCommands
    /\ command' = TRUE /\ commands' = commands + 1
    /\ UNCHANGED <<brokerVars, diskVars, phase, attempt, readerVars, buildVars,
                   bootstrap, workers, nextId, jobVars, faults>>

TakeCommand == Running /\ command /\ BeginCheckpoint

\* Nobody waits for the answer any more, or its deadline has passed.
DropCommand ==
    /\ Running /\ command
    /\ command' = FALSE
    /\ UNCHANGED <<brokerVars, diskVars, phase, attempt, readerVars, buildVars,
                   bootstrap, workers, nextId, jobVars, boundVars>>

Move(w, st) == workers' = (workers \ {w}) \cup {[w EXCEPT !.st = st]}

SendBarrier(w) ==
    /\ phase = "running" /\ pc = "barrier" /\ w.st = "sending"
    /\ pc' = "loop"
    /\ \/ /\ Len(inbox) < InboxCap
          /\ inbox' = Append(inbox, [barrier |-> w.id, rows |-> <<>>])
          /\ Move(w, "aligning") /\ UNCHANGED faults
       \/ Move(w, "expired") /\ Fault /\ UNCHANGED inbox
    /\ UNCHANGED <<brokerVars, diskVars, phase, attempt, readerVars, deferred,
                   qfull, build, bootstrap, nextId, command, applied, commands>>

workerFrame == <<brokerVars, phase, attempt, readerVars, buildVars, bootstrap,
                 nextId, command, jobVars, commands>>

\* The deadline passes, or the job's cancellation ends the wait.
Expire(w) ==
    /\ w.st = "aligning" /\ Move(w, "expired") /\ Fault
    /\ UNCHANGED <<workerFrame, diskVars>>
CancelWorker(w) ==
    /\ phase = "closing" /\ w.st \in {"sending", "aligning", "aligned"}
    /\ Move(w, "error")
    /\ UNCHANGED <<workerFrame, diskVars, faults>>

Keep(h) == SubSeq(h, IF Len(h) > Retain THEN Len(h) - Retain + 1 ELSE 1, Len(h))
Stored(w) == Keep(Append(hist, [cut |-> w.cut, rows |-> w.rows, readable |-> TRUE]))

\* The blocking commit is never cancelled; one that fails may have published.
Commit(w) ==
    /\ w.st = "aligned"
    /\ \/ hist' = Stored(w) /\ Move(w, "durable") /\ UNCHANGED faults
       \/ hist' \in {hist, Stored(w)} /\ Move(w, "error") /\ Fault
    /\ UNCHANGED <<workerFrame, dlq, captured, floor>>

Finish(w) ==
    /\ \/ w.st = "durable" /\ Move(w, "finished")
       \/ w.st = "finished" /\ Move(w, "returned")
    /\ UNCHANGED <<workerFrame, diskVars, faults>>

CutRefused(cut) == cut < ledger.committed \/ cut > ledger.published

\* mark_committed: the cut, then the ACKs it allows.
JoinReturned(w) ==
    /\ Running /\ w.st = "returned"
    /\ IF CutRefused(w.cut) \/ AckFailed THEN Abort /\ UNCHANGED faults
       ELSE /\ ledger' = Serviced([ledger EXCEPT !.committed = w.cut])
            /\ bootstrap' = FALSE
            /\ workers' = workers \ {w}
            /\ UNCHANGED <<brokerVars, diskVars, phase, attempt, wire, pulling,
                           buildVars, nextId, command, jobVars, boundVars>>
JoinFailed(w) ==
    /\ Running /\ w.st \in {"expired", "error"}
    /\ IF w.st = "error" THEN Abort /\ UNCHANGED faults
       ELSE /\ workers' = workers \ {w}
            /\ UNCHANGED <<workerFrame, diskVars, faults>>

-----------------------------------------------------------------------------
(* The job applies the inbox in order and answers the barrier of a request *)
(* that still waits; a barrier nobody waits for is let through.            *)

Apply ==
    /\ phase \in {"running", "closing"} /\ inbox # <<>>
    /\ LET e == Head(inbox)
           asked == {w \in workers : w.id = e.barrier /\ w.st = "aligning"}
       IN  /\ applied' = applied \o e.rows
           /\ workers' = (workers \ asked) \cup
                           {[w EXCEPT !.rows = applied, !.st = "aligned"] : w \in asked}
    /\ inbox' = Tail(inbox)
    /\ UNCHANGED <<brokerVars, diskVars, phase, attempt, readerVars, buildVars,
                   bootstrap, nextId, command, boundVars>>

-----------------------------------------------------------------------------
(* The stream's retention, a damaged generation, and the operator's purge  *)
(* of a stopped pipeline's quarantined record.                             *)

idleVars == <<phase, attempt, readerVars, buildVars, cutVars, jobVars, commands>>

Evict ==
    /\ first <= NumMsgs /\ first' = first + 1 /\ Fault
    /\ UNCHANGED <<binding, consumers, consumer, diskVars, idleVars>>

Damage ==
    /\ phase = "down" /\ hist # <<>> /\ Last(hist).readable
    /\ hist' = [hist EXCEPT ![Len(hist)].readable = FALSE] /\ Fault
    /\ UNCHANGED <<brokerVars, dlq, captured, floor, idleVars>>

\* Mutant: the purge leaves the floor.
FloorKept(s) == floor

RaisedFloor(s) == IF s > floor THEN s ELSE floor

Purge(s) ==
    /\ phase = "down" /\ hist # <<>> /\ Last(hist).readable
    /\ s \in dlq /\ s <= Last(hist).cut /\ CheckStart(Last(hist).cut)
    /\ dlq' = dlq \ {s}
    /\ floor' = RaisedFloor(s)
    /\ UNCHANGED <<brokerVars, hist, captured, idleVars, faults>>

-----------------------------------------------------------------------------
Opening == Open \/ DeleteOld \/ Bind \/ Create \/ CreateFails
Input == \/ PreparePull \/ ReadFrame \/ ReadDeferred \/ EndPull
         \/ DecodeRow \/ Quarantine \/ Poll \/ PollNothing \/ PublishBatch
Checkpointing ==
    \/ ForceCheckpoint \/ RequestCheckpoint \/ TakeCommand \/ DropCommand
    \/ \E w \in workers : \/ SendBarrier(w) \/ Expire(w) \/ CancelWorker(w)
                          \/ Commit(w) \/ Finish(w) \/ JoinReturned(w)
                          \/ JoinFailed(w)
Ending == JobFails \/ Crash \/ Close
Environment == DropFrame \/ Evict \/ Damage \/ \E s \in Poison : Purge(s)

Next == \/ Opening \/ Input \/ ServiceAcks \/ \E s \in Msgs : Confirm(s)
        \/ Checkpointing \/ Apply \/ Ending \/ Environment

Spec == Init /\ [][Next]_vars

(***************************************************************************)
(* The actor's select is biased: signals, joins and commands come before   *)
(* input, so none of them is passed over for ever while the loop turns.    *)
(* The workers, the ACK driver and the job are tasks of their own.         *)
(***************************************************************************)
WorkerStep(k) == \E w \in workers :
    w.id = k /\ (SendBarrier(w) \/ CancelWorker(w) \/ Commit(w) \/ Finish(w))
Join == \E w \in workers : JoinReturned(w) \/ JoinFailed(w)

FairSpec ==
    /\ Spec
    /\ WF_vars(Opening) /\ WF_vars(Input) /\ WF_vars(Apply) /\ WF_vars(Close)
    /\ SF_vars(ServiceAcks) /\ SF_vars(Join) /\ SF_vars(ForceCheckpoint)
    /\ SF_vars(TakeCommand \/ DropCommand)
    /\ \A k \in 1..NumMsgs + MaxCommands + MaxFaults + 1 : WF_vars(WorkerStep(k))
    /\ \A s \in Msgs : WF_vars(Confirm(s))

-----------------------------------------------------------------------------
(* Properties.                                                             *)

\* The broker holds an ACK only for a message that a published checkpoint
\* covers, whatever was lost, redelivered, damaged or restarted: "Newer
\* prefetched/applied rows above cut never become eligible for ACK"
\* (Reader::checkpoint_committed).
AckedIsDurable ==
    \A s \in consumer.acked : hist # <<>> /\ s <= Last(hist).cut

\* A checkpoint holds every row up to its source cut exactly once and in
\* order, and each poison record up to the cut was quarantined: no gap of the
\* broker, no redelivery and no stale barrier moves rows across a cut
\* (Actor::checkpoint, DeliveryLedger::observe).
DurableExact ==
    \A i \in DOMAIN hist :
        /\ Span(hist[i].rows, 0, hist[i].cut)
        /\ \A s \in Poison : s <= hist[i].cut => captured[s] >= 1

\* A poison record is inserted into the input DLQ once: a replay finds it by
\* its position, and a record retired by a purge is not replayed because a
\* cut below the replay floor does not start (InputDlq::capture, ::purge).
QuarantinedOnce == \A s \in Poison : captured[s] <= 1

\* The only consumer at the broker is the one the binding names, so that the
\* next attempt finds and deletes it: "Updating the binding first would leak
\* an untracked consumer on crash/timeout" (Reader::open).
NoOrphanConsumer == consumers \subseteq {binding}

\* A source that cannot read on, its ledger or its DLQ being full, cuts by
\* itself: a published message that keeps it full becomes durable and its ACK
\* is confirmed, or there is room again, or the attempt ends (Actor::run:
\* source_full and poison_cut_pending).
Stuck(s) == /\ phase = "running" /\ (Full \/ qfull)
            /\ s \in Pending /\ s <= ledger.published
BlockedSourceDrains == \A s \in Msgs : Stuck(s) ~> ~Stuck(s)
=============================================================================
