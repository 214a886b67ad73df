---------------------------- MODULE AlignedGraph ----------------------------
(***************************************************************************)
(* The aligned checkpoint of a graph job: file sources, a UnionAll, a      *)
(* window and a sink, connected by bounded channels, and the coordinator   *)
(* that cuts them (sparrow-control supervisor/graph.rs, sparrow-runtime    *)
(* barrier.rs, kernel.rs and kernel/graph.rs).                             *)
(*                                                                         *)
(* A checkpoint has an id.  The coordinator opens an ACK inbox for it,     *)
(* asks every source for its position and a barrier behind it, and commits *)
(* once every participant acknowledged.  A deadline may abandon it at any  *)
(* point, and its barriers are then still on their way.                    *)
(*                                                                         *)
(* A row is <<source, n>>.  The window turns the rows it holds into one    *)
(* result; a result is identified with the set of rows it stands for.      *)
(***************************************************************************)
EXTENDS Integers, Sequences, FiniteSets, FiniteSetsExt

CONSTANTS
    NumSources,   \* sources are 1..NumSources, in the order of `sources`
    Rows,         \* bound: rows per source file
    Batch,        \* FILE_POLL_BATCH_FRAMES
    Cap,          \* capacity of every channel, in messages
    MaxId,        \* bound: checkpoint attempts
    MaxFaults,    \* bound: deadlines, failed freezes and failed commits
    MaxDrops,     \* bound: results the connector drops
    MaxCrashes    \* bound: job failures and crashes

ASSUME GraphAssumption ==
    /\ NumSources \in Nat \ {0}
    /\ Rows \in Nat /\ Batch \in Nat \ {0} /\ Cap \in Nat \ {0}
    /\ MaxId \in Nat /\ MaxFaults \in Nat /\ MaxDrops \in Nat
    /\ MaxCrashes \in Nat

Sources == 1..NumSources
Ids == 1..MaxId
None == 0
AllRows == Sources \X (1..Rows)

Data(R) == [barrier |-> None, rows |-> R]
Barrier(k) == [barrier |-> k, rows |-> {}]
Message ==
    [barrier : {None}, rows : SUBSET AllRows] \cup [barrier : Ids, rows : {{}}]

VARIABLES
    cursor,     \* cursor[s]: rows taken from the file
    unsent,     \* unsent[s]: rows of the taken batch not yet sent
    cut,        \* cut[s]: id in the source's Cut channel (capacity 1)
    injecting,  \* injecting[s]: id whose barrier the file actor is sending
    ingress,    \* ingress[s]: file actor -> source stage
    mail,       \* mail[s]: source stage -> union
    blocked,    \* the union's blocked inputs
    aligning,   \* the union's aligning id
    checked,    \* the union found its alignment's token live and polls on
    completed,  \* the union's completed id
    hand,       \* the input whose envelope the union took, and the envelope
    toWindow,   \* union -> window
    held,       \* rows in the open window
    toSink,     \* window -> sink stage
    flushing,   \* id the sink stage waits to flush
    outbox,     \* sink stage -> connector: sent, not yet acked or failed
    failed,     \* InflightCounter.failed
    marked,     \* InflightCounter.marked_failed
    active,     \* AlignedAcks.active
    toCut,      \* sources the coordinator has yet to send its Cut to
    replies,    \* replies[s]: the source's answer to the current attempt's Cut
    acks,       \* participants whose good ACK is in the inbox
    refused,    \* the inbox holds a bad ACK
    frozen,     \* the window's freeze in the inbox
    phase,      \* the coordinator: idle, aligning or committing
    nextId,     \* the coordinator's next
    committed,  \* the last committed snapshot
    delivered,  \* rows whose result reached the outside
    faults, drops, crashes

sourceVars == <<cursor, unsent, cut, injecting, ingress, mail>>
unionVars == <<blocked, aligning, checked, completed, hand>>
windowVars == <<toWindow, held>>
sinkVars == <<toSink, flushing, outbox, failed, marked>>
inboxVars == <<acks, refused, frozen>>
coordVars == <<active, toCut, replies, phase, nextId>>
boundVars == <<faults, drops, crashes>>
vars == <<sourceVars, unionVars, windowVars, sinkVars, inboxVars, coordVars,
          committed, delivered, boundVars>>

Waiting == -1      \* no answer to the Cut yet
Lost == -2         \* the answer is an error
Window == NumSources + 1
Sink == NumSources + 2
Participants == Sources \cup {Window, Sink}
NoHand == [from |-> None, msg |-> Data({})]

TypeOK ==
    /\ cursor \in [Sources -> 0..Rows]
    /\ unsent \in [Sources -> 0..Batch]
    /\ cut \in [Sources -> Ids \cup {None}]
    /\ injecting \in [Sources -> Ids \cup {None}]
    /\ ingress \in [Sources -> Seq(Message)] /\ mail \in [Sources -> Seq(Message)]
    /\ \A s \in Sources : Len(ingress[s]) <= Cap /\ Len(mail[s]) <= Cap
    /\ blocked \in SUBSET Sources
    /\ aligning \in Ids \cup {None}
    /\ checked \in BOOLEAN
    /\ completed \in Ids \cup {None}
    /\ hand \in [from : Sources \cup {None}, msg : Message]
    /\ toWindow \in Seq(Message) /\ Len(toWindow) <= Cap
    /\ held \in SUBSET AllRows
    /\ toSink \in Seq(Message) /\ Len(toSink) <= Cap
    /\ flushing \in Ids \cup {None}
    /\ outbox \in Seq(Message) /\ Len(outbox) <= Cap
    /\ failed \in 0..MaxDrops /\ marked \in 0..MaxDrops
    /\ active \in Ids \cup {None}
    /\ toCut \in SUBSET Sources
    /\ replies \in [Sources -> 0..Rows \cup {Waiting, Lost}]
    /\ acks \in SUBSET Participants
    /\ refused \in BOOLEAN
    /\ frozen \in SUBSET AllRows
    /\ phase \in {"idle", "aligning", "committing"}
    /\ nextId \in 1..MaxId + 1
    /\ committed \in [id : Ids \cup {None}, pos : [Sources -> 0..Rows],
                      held : SUBSET AllRows]
    /\ delivered \in SUBSET AllRows
    /\ faults \in 0..MaxFaults /\ drops \in 0..MaxDrops
    /\ crashes \in 0..MaxCrashes

-----------------------------------------------------------------------------
\* a bounded channel makes its sender wait
Room(q) == Len(q) < Cap

Zero == [s \in Sources |-> 0]       \* also: None for every source
Empty == [s \in Sources |-> <<>>]
NoReplies == [s \in Sources |-> Waiting]

Init ==
    /\ committed = [id |-> None, pos |-> Zero, held |-> {}]
    /\ cursor = Zero /\ unsent = Zero /\ cut = Zero /\ injecting = Zero
    /\ ingress = Empty /\ mail = Empty
    /\ blocked = {} /\ aligning = None /\ checked = FALSE
    /\ completed = None /\ hand = NoHand
    /\ toWindow = <<>> /\ held = {}
    /\ toSink = <<>> /\ flushing = None /\ outbox = <<>>
    /\ failed = 0 /\ marked = 0
    /\ active = None /\ toCut = {} /\ replies = NoReplies
    /\ acks = {} /\ refused = FALSE /\ frozen = {}
    /\ phase = "idle" /\ nextId = 1
    /\ delivered = {}
    /\ faults = 0 /\ drops = 0 /\ crashes = 0

-----------------------------------------------------------------------------
(* The ACK registry.  An ACK reaches the inbox only while its id is        *)
(* active; ending a request empties and closes the inbox.                  *)

Ack(k, p) ==
    acks' = IF active = k THEN acks \cup {p} ELSE acks

Refuse(k) ==
    refused' = (refused \/ active = k)

EndRequest ==
    /\ active' = None
    /\ acks' = {} /\ refused' = FALSE /\ frozen' = {}
    /\ toCut' = {}
    /\ replies' = NoReplies

Fault == faults < MaxFaults /\ faults' = faults + 1

-----------------------------------------------------------------------------
(* file_actor and live_source.                                             *)

\* the actor is back at its select
Idle(s) == unsent[s] = 0 /\ injecting[s] = None

\* take_file_batch: the cursor moves over the whole batch at once
Poll(s) ==
    /\ Idle(s)
    /\ cut[s] = None            \* the select is biased: a Cut comes first
    /\ \E n \in 1..Batch :
          /\ cursor[s] + n <= Rows
          /\ cursor' = [cursor EXCEPT ![s] = @ + n]
          /\ unsent' = [unsent EXCEPT ![s] = n]
    /\ UNCHANGED <<cut, injecting, ingress, mail, unionVars, windowVars,
                   sinkVars, inboxVars, coordVars, committed, delivered,
                   boundVars>>

\* apply_file_batch: one row after the other
SendRow(s) ==
    /\ unsent[s] > 0
    /\ Room(ingress[s])
    /\ ingress' = [ingress EXCEPT ![s] =
                     Append(@, Data({<<s, cursor[s] - unsent[s] + 1>>}))]
    /\ unsent' = [unsent EXCEPT ![s] = @ - 1]
    /\ UNCHANGED <<cursor, cut, injecting, mail, unionVars, windowVars,
                   sinkVars, inboxVars, coordVars, committed, delivered,
                   boundVars>>

\* A Cut whose reply is closed is skipped; otherwise the position is read
\* and the barrier is on its way.
TakeCut(s) ==
    /\ Idle(s)
    /\ cut[s] # None
    /\ cut' = [cut EXCEPT ![s] = None]
    /\ injecting' = [injecting EXCEPT ![s] = IF cut[s] = active THEN cut[s] ELSE None]
    /\ UNCHANGED <<cursor, unsent, ingress, mail, unionVars, windowVars,
                   sinkVars, inboxVars, coordVars, committed, delivered,
                   boundVars>>

InjectBarrier(s) ==
    /\ injecting[s] # None
    /\ Room(ingress[s])
    /\ ingress' = [ingress EXCEPT ![s] = Append(@, Barrier(injecting[s]))]
    /\ replies' = IF injecting[s] = active
                  THEN [replies EXCEPT ![s] = cursor[s]] ELSE replies
    /\ injecting' = [injecting EXCEPT ![s] = None]
    /\ UNCHANGED <<cursor, unsent, cut, mail, unionVars, windowVars, sinkVars,
                   inboxVars, active, toCut, phase, nextId, committed,
                   delivered, boundVars>>

\* The actor gives up at the attempt's deadline and answers with an error.
InjectTimesOut(s) ==
    /\ injecting[s] # None
    /\ Fault
    /\ replies' = IF injecting[s] = active
                  THEN [replies EXCEPT ![s] = Lost] ELSE replies
    /\ injecting' = [injecting EXCEPT ![s] = None]
    /\ UNCHANGED <<cursor, unsent, cut, ingress, mail, unionVars, windowVars,
                   sinkVars, inboxVars, active, toCut, phase, nextId, committed,
                   delivered, drops, crashes>>

\* live_source and publish_source_control: the barrier is forwarded first,
\* then source_cut is acknowledged
SourceForward(s) ==
    /\ ingress[s] # <<>>
    /\ Room(mail[s])
    /\ ingress' = [ingress EXCEPT ![s] = Tail(@)]
    /\ mail' = [mail EXCEPT ![s] = Append(@, Head(ingress[s]))]
    /\ IF Head(ingress[s]).barrier # None
       THEN Ack(Head(ingress[s]).barrier, s) ELSE UNCHANGED acks
    /\ UNCHANGED <<cursor, unsent, cut, injecting, unionVars, windowVars,
                   sinkVars, refused, frozen, coordVars, committed, delivered,
                   boundVars>>

-----------------------------------------------------------------------------
(* UnionAll.                                                               *)

\* abandonment(id): the request of the alignment is gone
Abandoned == aligning # None /\ aligning # active

\* Mutant: the inputs stay blocked for the dropped alignment.
UnionAbandonBlocked ==
    /\ hand = NoHand /\ ~checked
    /\ Abandoned
    /\ aligning' = None
    /\ UNCHANGED <<sourceVars, blocked, checked, completed, hand, windowVars,
                   sinkVars, inboxVars, coordVars, committed, delivered,
                   boundVars>>

\* The head of the loop and the first branch of the select: an abandoned
\* alignment is dropped.
UnionAbandon ==
    /\ hand = NoHand /\ ~checked
    /\ Abandoned
    /\ blocked' = {} /\ aligning' = None
    /\ UNCHANGED <<sourceVars, checked, completed, hand, windowVars, sinkVars,
                   inboxVars, coordVars, committed, delivered, boundVars>>

\* The token is polled first and found live; the inputs are polled after it,
\* and by then the request may be gone.
UnionPoll ==
    /\ hand = NoHand /\ ~checked
    /\ aligning # None /\ ~Abandoned
    /\ checked' = TRUE
    /\ UNCHANGED <<sourceVars, blocked, aligning, completed, hand, windowVars,
                   sinkVars, inboxVars, coordVars, committed, delivered,
                   boundVars>>

\* Mutant: an input is polled although its barrier has arrived.
ReadableBlocked(s) == mail[s] # <<>>

Readable(s) == s \notin blocked /\ mail[s] # <<>>

\* No input is ready: the next wake polls the select again from its head.
UnionPending ==
    /\ checked
    /\ \A s \in Sources : ~Readable(s)
    /\ checked' = FALSE
    /\ UNCHANGED <<sourceVars, blocked, aligning, completed, hand, windowVars,
                   sinkVars, inboxVars, coordVars, committed, delivered,
                   boundVars>>

\* Without an alignment there is no token to poll.
UnionTake(s) ==
    /\ hand = NoHand
    /\ checked \/ aligning = None
    /\ Readable(s)
    /\ hand' = [from |-> s, msg |-> Head(mail[s])]
    /\ mail' = [mail EXCEPT ![s] = Tail(@)]
    /\ checked' = FALSE
    /\ UNCHANGED <<cursor, unsent, cut, injecting, ingress, blocked, aligning,
                   completed, windowVars, sinkVars, inboxVars, coordVars,
                   committed, delivered, boundVars>>

UnionForward ==
    /\ hand # NoHand /\ hand.msg.barrier = None
    /\ Room(toWindow)
    /\ toWindow' = Append(toWindow, hand.msg)
    /\ hand' = NoHand
    /\ UNCHANGED <<sourceVars, blocked, aligning, checked, completed, held,
                   sinkVars, inboxVars, coordVars, committed, delivered,
                   boundVars>>

\* A barrier in the union's hand is looked at once; its input is blocked from
\* then on, also while the union waits for room to pass the last one on.
Arrived == hand.msg.barrier # None /\ hand.from \notin blocked

Stale(k) == k <= completed \/ k # active

UnionSkip ==
    /\ Arrived
    /\ Stale(hand.msg.barrier)
    /\ hand' = NoHand
    /\ UNCHANGED <<sourceVars, blocked, aligning, checked, completed,
                   windowVars, sinkVars, inboxVars, coordVars, committed,
                   delivered, boundVars>>

\* "conflicting active graph barrier"
Conflict ==
    /\ Arrived
    /\ ~Stale(hand.msg.barrier)
    /\ aligning \notin {None, hand.msg.barrier}

\* The input is blocked.  The barrier of the last one stays in hand until
\* there is room for it behind the union.
UnionBlock ==
    /\ Arrived
    /\ ~Stale(hand.msg.barrier) /\ ~Conflict
    /\ aligning' = hand.msg.barrier
    /\ blocked' = blocked \cup {hand.from}
    /\ hand' = IF blocked' = Sources THEN hand ELSE NoHand
    /\ UNCHANGED <<sourceVars, checked, completed, windowVars, sinkVars,
                   inboxVars, coordVars, committed, delivered, boundVars>>

\* Mutant: the inputs stay blocked after the alignment.
UnionAlignBlocked ==
    /\ hand.msg.barrier # None /\ hand.from \in blocked
    /\ Room(toWindow)
    /\ toWindow' = Append(toWindow, hand.msg)
    /\ completed' = hand.msg.barrier
    /\ aligning' = None
    /\ hand' = NoHand
    /\ UNCHANGED <<sourceVars, blocked, checked, held, sinkVars, inboxVars,
                   coordVars, committed, delivered, boundVars>>

\* One barrier goes on and all inputs are released, whatever has become of
\* the request meanwhile.
UnionAlign ==
    /\ hand.msg.barrier # None /\ hand.from \in blocked
    /\ Room(toWindow)
    /\ toWindow' = Append(toWindow, hand.msg)
    /\ completed' = hand.msg.barrier
    /\ aligning' = None /\ blocked' = {}
    /\ hand' = NoHand
    /\ UNCHANGED <<sourceVars, checked, held, sinkVars, inboxVars, coordVars,
                   committed, delivered, boundVars>>

-----------------------------------------------------------------------------
(* The window stage.                                                       *)

WindowAbsorb ==
    /\ toWindow # <<>> /\ Head(toWindow).barrier = None
    /\ toWindow' = Tail(toWindow)
    /\ held' = held \cup Head(toWindow).rows
    /\ UNCHANGED <<sourceVars, unionVars, sinkVars, inboxVars, coordVars,
                   committed, delivered, boundVars>>

\* emit_due and emit_window: the open window closes
WindowEmit ==
    /\ held # {}
    /\ Room(toSink)
    /\ toSink' = Append(toSink, Data(held))
    /\ held' = {}
    /\ UNCHANGED <<sourceVars, unionVars, toWindow, flushing, outbox, failed,
                   marked, inboxVars, coordVars, committed, delivered,
                   boundVars>>

\* The freeze is acknowledged only while the request lives; the barrier is
\* forwarded in any case.
WindowBarrier ==
    /\ toWindow # <<>> /\ Head(toWindow).barrier # None
    /\ Room(toSink)
    /\ toWindow' = Tail(toWindow)
    /\ toSink' = Append(toSink, Head(toWindow))
    /\ LET k == Head(toWindow).barrier
       IN  \/ /\ Ack(k, Window)
              /\ frozen' = IF active = k THEN held ELSE frozen
              /\ UNCHANGED <<refused, faults>>
           \/ /\ active = k /\ Fault /\ Refuse(k)
              /\ UNCHANGED <<acks, frozen>>
    /\ UNCHANGED <<sourceVars, unionVars, held, flushing, outbox, failed,
                   marked, coordVars, committed, delivered, drops, crashes>>

-----------------------------------------------------------------------------
(* The sink stage, its InflightCounter, and the connector behind it.       *)

SinkSend ==
    /\ flushing = None
    /\ toSink # <<>> /\ Head(toSink).barrier = None
    /\ Room(outbox)
    /\ toSink' = Tail(toSink)
    /\ outbox' = Append(outbox, Head(toSink))
    /\ UNCHANGED <<sourceVars, unionVars, windowVars, flushing, failed, marked,
                   inboxVars, coordVars, committed, delivered, boundVars>>

SinkBarrier ==
    /\ flushing = None
    /\ toSink # <<>> /\ Head(toSink).barrier # None
    /\ toSink' = Tail(toSink)
    /\ flushing' = IF Head(toSink).barrier = active THEN active ELSE None
    /\ UNCHANGED <<sourceVars, unionVars, windowVars, outbox, failed, marked,
                   inboxVars, coordVars, committed, delivered, boundVars>>

\* wait_for_flush returns None: the request was dropped
SinkAbandon ==
    /\ flushing # None /\ flushing # active
    /\ flushing' = None
    /\ UNCHANGED <<sourceVars, unionVars, windowVars, toSink, outbox, failed,
                   marked, inboxVars, coordVars, committed, delivered,
                   boundVars>>

\* Mutant: the barrier does not wait for receipts.
PendingIgnored == 0

\* sent - acked - failed
Pending == Len(outbox)

\* a drop since the last mark refuses the checkpoint
SinkFlushed ==
    /\ flushing # None
    /\ Pending = 0
    /\ flushing' = None
    /\ IF failed = marked
       THEN marked' = failed /\ Ack(flushing, Sink) /\ UNCHANGED refused
       ELSE Refuse(flushing) /\ UNCHANGED <<marked, acks>>
    /\ UNCHANGED <<sourceVars, unionVars, windowVars, toSink, outbox, failed,
                   frozen, coordVars, committed, delivered, boundVars>>

\* wait_outbox reaches the deadline
SinkTimesOut ==
    /\ flushing # None /\ flushing = active
    /\ Pending > 0
    /\ Fault
    /\ flushing' = None
    /\ Refuse(flushing)
    /\ UNCHANGED <<sourceVars, unionVars, windowVars, toSink, outbox, failed,
                   marked, acks, frozen, coordVars, committed, delivered, drops,
                   crashes>>

\* The connector has a receipt for the oldest result.
Deliver ==
    /\ outbox # <<>>
    /\ outbox' = Tail(outbox)
    /\ delivered' = delivered \cup Head(outbox).rows
    /\ UNCHANGED <<sourceVars, unionVars, windowVars, toSink, flushing, failed,
                   marked, inboxVars, coordVars, committed, boundVars>>

\* The connector drops it (4xx, encoding, retries exhausted).
DropResult ==
    /\ outbox # <<>>
    /\ drops < MaxDrops /\ drops' = drops + 1
    /\ outbox' = Tail(outbox)
    /\ failed' = failed + 1
    /\ UNCHANGED <<sourceVars, unionVars, windowVars, toSink, flushing, marked,
                   inboxVars, coordVars, committed, delivered, faults, crashes>>

-----------------------------------------------------------------------------
(* coordinate().                                                           *)

BeginCheckpoint ==
    /\ phase = "idle"
    /\ nextId <= MaxId
    /\ phase' = "aligning"
    /\ active' = nextId
    /\ nextId' = nextId + 1
    /\ toCut' = Sources
    /\ UNCHANGED <<sourceVars, unionVars, windowVars, sinkVars, inboxVars,
                   replies, committed, delivered, boundVars>>

\* The Cut channel of a source holds one; sources are asked in order.
SendCut(s) ==
    /\ phase = "aligning" /\ toCut # {}
    /\ s = Min(toCut)
    /\ cut[s] = None
    /\ cut' = [cut EXCEPT ![s] = active]
    /\ toCut' = toCut \ {s}
    /\ UNCHANGED <<cursor, unsent, injecting, ingress, mail, unionVars,
                   windowVars, sinkVars, inboxVars, active, replies, phase,
                   nextId, committed, delivered, boundVars>>

\* timeout_at(deadline): the attempt and its request are dropped
Timeout ==
    /\ phase = "aligning"
    /\ Fault
    /\ EndRequest
    /\ phase' = "idle"
    /\ UNCHANGED <<sourceVars, unionVars, windowVars, sinkVars, nextId,
                   committed, delivered, drops, crashes>>

Answered == toCut = {} /\ \A s \in Sources : replies[s] \in 0..Rows

CutFailed ==
    /\ phase = "aligning" /\ toCut = {}
    /\ \E s \in Sources : replies[s] = Lost
    /\ EndRequest
    /\ phase' = "idle"
    /\ UNCHANGED <<sourceVars, unionVars, windowVars, sinkVars, nextId,
                   committed, delivered, boundVars>>

\* wait_participants returns at the first bad ACK
Refused ==
    /\ phase = "aligning" /\ Answered
    /\ refused
    /\ EndRequest
    /\ phase' = "idle"
    /\ UNCHANGED <<sourceVars, unionVars, windowVars, sinkVars, nextId,
                   committed, delivered, boundVars>>

\* Every participant acknowledged.  The request ends and the snapshot is
\* encoded; the store commits it later, off the actor.
Aligned ==
    /\ phase = "aligning" /\ Answered
    /\ acks = Participants /\ ~refused
    /\ phase' = "committing"
    /\ active' = None /\ acks' = {}
    /\ UNCHANGED <<sourceVars, unionVars, windowVars, sinkVars, refused, frozen,
                   toCut, replies, nextId, committed, delivered, boundVars>>

Committed ==
    /\ phase = "committing"
    /\ committed' = [id |-> nextId - 1, pos |-> replies, held |-> frozen]
    /\ EndRequest
    /\ phase' = "idle"
    /\ UNCHANGED <<sourceVars, unionVars, windowVars, sinkVars, nextId,
                   delivered, boundVars>>

CommitFails ==
    /\ phase = "committing"
    /\ Fault
    /\ EndRequest
    /\ phase' = "idle"
    /\ UNCHANGED <<sourceVars, unionVars, windowVars, sinkVars, nextId,
                   committed, delivered, drops, crashes>>

\* source.seek(&position) for every source of the snapshot
SeekTo == committed.pos

\* The restart: the sources seek to the committed positions, the window
\* restores the committed rows, everything else is rebuilt.  The store numbers
\* on from the generations it finds: a failed attempt may or may not have left
\* one.
Restart ==
    /\ cursor' = SeekTo /\ held' = committed.held
    /\ unsent' = Zero /\ cut' = Zero /\ injecting' = Zero
    /\ ingress' = Empty /\ mail' = Empty
    /\ blocked' = {} /\ aligning' = None /\ checked' = FALSE
    /\ completed' = None /\ hand' = NoHand
    /\ toWindow' = <<>> /\ toSink' = <<>> /\ flushing' = None /\ outbox' = <<>>
    /\ failed' = 0 /\ marked' = 0
    /\ EndRequest
    /\ phase' = "idle"
    /\ nextId' \in committed.id + 1..nextId
    /\ UNCHANGED <<committed, delivered, faults, drops>>

\* A crash, or a job failed for another reason (a drop fails a graph job).
Crash ==
    /\ crashes < MaxCrashes /\ crashes' = crashes + 1
    /\ Restart

\* The union returns its error, the job fails and is started again.
UnionFails ==
    /\ Conflict
    /\ Restart
    /\ UNCHANGED crashes

-----------------------------------------------------------------------------
SourceSteps(s) ==
    \/ Poll(s) \/ SendRow(s) \/ TakeCut(s) \/ InjectBarrier(s)
    \/ SourceForward(s) \/ InjectTimesOut(s)

UnionSteps ==
    \/ UnionAbandon \/ UnionPoll \/ UnionPending
    \/ \E s \in Sources : UnionTake(s)
    \/ UnionForward \/ UnionSkip \/ UnionBlock \/ UnionAlign

WindowSteps == WindowAbsorb \/ WindowEmit \/ WindowBarrier

SinkSteps == SinkSend \/ SinkBarrier \/ SinkAbandon \/ SinkFlushed \/ SinkTimesOut

Coordinate ==
    \/ BeginCheckpoint
    \/ \E s \in Sources : SendCut(s)
    \/ CutFailed \/ Refused \/ Aligned
    \/ Committed \/ CommitFails
    \/ Timeout

Next ==
    \/ \E s \in Sources : SourceSteps(s)
    \/ UnionSteps
    \/ WindowSteps
    \/ SinkSteps
    \/ Deliver \/ DropResult
    \/ Coordinate
    \/ Crash \/ UnionFails

Spec == Init /\ [][Next]_vars

\* Every task is scheduled again while it can run, and the connector keeps
\* delivering.  Nothing is assumed of deadlines, of new checkpoints, of the
\* file growing or of the window closing.
Fairness ==
    /\ \A s \in Sources : /\ WF_vars(SendRow(s))
                          /\ WF_vars(TakeCut(s))
                          /\ WF_vars(InjectBarrier(s))
                          /\ WF_vars(SourceForward(s))
                          /\ WF_vars(SendCut(s))
    /\ WF_vars(UnionSteps \/ UnionFails)
    /\ WF_vars(WindowAbsorb) /\ WF_vars(WindowBarrier)
    /\ WF_vars(SinkSend \/ SinkBarrier) /\ WF_vars(SinkAbandon)
    /\ WF_vars(SinkFlushed) /\ WF_vars(Deliver)
    /\ WF_vars(CutFailed) /\ WF_vars(Refused) /\ WF_vars(Aligned)
    /\ WF_vars(Committed \/ CommitFails)

FairSpec == Spec /\ Fairness

-----------------------------------------------------------------------------
(* Properties.                                                             *)

RowsIn(q) == UNION {q[i].rows : i \in DOMAIN q}

InFlight ==
    (UNION {{<<s, n>> : n \in cursor[s] - unsent[s] + 1..cursor[s]}
              \cup RowsIn(ingress[s]) \cup RowsIn(mail[s]) : s \in Sources})
      \cup hand.msg.rows \cup RowsIn(toWindow) \cup held
      \cup RowsIn(toSink) \cup RowsIn(outbox)

BeforeCut == {r \in AllRows : r[2] <= committed.pos[r[1]]}

\* A restart loses no row: every row before the committed positions is in
\* the committed window state, or its result has a receipt.
NoLossBeforeCut == BeforeCut \subseteq delivered \cup committed.held

\* A restart counts no row twice: the committed window state holds no row
\* that the sources will read again, and what is still under way from before
\* the cut is in that state.
CutIsClean ==
    /\ committed.held \subseteq BeforeCut
    /\ InFlight \cap BeforeCut \subseteq committed.held

\* An attempt ends on its own, by its commit, a refusal or the failure of the
\* job: alignment needs no deadline to get unstuck, whatever barriers and Cuts
\* earlier attempts left behind.
AttemptEnds == phase = "aligning" ~> phase = "idle"

\* Every row that was read is absorbed by the window and every result is
\* delivered or dropped, whatever attempts are abandoned on the way.
Drains ==
    <>[]( /\ \A s \in Sources : unsent[s] = 0 /\ ingress[s] = <<>> /\ mail[s] = <<>>
          /\ hand = NoHand /\ toWindow = <<>> /\ toSink = <<>> /\ outbox = <<>>
          /\ blocked = {} /\ flushing = None)
=============================================================================
