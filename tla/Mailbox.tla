------------------------------ MODULE Mailbox ------------------------------
(***************************************************************************)
(* The bounded mailbox on every edge of a job: an item-bounded channel and *)
(* a byte-credit semaphore, shared by several senders, one receiver and a  *)
(* cancellation token, with an observer that keeps gauges under its lock.  *)
(*                                                                         *)
(* A sender takes byte credit, then a slot, then publishes; an envelope    *)
(* carries its credit until it is dropped, by the sender that gave up, by  *)
(* the consumer that is done with it, or by the receiver's destruction.    *)
(* Taking the lock of the observer is one step; acquiring credit and       *)
(* counting it are two, and so are uncounting and returning it.            *)
(*                                                                         *)
(* Tokio's semaphores are FIFO: released permits go to the oldest waiter,  *)
(* and a newcomer finds none while anyone waits.  An envelope is its size  *)
(* in bytes; a control message is an envelope of size 1.                   *)
(***************************************************************************)
EXTENDS Naturals, Sequences, FiniteSets

CONSTANTS
  Senders,   \* clones of MailboxTx, one send at a time each
  Sizes,     \* the sizes tried, those beyond MaxBytes are refused
  MaxItems,  \* MailboxConfig::max_items
  MaxBytes   \* MailboxConfig::max_bytes

ASSUME MailboxAssumption ==
  /\ IsFiniteSet(Senders)
  /\ Sizes \subseteq Nat \ {0}
  /\ IsFiniteSet(Sizes)
  /\ MaxItems \in Nat \ {0}
  /\ MaxBytes \in Nat \ {0}

VARIABLES
  free,       \* permits of the byte semaphore
  byteWait,   \* its waiters, oldest first
  slots,      \* permits of the channel
  slotWait,   \* its waiters, oldest first
  chan,       \* the envelopes in the channel
  held,       \* how many envelopes of each size the consumer holds
  refunds,    \* envelopes uncounted but not yet returned to the semaphore
  tx,         \* the send in progress of every sender
  rx,         \* the receiver: open, marked, bytes closed, closed
  cancelled,  \* the cancellation token
  gauge       \* the observer's snapshot

vars == <<free, byteWait, slots, slotWait, chan, held, refunds, tx, rx,
          cancelled, gauge>>

Fits == {n \in Sizes : n <= MaxBytes}
NoSend == [pc |-> "idle", n |-> 0, wait |-> FALSE]

\* pending is enqueued_items_total - received_items_total - discarded.
Init ==
  /\ free = MaxBytes /\ byteWait = <<>>
  /\ slots = MaxItems /\ slotWait = <<>>
  /\ chan = <<>>
  /\ held = [n \in Fits |-> 0]
  /\ refunds = [n \in Fits |-> 0]
  /\ tx = [s \in Senders |-> NoSend]
  /\ rx = "open"
  /\ cancelled = FALSE
  /\ gauge = [open |-> TRUE, queued |-> 0, queuedBytes |-> 0, held |-> 0,
              reserved |-> 0, stamps |-> 0, pending |-> 0, errors |-> 0]

Goto(s, pc) == tx' = [tx EXCEPT ![s].pc = pc]
Leave(q, s) == SelectSeq(q, LAMBDA x : x # s)
Saturating(a, b) == IF a < b THEN 0 ELSE a - b

-----------------------------------------------------------------------------
(* send_inner                                                              *)

Send(s, n, wait) ==
  /\ tx[s].pc = "idle"
  /\ n \in Fits
  /\ ~cancelled
  /\ tx' = [tx EXCEPT ![s] = [pc |-> "credit", n |-> n, wait |-> wait]]
  /\ UNCHANGED <<free, byteWait, slots, slotWait, chan, held, refunds, rx,
                 cancelled, gauge>>

\* The send returns without credit.
Return(s) ==
  /\ tx' = [tx EXCEPT ![s] = NoSend]
  /\ byteWait' = Leave(byteWait, s)
  /\ UNCHANGED <<free, slots, slotWait, chan, held, refunds, rx, cancelled,
                 gauge>>

\* MailboxRx::drop closes the byte semaphore too.
BytesClosedNever == FALSE
BytesClosed == rx \in {"bytes", "closed"}

\* try_acquire_many, and the decision to wait.
TryCredit(s) ==
  /\ tx[s].pc = "credit"
  /\ ~BytesClosed
  /\ IF byteWait = <<>> /\ free >= tx[s].n
       THEN /\ free' = free - tx[s].n
            /\ Goto(s, "count")
            /\ byteWait' = byteWait
       ELSE /\ tx[s].wait
            /\ byteWait' = Append(byteWait, s)
            /\ Goto(s, "waitCredit")
            /\ free' = free
  /\ UNCHANGED <<slots, slotWait, chan, held, refunds, rx, cancelled, gauge>>

CreditRefused(s) ==
  /\ tx[s].pc = "credit"
  /\ \/ BytesClosed
     \/ ~tx[s].wait /\ ~(byteWait = <<>> /\ free >= tx[s].n)
  /\ Return(s)

\* acquire_many completes: the oldest waiter, when all its permits are there.
CreditTurn(s) == Head(byteWait) = s /\ free >= tx[s].n
CreditPolled(s) ==
  /\ tx[s].pc = "waitCredit"
  /\ ~BytesClosed /\ ~cancelled
  /\ free >= tx[s].n
  /\ free' = free - tx[s].n
  /\ byteWait' = Leave(byteWait, s)
  /\ Goto(s, "count")
  /\ UNCHANGED <<slots, slotWait, chan, held, refunds, rx, cancelled, gauge>>
CreditGranted(s) ==
  /\ tx[s].pc = "waitCredit"
  /\ ~BytesClosed /\ ~cancelled
  /\ CreditTurn(s)
  /\ free' = free - tx[s].n
  /\ byteWait' = Leave(byteWait, s)
  /\ Goto(s, "count")
  /\ UNCHANGED <<slots, slotWait, chan, held, refunds, rx, cancelled, gauge>>

\* The wait ends without credit: cancellation, a closed semaphore, or the
\* caller drops the send future.
CreditGivenUp(s) ==
  /\ tx[s].pc = "waitCredit"
  /\ Return(s)

\* The observer counts the credit; the permit is forgotten.
Count(s) ==
  /\ tx[s].pc = "count"
  /\ gauge' = [gauge EXCEPT !.reserved = @ + tx[s].n]
  /\ Goto(s, "slot")
  /\ UNCHANGED <<free, byteWait, slots, slotWait, chan, held, refunds, rx,
                 cancelled>>

TrySlot(s) ==
  /\ tx[s].pc = "slot"
  /\ rx # "closed"
  /\ IF slotWait = <<>> /\ slots > 0
       THEN slots' = slots - 1 /\ Goto(s, "reserved") /\ slotWait' = slotWait
       ELSE /\ tx[s].wait
            /\ slotWait' = Append(slotWait, s)
            /\ Goto(s, "waitSlot")
            /\ slots' = slots
  /\ UNCHANGED <<free, byteWait, chan, held, refunds, rx, cancelled, gauge>>

SlotGranted(s) ==
  /\ tx[s].pc = "waitSlot"
  /\ rx # "closed" /\ ~cancelled
  /\ Head(slotWait) = s /\ slots > 0
  /\ slots' = slots - 1
  /\ slotWait' = Leave(slotWait, s)
  /\ Goto(s, "reserved")
  /\ UNCHANGED <<free, byteWait, chan, held, refunds, rx, cancelled, gauge>>

\* No slot: closed, full without waiting, cancelled, or the future is dropped.
\* The envelope, which exists by now, is dropped.
SlotRefused(s) ==
  /\ \/ /\ tx[s].pc = "slot"
        /\ \/ rx = "closed"
           \/ ~tx[s].wait /\ ~(slotWait = <<>> /\ slots > 0)
     \/ tx[s].pc = "waitSlot"
  /\ slotWait' = Leave(slotWait, s)
  /\ Goto(s, "uncount")
  /\ UNCHANGED <<free, byteWait, slots, chan, held, refunds, rx, cancelled,
                 gauge>>

\* The last look at the token before publishing.
CheckCancel(s) ==
  /\ tx[s].pc = "reserved"
  /\ IF cancelled
       THEN slots' = slots + 1 /\ Goto(s, "uncount")
       ELSE slots' = slots /\ Goto(s, "publish")
  /\ UNCHANGED <<free, byteWait, slotWait, chan, held, refunds, rx, cancelled,
                 gauge>>

\* Under the observer's lock: publish, unless the receiver is gone.
MayPublish == gauge.open
Publish(s) ==
  /\ tx[s].pc = "publish"
  /\ IF MayPublish
       THEN /\ chan' = Append(chan, tx[s].n)
            /\ gauge' = [gauge EXCEPT !.queued = @ + 1,
                                      !.queuedBytes = @ + tx[s].n,
                                      !.stamps = @ + 1, !.pending = @ + 1]
            /\ tx' = [tx EXCEPT ![s] = NoSend]
            /\ slots' = slots
       ELSE /\ slots' = slots + 1
            /\ Goto(s, "uncount")
            /\ UNCHANGED <<chan, gauge>>
  /\ UNCHANGED <<free, byteWait, slotWait, held, refunds, rx, cancelled>>

\* Envelope::drop by its sender: uncount under the lock, then add_permits.
Uncounted(n, isHeld) ==
  [gauge EXCEPT !.reserved = Saturating(@, n),
                !.held = IF isHeld THEN Saturating(@, 1) ELSE @,
                !.errors = IF gauge.reserved < n \/ (isHeld /\ gauge.held = 0)
                             THEN 1 ELSE @]
DropUnsent(s) ==
  /\ tx[s].pc = "uncount"
  /\ gauge' = Uncounted(tx[s].n, FALSE)
  /\ Goto(s, "refund")
  /\ UNCHANGED <<free, byteWait, slots, slotWait, chan, held, refunds, rx,
                 cancelled>>

RefundUnsent(s) ==
  /\ tx[s].pc = "refund"
  /\ free' = free + tx[s].n
  /\ tx' = [tx EXCEPT ![s] = NoSend]
  /\ UNCHANGED <<byteWait, slots, slotWait, chan, held, refunds, rx,
                 cancelled, gauge>>

-----------------------------------------------------------------------------
(* The receiver                                                            *)

\* The pop, the slot it frees and the gauges change under one lock.  recv looks
\* at the token first, the poll_recv of a union does not.
Recv(polled) ==
  /\ rx = "open"
  /\ polled \/ ~cancelled
  /\ chan # <<>>
  /\ chan' = Tail(chan)
  /\ slots' = slots + 1
  /\ held' = [held EXCEPT ![Head(chan)] = @ + 1]
  /\ gauge' = [gauge EXCEPT !.queued = Saturating(@, 1),
                            !.queuedBytes = Saturating(@, Head(chan)),
                            !.stamps = @ - 1, !.pending = @ - 1,
                            !.errors = IF gauge.queued = 0 THEN 1 ELSE @,
                            !.held = @ + 1]
  /\ UNCHANGED <<free, byteWait, slotWait, refunds, tx, rx, cancelled>>

\* The consumer drops an envelope it is done with.
DropHeld(n) ==
  /\ held[n] > 0
  /\ held' = [held EXCEPT ![n] = @ - 1]
  /\ gauge' = Uncounted(n, TRUE)
  /\ refunds' = [refunds EXCEPT ![n] = @ + 1]
  /\ UNCHANGED <<free, byteWait, slots, slotWait, chan, tx, rx, cancelled>>

Refund(n) ==
  /\ refunds[n] > 0
  /\ refunds' = [refunds EXCEPT ![n] = @ - 1]
  /\ free' = free + n
  /\ UNCHANGED <<byteWait, slots, slotWait, chan, held, tx, rx, cancelled,
                 gauge>>

\* MailboxRx::drop marks the observer first,
MarkClosed ==
  /\ rx = "open"
  /\ rx' = "marked"
  /\ gauge' = [gauge EXCEPT !.open = FALSE, !.queued = 0, !.queuedBytes = 0,
                            !.stamps = 0, !.pending = @ - gauge.queued]
  /\ UNCHANGED <<free, byteWait, slots, slotWait, chan, held, refunds, tx,
                 cancelled>>

\* then closes the byte semaphore and the channel, which wakes their waiters,
Close ==
  /\ rx \in {"marked", "bytes"}
  /\ rx' = IF rx = "marked" THEN "bytes" ELSE "closed"
  /\ UNCHANGED <<free, byteWait, slots, slotWait, chan, held, refunds, tx,
                 cancelled, gauge>>

\* then the destruction of the channel drops what is queued.
DropQueuedLeaky ==
  /\ rx = "closed" /\ chan # <<>>
  /\ chan' = Tail(chan)
  /\ slots' = slots + 1
  /\ gauge' = Uncounted(Head(chan), FALSE)
  /\ UNCHANGED <<free, byteWait, slotWait, held, refunds, tx, rx, cancelled>>
DropQueued ==
  /\ rx = "closed" /\ chan # <<>>
  /\ chan' = Tail(chan)
  /\ slots' = slots + 1
  /\ gauge' = Uncounted(Head(chan), FALSE)
  /\ refunds' = [refunds EXCEPT ![Head(chan)] = @ + 1]
  /\ UNCHANGED <<free, byteWait, slotWait, held, tx, rx, cancelled>>

Cancel ==
  /\ ~cancelled
  /\ cancelled' = TRUE
  /\ UNCHANGED <<free, byteWait, slots, slotWait, chan, held, refunds, tx, rx,
                 gauge>>

-----------------------------------------------------------------------------
\* What a sender's task does by itself once a send is under way.
Step(s) ==
  \/ TryCredit(s)
  \/ CreditRefused(s)
  \/ CreditGranted(s)
  \/ Count(s)
  \/ TrySlot(s)
  \/ SlotGranted(s)
  \/ CheckCancel(s)
  \/ Publish(s)
  \/ DropUnsent(s)
  \/ RefundUnsent(s)

Next ==
  \/ \E s \in Senders :
       \/ \E n \in Sizes, wait \in BOOLEAN : Send(s, n, wait)
       \/ Step(s)
       \/ CreditGivenUp(s)
       \/ SlotRefused(s)
  \/ \E polled \in BOOLEAN : Recv(polled)
  \/ \E n \in Fits : DropHeld(n) \/ Refund(n)
  \/ MarkClosed
  \/ Close
  \/ DropQueued
  \/ Cancel

Spec == Init /\ [][Next]_vars

\* A waiting send looks at its token and at the closed flag when it is woken.
WokenByStop(s) ==
  \/ (cancelled \/ BytesClosed) /\ CreditGivenUp(s)
  \/ (cancelled \/ rx = "closed") /\ SlotRefused(s)
  \/ tx[s].pc = "slot" /\ SlotRefused(s)

\* Every task that can run is run.  Nothing is assumed of the consumer: it may
\* stop reading and keep what it holds.
FairSpec ==
  /\ Spec
  /\ \A s \in Senders : WF_vars(Step(s)) /\ WF_vars(WokenByStop(s))
  /\ WF_vars(Close)
  /\ WF_vars(DropQueued)
  /\ \A n \in Fits : WF_vars(Refund(n))

-----------------------------------------------------------------------------
(* Properties                                                              *)

Counts == [Fits -> Nat]
SendRecord ==
  [pc : {"idle", "credit", "waitCredit", "count", "slot", "waitSlot",
         "reserved", "publish", "uncount", "refund"},
   n : {0} \cup Fits, wait : BOOLEAN]
Gauge ==
  [open : BOOLEAN, queued : Nat, queuedBytes : Nat, held : Nat,
   reserved : Nat, stamps : Nat, pending : Nat, errors : Nat]

\* Every variable of the mailbox keeps its type.
TypeOK ==
  /\ free \in 0 .. MaxBytes
  /\ slots \in 0 .. MaxItems
  /\ byteWait \in Seq(Senders) /\ slotWait \in Seq(Senders)
  /\ chan \in Seq(Fits)
  /\ held \in Counts /\ refunds \in Counts
  /\ tx \in [Senders -> SendRecord]
  /\ rx \in {"open", "marked", "bytes", "closed"}
  /\ cancelled \in BOOLEAN
  /\ gauge \in Gauge

\* A sum over a function is the number of its units: unit k of x for every k up
\* to f[x].
Units(f) == UNION {{x} \X (1 .. f[x]) : x \in DOMAIN f}
Total(f) == Cardinality(Units(f))

Bytes(f) == Total([n \in Fits |-> n * f[n]])
OfSenders(pcs) ==
  Total([s \in Senders |-> IF tx[s].pc \in pcs THEN tx[s].n ELSE 0])
Queued == Total(chan)

\* The sends whose credit the observer has counted, and those that have any.
Counting == {"slot", "waitSlot", "reserved", "publish", "uncount"}
Crediting == Counting \cup {"count", "refund"}
Reserving == {s \in Senders : tx[s].pc \in {"reserved", "publish"}}

\* Byte credit and slots are neither lost nor made up: what is not free belongs
\* to a send under way, a queued or held envelope, or a refund about to happen,
\* on every path out of send_inner and through close, cancellation and dropped
\* futures.
CreditConserved ==
  /\ free + OfSenders(Crediting) + Queued + Bytes(held) + Bytes(refunds)
       = MaxBytes
  /\ slots + Len(chan) + Cardinality(Reserving) = MaxItems

\* The gauges agree with the queue whatever the interleaving: the stamp a
\* receive pops is there, nothing underflows, the reserved bytes never exceed
\* the limit, and every enqueued item is queued, received or discarded.
GaugesExact ==
  /\ gauge.errors = 0
  /\ gauge.queued = IF gauge.open THEN Len(chan) ELSE 0
  /\ gauge.queuedBytes = IF gauge.open THEN Queued ELSE 0
  /\ gauge.stamps = gauge.queued
  /\ gauge.pending = gauge.queued
  /\ gauge.reserved = OfSenders(Counting) + Queued + Bytes(held)
  /\ gauge.reserved <= MaxBytes

\* Whatever the interleaving of sends, receives, drops and cancellations, the
\* byte credit, the slots and the gauges all account for the same envelopes.
AccountsExact == CreditConserved /\ GaugesExact

\* A stop reaches every sender: once the token is cancelled or the receiver is
\* dropped, no send stays blocked, although a consumer may hold credit for ever.
StopReleasesSenders ==
  \A s \in Senders :
    (tx[s].pc # "idle" /\ (cancelled \/ rx = "closed")) ~> tx[s].pc = "idle"

\* No send starves: if the consumer keeps reading and finishes with what it has
\* read, a large send gets its credit however many small ones are made by other
\* senders.
ConsumerDrains ==
  WF_vars(Recv(FALSE)) /\ \A n \in Fits : WF_vars(DropHeld(n))
NoStarvation ==
  ConsumerDrains =>
    \A s \in Senders : tx[s].pc = "waitCredit" ~> tx[s].pc # "waitCredit"
=============================================================================
