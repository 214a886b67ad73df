-------------------------- MODULE EventTimeWindow --------------------------
(***************************************************************************)
(* Event time in a graph job: sources that generate watermarks, the union  *)
(* that combines them and the hopping window behind it                     *)
(* (sparrow-runtime watermark.rs, window.rs, kernel.rs window_stage and    *)
(* emit_window, kernel/graph.rs send_source and union; sparrow-model       *)
(* window.rs and watermark.rs).                                            *)
(*                                                                         *)
(* A row is its event time and a batch is a set of them: the window's      *)
(* output watermark moves only after a whole batch, so the order and the   *)
(* number of equal rows in it do not matter, nor do groups and             *)
(* accumulators.  A sender's sends are one step: its channel is FIFO and   *)
(* nobody else writes it.  An aligned checkpoint (see AlignedGraph) is     *)
(* taken here where its barrier finds the channels drained; a restart      *)
(* brings back what the window froze and where the sources stood, and      *)
(* nothing else.                                                           *)
(***************************************************************************)
EXTENDS Integers, Sequences, FiniteSets, Functions

CONSTANTS
    Sources,
    Size, Slide,   \* of the hopping window; equal for a tumbling one
    Lateness,      \* the holdback L of the output watermark
    Disorder,      \* out_of_orderness_micros of the sources' binding
    Skew,          \* max_future_skew_micros
    Batches,       \* bound: the batches a source may send, sets of times
    MaxNow,        \* bound: the processing-time clock
    MaxBatches,    \* bound: batches of the sources together
    Capacity,      \* max_items of the mailboxes
    MaxIdle,       \* bound: times a source is declared idle
    MaxCuts,       \* bound: checkpoints
    MaxRestarts    \* bound: crashes

ASSUME EventTimeAssumption ==
    /\ IsFiniteSet(Sources) /\ Sources # {}
    /\ Slide \in Nat \ {0} /\ Size \in Nat \ {0} /\ Slide <= Size
    /\ Lateness \in Nat /\ Disorder \in Nat /\ Skew \in Nat
    /\ \A b \in Batches : b \subseteq Nat
    /\ \E m \in UNION Batches : \A t \in UNION Batches : t <= m
    /\ MaxNow \in Nat
    /\ MaxBatches \in Nat /\ Capacity \in Nat \ {0}
    /\ MaxIdle \in Nat /\ MaxCuts \in Nat /\ MaxRestarts \in Nat

None == -1
Times == UNION Batches
MaxTime == CHOOSE m \in Times : \A t \in Times : t <= m
Forever == MaxTime + Size + Lateness + 1   \* i64::MAX

Larger(a, b) == IF a < b THEN b ELSE a
Clamp(a) == Larger(a, 0)

VARIABLES
    now,       \* ctx.clock
    feed,      \* behind each source: batches sent, what it has promised
    src,       \* SourceTime of each source, and whether it sent its EOF
    inbox,     \* mailbox from each source to the union
    union,     \* the union's locals
    channel,   \* mailbox from the union to the window
    win,       \* the WindowOperator
    out,       \* what the window sent downstream
    cut,       \* the last checkpoint
    idles, restarts

vars == <<now, feed, src, inbox, union, channel, win, out, cut,
          idles, restarts>>

-----------------------------------------------------------------------------
\* WatermarkHub: activity and watermark per input, last_effective.

Hub(Ids) == [in |-> [i \in Ids |-> [active |-> TRUE, wm |-> None]],
             last |-> None]

Active(h) == {i \in DOMAIN h.in : h.in[i].active}

AllIdle(h) == Active(h) = {}

\* Mutant: an input that has said nothing does not hold the others back.
EffectiveOfKnown(h) ==
    LET wms == {h.in[i].wm : i \in Active(h)} \ {None}
    IN  IF wms = {} THEN None
        ELSE CHOOSE m \in wms : \A o \in wms : m <= o

\* Nothing is known while an active input has said nothing.
Effective(h) ==
    LET wms == {h.in[i].wm : i \in Active(h)}
    IN  IF wms = {} \/ None \in wms THEN None
        ELSE CHOOSE m \in wms : \A o \in wms : m <= o

Progress(h) ==
    IF Effective(h) = None THEN None ELSE Larger(Effective(h), h.last)

\* commit_progress; None, below every watermark, leaves last_effective alone.
CommitProgress(h) == [h EXCEPT !.last = Larger(@, Effective(h))]

MarkIdle(h, i) == CommitProgress([h EXCEPT !.in[i].active = FALSE])

MarkActive(h, i) == CommitProgress([h EXCEPT !.in[i].active = TRUE])

SetWatermark(h, i, wm) ==
    CommitProgress([h EXCEPT !.in[i].wm = Larger(@, wm)])

-----------------------------------------------------------------------------
\* Windows are their starts.

Starts == (1 - Size)..MaxTime
End(start) == start + Size

\* assign_hop: the multiples of Slide whose window holds the time.
Assigned(time) ==
    {start \in (time - Size + 1)..time : start % Slide = 0}

TooFarAhead(time) == time > now + Skew

-----------------------------------------------------------------------------
\* The single input of the window's hub.
Only == "SINGLE"

FreshSource == [last |-> None, active |-> TRUE, ended |-> FALSE]

FreshUnion ==
    [hub |-> Hub(Sources), ended |-> {}, idle |-> FALSE, last |-> None]

FreshWindow ==
    [hub |-> Hub({Only}), open |-> {}, wmIn |-> None, wmOut |-> None,
     eof |-> FALSE]

Init ==
    /\ now = 0
    /\ feed = [s \in Sources |->
                  [promise |-> None, kept |-> TRUE, done |-> FALSE,
                   sent |-> 0]]
    /\ src = [s \in Sources |-> FreshSource]
    /\ inbox = [s \in Sources |-> <<>>]
    /\ union = FreshUnion
    /\ channel = <<>>
    /\ win = FreshWindow
    /\ out = [finals |-> [w \in Starts |-> 0], wm |-> None]
    /\ cut = [win |-> win, out |-> out, feed |-> feed, id |-> 0]
    /\ idles = 0 /\ restarts = 0

Batch(rows, floor) == [kind |-> "batch", rows |-> rows, floor |-> floor]
Watermark(wm) == [kind |-> "watermark", wm |-> wm]
Control(kind) == [kind |-> kind]

When(condition, message) == IF condition THEN <<message>> ELSE <<>>

-----------------------------------------------------------------------------
(* The sources. *)

Tick ==
    /\ now < MaxNow
    /\ now' = now + 1
    /\ UNCHANGED <<feed, src, inbox, union, channel, win, out, cut,
                   idles, restarts>>

\* The largest watermark the rows of a batch allow, or the previous one.
Generated(rows, last) ==
    LET timely == {time \in rows : ~TooFarAhead(time)}
        wms == {last} \cup {Clamp(time - Disorder) : time \in timely}
    IN  CHOOSE m \in wms : \A o \in wms : m >= o

Sent == SumFunction([s \in Sources |-> feed[s].sent])

\* send_source.  A source that was declared idle has promised nothing: what
\* the others closed meanwhile may be ahead of it.
Send(s, rows) ==
    LET next == Generated(rows, src[s].last)
        floor == IF feed[s].kept THEN feed[s].promise ELSE Forever
    IN  /\ ~src[s].ended /\ ~feed[s].done /\ Sent < MaxBatches
        /\ Len(inbox[s]) < Capacity
        /\ inbox' = [inbox EXCEPT ![s] = @
               \o When(~src[s].active, Control("active"))
               \o <<Batch(rows, floor)>>
               \o When(next > src[s].last, Watermark(next))]
        /\ src' = [src EXCEPT ![s].last = next, ![s].active = TRUE]
        /\ feed' = [feed EXCEPT ![s].sent = @ + 1,
                                ![s].promise = Larger(@, next)]
        /\ UNCHANGED <<now, union, channel, win, out, cut, idles,
                       restarts>>

\* publish_source_control: Idle, Active and EndOfInput from the source's owner.
Announce(s, kind) ==
    /\ ~src[s].ended /\ Len(inbox[s]) < Capacity
    /\ inbox' = [inbox EXCEPT ![s] = Append(@, Control(kind))]
    /\ UNCHANGED <<now, union, channel, win, out, cut, restarts>>

GoIdle(s) ==
    /\ ~feed[s].done /\ idles < MaxIdle
    /\ idles' = idles + 1
    /\ feed' = [feed EXCEPT ![s].kept = FALSE]
    /\ src' = [src EXCEPT ![s].active = FALSE]
    /\ Announce(s, "idle")

GoActive(s) ==
    /\ ~feed[s].done /\ ~src[s].active
    /\ src' = [src EXCEPT ![s].active = TRUE]
    /\ UNCHANGED <<feed, idles>>
    /\ Announce(s, "active")

EndSource(s) ==
    /\ feed' = [feed EXCEPT ![s].done = TRUE]
    /\ src' = [src EXCEPT ![s].ended = TRUE]
    /\ UNCHANGED idles
    /\ Announce(s, "eof")

-----------------------------------------------------------------------------
(* The union. *)

\* The end of the loop: a change of activity, then progress, is passed on.
\* (\E over a singleton has TLC evaluate the parameter once.)
UnionForwards(state, sent) ==
    \E u \in {state} :
    LET nowIdle == AllIdle(u.hub)
        wm == Progress(u.hub)
        forward == wm # None /\ wm > u.last
    IN  /\ union' = [u EXCEPT !.idle = nowIdle,
                              !.last = IF forward THEN wm ELSE @]
        /\ channel' = channel \o (sent
               \o When(nowIdle # u.idle,
                       Control(IF nowIdle THEN "idle" ELSE "active"))
               \o When(forward, Watermark(wm)))

UnionBatch(s, message) ==
    /\ message.kind = "batch"
    /\ UnionForwards([union EXCEPT !.hub = MarkActive(@, s), !.idle = FALSE],
                     When(union.idle, Control("active")) \o <<message>>)

UnionWatermark(s, message) ==
    /\ message.kind = "watermark"
    /\ UnionForwards([union EXCEPT !.hub = SetWatermark(@, s, message.wm)],
                     <<>>)

UnionActivity(s, message) ==
    \/ /\ message.kind = "idle"
       /\ UnionForwards([union EXCEPT !.hub = MarkIdle(@, s)], <<>>)
    \/ /\ message.kind = "active"
       /\ UnionForwards([union EXCEPT !.hub = MarkActive(@, s)], <<>>)

\* Mutant: an input that has ended stays in the minimum.
AfterEndActive(h, s) == h

\* The hub after an input's EndOfInput: it no longer holds the others back.
AfterEnd(h, s) == MarkIdle(h, s)

UnionEnd(s, message) ==
    LET u == [union EXCEPT !.hub = AfterEnd(@, s), !.ended = @ \cup {s}]
    IN  /\ message.kind = "eof"
        /\ \/ /\ u.ended = Sources
              /\ union' = [u EXCEPT !.idle = FALSE, !.last = Forever]
              /\ channel' = channel \o When(u.idle, Control("active"))
                     \o <<Watermark(Forever), Control("eof")>>
           \/ /\ u.ended # Sources
              /\ UnionForwards(u, <<>>)

Union(s) ==
    /\ inbox[s] # <<>> /\ Len(channel) < Capacity
    /\ inbox' = [inbox EXCEPT ![s] = Tail(@)]
    /\ LET message == Head(inbox[s])
       IN  \/ UnionBatch(s, message)
           \/ UnionWatermark(s, message)
           \/ UnionActivity(s, message)
           \/ UnionEnd(s, message)
    /\ UNCHANGED <<now, feed, src, win, out, cut, idles, restarts>>

-----------------------------------------------------------------------------
(* The window. *)

\* OutputHoldback::on_wm_in: the output watermark an input watermark allows.
OnWmIn(w, wm) ==
    IF wm < w.wmIn THEN w.wmOut ELSE Larger(w.wmOut, Clamp(wm - Lateness))

\* The prefix of closed_index that take_closed_batch removes, chunk by chunk.
Closing(w, wmOut) == {start \in w.open : End(start) <= wmOut}

\* drain_watermark and emit_window: the finals of every window that ends by
\* the new output watermark, then the output watermark itself.
Drain(state) ==
    \E w \in {state} :
    LET wm == Progress(w.hub)
        target == OnWmIn(w, wm)
        closed == Closing(w, target)
    IN  \/ /\ wm = None \/ target = None
           /\ win' = w
           /\ UNCHANGED out
        \/ /\ wm # None /\ target # None
           /\ win' = [w EXCEPT !.open = @ \ closed, !.wmIn = Larger(@, wm),
                               !.wmOut = target]
           /\ out' = [wm |-> target,
                      finals |-> [start \in Starts |-> IF start \in closed
                                     THEN out.finals[start] + 1
                                     ELSE out.finals[start]]]

\* on_et_row's test: the final of this window has been emitted.
Passed(start) == End(start) <= win.wmOut

\* Only the rows the clock allows; each goes to its windows that are open.
WindowBatch(message) ==
    LET rows == {time \in message.rows : ~TooFarAhead(time)}
        hits == UNION {Assigned(time) : time \in rows}
    IN  /\ message.kind = "batch"
        /\ Drain([win EXCEPT !.open = @ \cup {st \in hits : ~Passed(st)}])

WindowWatermark(message) ==
    /\ message.kind = "watermark"
    /\ Drain([win EXCEPT !.hub = SetWatermark(@, Only, message.wm)])

WindowActivity(message) ==
    /\ \/ /\ message.kind = "idle"
          /\ Drain([win EXCEPT !.hub = MarkIdle(@, Only)])
       \/ /\ message.kind = "active"
          /\ Drain([win EXCEPT !.hub = MarkActive(@, Only)])

\* finish_input, after which the EndOfInput goes on.
WindowEnd(message) ==
    /\ message.kind = "eof"
    /\ Drain([win EXCEPT !.eof = TRUE,
              !.hub = SetWatermark(MarkActive(@, Only), Only, Forever)])

Window ==
    /\ channel # <<>>
    /\ channel' = Tail(channel)
    /\ LET message == Head(channel)
       IN  \/ WindowBatch(message)
           \/ WindowWatermark(message)
           \/ WindowActivity(message)
           \/ WindowEnd(message)
    /\ UNCHANGED <<now, feed, src, inbox, union, cut, idles, restarts>>

-----------------------------------------------------------------------------
(* Checkpoint and restart. *)

Drained == channel = <<>> /\ \A s \in Sources : inbox[s] = <<>>

Checkpoint ==
    /\ Drained /\ cut.id < MaxCuts /\ restarts < MaxRestarts
    /\ cut' = [win |-> win, out |-> out, feed |-> feed, id |-> cut.id + 1]
    /\ UNCHANGED <<now, feed, src, inbox, union, channel, win, out,
                   idles, restarts>>

\* Mutant: the holdback starts again.
RestoredEntries(w) == [FreshWindow EXCEPT !.open = w.open]

\* freeze and restore_freeze: the entries, the holdback and last_effective.
Restored(w) ==
    [FreshWindow EXCEPT !.open = w.open, !.wmIn = w.wmIn, !.wmOut = w.wmOut,
                        !.hub.last = w.hub.last]

Restart ==
    /\ restarts < MaxRestarts
    /\ restarts' = restarts + 1
    /\ src' = [s \in Sources |-> FreshSource]
    /\ inbox' = [s \in Sources |-> <<>>]
    /\ union' = FreshUnion
    /\ channel' = <<>>
    /\ win' = Restored(cut.win)
    /\ out' = cut.out
    /\ feed' = cut.feed
    /\ UNCHANGED <<now, cut, idles>>

Next ==
    \/ Tick
    \/ \E s \in Sources :
          \/ \E rows \in Batches : Send(s, rows)
          \/ GoIdle(s)
          \/ GoActive(s)
          \/ EndSource(s)
          \/ Union(s)
    \/ Window
    \/ Checkpoint
    \/ Restart

Spec == Init /\ [][Next]_vars

\* The stages are tasks of one runtime that take every message they can get;
\* the union's cursor serves its inputs in turn.  Nothing makes a source send.
FairSpec ==
    /\ Spec
    /\ \A s \in Sources : WF_vars(Union(s))
    /\ WF_vars(Window)

-----------------------------------------------------------------------------
(* Properties. *)

Wm == {None} \cup 0..Forever

HubOf(Ids) == [in : [Ids -> [active : BOOLEAN, wm : Wm]], last : Wm]

Message ==
    [kind : {"batch"}, rows : Batches, floor : Wm]
        \cup [kind : {"watermark"}, wm : Wm]
        \cup [kind : {"idle", "active", "eof"}]

WindowOf == [hub : HubOf({Only}), open : SUBSET Starts, wmIn : Wm, wmOut : Wm,
             eof : BOOLEAN]
OutOf == [finals : [Starts -> Nat], wm : Wm]
FeedOf == [Sources -> [promise : Wm, kept : BOOLEAN, done : BOOLEAN,
                       sent : Nat]]

\* The state has its declared shape.
TypeOK ==
    /\ now \in 0..MaxNow /\ idles \in 0..MaxIdle
    /\ restarts \in 0..MaxRestarts
    /\ feed \in FeedOf
    /\ src \in [Sources -> [last : Wm, active : BOOLEAN, ended : BOOLEAN]]
    /\ inbox \in [Sources -> Seq(Message)]
    /\ union \in [hub : HubOf(Sources), ended : SUBSET Sources,
                  idle : BOOLEAN, last : Wm]
    /\ channel \in Seq(Message)
    /\ win \in WindowOf /\ out \in OutOf
    /\ cut \in [win : WindowOf, out : OutOf, feed : FeedOf, id : 0..MaxCuts]

\* A row is kept out of a window it belongs to only if it is more than the
\* allowed lateness behind what its own source had promised when it sent it:
\* no faster, idle, ended or restarted neighbour and no restart of the job
\* makes a row late that its own source's watermark had not ruled out
\* (WatermarkHub::effective, the order of send_source, OutputHoldback).
PromiseKept ==
    [][LET message == Head(channel)
       IN  Len(channel) > Len(channel') /\ restarts' = restarts
               /\ message.kind = "batch" =>
           \A time \in message.rows :
               \/ TooFarAhead(time)
               \/ time + Lateness < message.floor
               \/ \A start \in Assigned(time) :
                     \/ start \in win'.open
                     \/ out'.finals[start] > out.finals[start]]_vars

\* What the window tells the stages behind it is true: no final is emitted
\* for a window that ends by a watermark already sent, so none is emitted
\* twice, on either side of a restart, to stages that are restored with the
\* same checkpoint (emit_window, on_et_row, restore).
FinalBeforeWatermark ==
    [][\A start \in Starts :
          out'.finals[start] > out.finals[start] => End(start) > out.wm]_vars

Live(s) == src[s].active /\ ~src[s].ended

\* Every source that is live has promised to be past the window.
Due(start) ==
    /\ \E s \in Sources : Live(s)
    /\ \A s \in Sources : Live(s) => src[s].last - Lateness >= End(start)

AllEnded == \A s \in Sources : src[s].ended

\* Whenever the sources fall silent, the windows that every live source is
\* past get closed, whatever idle, ended and returning sources did before,
\* and all of them when all sources have ended: no stage is left waiting for
\* an input that will not speak (union's idle and EOF rules, finish_input).
WindowsClose ==
    []<>(/\ \A start \in win.open : ~Due(start)
         /\ AllEnded => win.eof /\ win.open = {})

=============================================================================
