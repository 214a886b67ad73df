----------------------- MODULE EventTimeWindowProofs -----------------------
(***************************************************************************)
(* Theorems about EventTimeWindow, for any sources, windows, batches and   *)
(* bounds.                                                                 *)
(***************************************************************************)
EXTENDS EventTimeWindow, TLAPS, WellFoundedInduction

-----------------------------------------------------------------------------
(* The window and what it has told the stages behind it.                   *)

\* No open window ends by the output watermark, and nothing further than that
\* watermark was sent downstream.
Ahead(w, o) ==
    /\ \A start \in w.open : End(start) > w.wmOut
    /\ o.wm <= w.wmOut

\* The checkpoint counts no final that was not emitted.
Counted == \A start \in Starts : cut.out.finals[start] <= out.finals[start]

FinalInv == Ahead(win, out) /\ Ahead(cut.win, cut.out) /\ Counted

-----------------------------------------------------------------------------
(* Late rows.                                                              *)

\* A batch whose source has been active since it started.
Real(m) == m.kind = "batch" /\ m.floor < Forever

\* A message that carries no time above f and ends no input.
Calm(m, f) == m.kind # "eof" /\ (m.kind = "watermark" => m.wm <= f)

\* The output watermark never runs ahead of the input, less the lateness.
Held(w) == w.wmOut <= Clamp(w.hub.last - Lateness)

Settled == win.hub.in[Only].active => win.hub.in[Only].wm <= win.hub.last

\* The window's hub has seen no time above f.
Seen(f) == win.hub.last <= f /\ win.hub.in[Only].wm <= f

\* Neither has the channel in front of it.
Ceiling(f) == Seen(f) /\ \A j \in DOMAIN channel : Calm(channel[j], f)

\* The union waits for s.
Steady(s) ==
    /\ union.hub.in[s].active
    /\ union.hub.last <= union.hub.in[s].wm

\* Nothing that is on its way to the window before a batch makes it late.
InChannel ==
    \A i \in DOMAIN channel : Real(channel[i]) =>
        /\ Seen(channel[i].floor)
        /\ \A j \in 1..i - 1 : Calm(channel[j], channel[i].floor)

InInbox(s) ==
    \A i \in DOMAIN inbox[s] : Real(inbox[s][i]) =>
        /\ Steady(s) /\ union.hub.in[s].wm <= inbox[s][i].floor
        /\ Ceiling(inbox[s][i].floor)
        /\ \A j \in 1..i - 1 : /\ inbox[s][j].kind # "idle"
                               /\ Calm(inbox[s][j], inbox[s][i].floor)

\* A source that has not been idle is waited for, with what it has promised.
Promised(s) ==
    feed[s].kept /\ ~feed[s].done =>
        /\ Steady(s) /\ union.hub.in[s].wm <= feed[s].promise
        /\ Ceiling(feed[s].promise)
        /\ src[s].last <= feed[s].promise
        /\ \A j \in DOMAIN inbox[s] : /\ inbox[s][j].kind # "idle"
                                      /\ Calm(inbox[s][j], feed[s].promise)

\* After its end a source sends nothing.
Ending(s) ==
    /\ src[s].ended => feed[s].done
    /\ s \in union.ended => src[s].ended /\ inbox[s] = <<>>
    /\ \A i \in DOMAIN inbox[s] :
          inbox[s][i].kind = "eof" => i = Len(inbox[s]) /\ src[s].ended

\* The cut keeps the promises of its sources.
CutPromised ==
    \A s \in Sources : cut.feed[s].kept /\ ~cut.feed[s].done =>
        cut.win.hub.last <= cut.feed[s].promise

LateInv ==
    /\ Held(win) /\ Held(cut.win) /\ Settled /\ CutPromised
    /\ InChannel
    /\ \A s \in Sources : InInbox(s) /\ Promised(s) /\ Ending(s)

EventInv == TypeOK /\ FinalInv /\ LateInv

-----------------------------------------------------------------------------
(* Times and watermarks.                                                   *)

\* The bound of the event times, and what stands for i64::MAX above it.
LEMMA LastTime ==
    /\ MaxTime \in Nat /\ Forever \in Nat /\ Size \in Nat /\ Lateness \in Nat
    /\ MaxTime + Lateness < Forever
    /\ \A t \in Times : t \in Nat /\ t <= MaxTime
<1>1. \A t \in Times : t \in Nat
    BY EventTimeAssumption DEF Times
<1>2. PICK m \in Times : \A t \in Times : t <= m
    BY EventTimeAssumption DEF Times
<1>3. MaxTime \in Times /\ \A t \in Times : t <= MaxTime
    BY <1>2 DEF MaxTime
<1>4. /\ MaxTime \in Nat /\ Size \in Nat \ {0} /\ Lateness \in Nat
      /\ Forever = MaxTime + Size + Lateness + 1
    BY <1>1, <1>3, EventTimeAssumption DEF Forever
<1>5. Forever \in Nat /\ MaxTime + Lateness < Forever
    BY <1>4
<1> QED
    BY <1>1, <1>3, <1>4, <1>5

\* A watermark is an integer between None and Forever.
LEMMA WmIsInt ==
    \A a \in Wm : a \in Int /\ None <= a /\ a <= Forever /\ (a # None => a \in Nat)
BY LastTime DEF Wm, None

\* The marks for none and for ever, and 0, are watermarks.
LEMMA WmValues == None \in Wm /\ Forever \in Wm /\ 0 \in Wm
BY LastTime DEF Wm, None

\* The larger of two watermarks is one of them.
LEMMA LargerWm ==
    ASSUME NEW a \in Wm, NEW b \in Wm
    PROVE  /\ Larger(a, b) \in Wm /\ a <= Larger(a, b) /\ b <= Larger(a, b)
           /\ Larger(a, b) \in {a, b}
BY WmIsInt DEF Larger

\* A set of naturals has a least element.
LEMMA LeastNatural ==
    ASSUME NEW S \in SUBSET Nat, S # {}
    PROVE  \E m \in S : \A o \in S : m <= o
<1>1. PICK x \in S : \A y \in S : ~ (<<y, x>> \in OpToRel(<, Nat))
    BY NatLessThanWellFounded, WFMin
<1>2. \A y \in S : ~ (y < x)
    BY <1>1 DEF OpToRel
<1>3. ASSUME NEW o \in S PROVE x <= o
    <2>1. x \in Nat /\ o \in Nat /\ ~(o < x)
        BY <1>1, <1>2
    <2> QED
        BY <2>1
<1> QED
    BY <1>3

\* A set of watermarks has a greatest element.
LEMMA GreatestWm ==
    ASSUME NEW S \in SUBSET Wm, S # {}
    PROVE  \E m \in S : \A o \in S : m >= o
<1> DEFINE T == {Forever - a : a \in S}
<1>1. Forever \in Nat /\ \A a \in S : a \in Int /\ a <= Forever
    BY LastTime, WmIsInt
<1>2. T \in SUBSET Nat
    BY <1>1
<1>3. T # {}
    OBVIOUS
<1>4. PICK x \in T : \A y \in T : x <= y
    BY <1>2, <1>3, LeastNatural
<1>5. PICK m \in S : x = Forever - m
    BY <1>4
<1>6. ASSUME NEW o \in S PROVE m >= o
    <2>1. Forever - m <= Forever - o
        BY <1>4, <1>5, <1>6
    <2> QED
        BY <1>1, <2>1
<1> QED
    BY <1>5, <1>6

-----------------------------------------------------------------------------
(* WatermarkHub.                                                           *)

\* The effective watermark is one of an active input, and no active input is
\* behind it.
LEMMA EffectiveLeast ==
    ASSUME NEW Ids, NEW h \in HubOf(Ids)
    PROVE  /\ Effective(h) \in Wm
           /\ \A k \in Ids : h.in[k].active => Effective(h) <= h.in[k].wm
           /\ Effective(h) # None =>
                 \E k \in Ids : h.in[k].active /\ Effective(h) = h.in[k].wm
<1> DEFINE wms == {h.in[i].wm : i \in Active(h)}
<1>1. /\ DOMAIN h.in = Ids
      /\ \A k \in Ids : h.in[k].wm \in Wm
    BY DEF HubOf
<1>2. /\ Active(h) = {k \in Ids : h.in[k].active}
      /\ wms \in SUBSET Wm
    BY <1>1 DEF Active
<1>3. CASE wms = {} \/ None \in wms
    <2>1. Effective(h) = None
        BY <1>3 DEF Effective
    <2> QED
        BY <1>1, <2>1, WmValues, WmIsInt
<1>4. CASE ~(wms = {} \/ None \in wms)
    <2>1. wms \in SUBSET Nat /\ wms # {}
        BY <1>2, <1>4, WmIsInt
    <2>2. \E m \in wms : \A o \in wms : m <= o
        BY <2>1, LeastNatural
    <2>3. Effective(h) \in wms /\ \A o \in wms : Effective(h) <= o
        <3>1. Effective(h) = CHOOSE m \in wms : \A o \in wms : m <= o
            BY <1>4 DEF Effective
        <3> HIDE DEF wms
        <3> QED
            BY <2>2, <3>1
    <2> QED
        BY <1>2, <2>3
<1> QED
    BY <1>3, <1>4

\* How the watermark of a hub may advance from h to g.
Advance(h, g) ==
    /\ h.last <= g.last
    /\ g.last = h.last \/ \E k \in DOMAIN g.in : g.in[k].active /\ g.last = g.in[k].wm
    /\ \A k \in DOMAIN g.in : g.in[k].active => g.last = h.last \/ g.last <= g.in[k].wm
    /\ Progress(g) \in {None, g.last}
    /\ Effective(g) <= g.last

\* commit_progress takes the effective watermark if it is further.
LEMMA CommitAdvances ==
    ASSUME NEW Ids, NEW h \in HubOf(Ids), NEW g, g = CommitProgress(h)
    PROVE  g \in HubOf(Ids) /\ g.in = h.in /\ Advance(h, g)
<1>1. /\ h.last \in Wm /\ DOMAIN h.in = Ids
      /\ Effective(h) \in Wm
      /\ \A k \in Ids : h.in[k].active => Effective(h) <= h.in[k].wm
      /\ \A k \in Ids : h.in[k].wm \in Wm
      /\ Effective(h) # None =>
            \E k \in Ids : h.in[k].active /\ Effective(h) = h.in[k].wm
    BY EffectiveLeast DEF HubOf
<1>2. g.last = Larger(h.last, Effective(h)) /\ g.in = h.in
    BY DEF CommitProgress, HubOf
<1>3. g.last \in Wm /\ h.last <= g.last /\ Effective(h) <= g.last
      /\ g.last \in {h.last, Effective(h)}
    BY <1>1, <1>2, LargerWm
<1>4. g \in HubOf(Ids)
    BY <1>3 DEF CommitProgress, HubOf
<1>5. Effective(g) = Effective(h)
    BY <1>2 DEF Effective, Active
<1>6. Progress(g) \in {None, g.last}
    <2>1. Effective(h) \in Int /\ g.last \in Int
        BY <1>1, <1>3, WmIsInt
    <2>2. Larger(Effective(h), g.last) = g.last
        BY <1>3, <2>1 DEF Larger
    <2> QED
        BY <1>5, <2>2 DEF Progress
<1>7. g.last = h.last \/ \E k \in Ids : g.in[k].active /\ g.last = g.in[k].wm
    <2>1. CASE Effective(h) = None
        <3>1. h.last \in Int /\ None <= h.last
            BY <1>1, WmIsInt
        <3>2. g.last = h.last
            BY <1>2, <2>1, <3>1 DEF Larger, None
        <3> QED
            BY <3>2
    <2>2. CASE Effective(h) # None
        BY <1>1, <1>2, <1>3, <2>2
    <2> QED
        BY <2>1, <2>2
<1>8. \A k \in Ids : g.in[k].active => g.last = h.last \/ g.last <= g.in[k].wm
    BY <1>1, <1>2, <1>3
<1> QED
    BY <1>1, <1>2, <1>3, <1>4, <1>5, <1>6, <1>7, <1>8 DEF Advance

\* What an input's message does to the inputs of a hub: only that input changes,
\* and its watermark does not fall.
Touches(h, g, i) ==
    /\ \A k \in DOMAIN h.in : k # i => g.in[k] = h.in[k]
    /\ h.in[i].wm <= g.in[i].wm

\* mark_idle changes the activity of one input; the progress may follow.
LEMMA HubMarkIdle ==
    ASSUME NEW Ids, NEW h \in HubOf(Ids), NEW i \in Ids, NEW g, g = MarkIdle(h, i)
    PROVE  /\ g \in HubOf(Ids) /\ Advance(h, g) /\ Touches(h, g, i)
           /\ g.in[i].wm = h.in[i].wm /\ ~g.in[i].active
<1> DEFINE m == [h EXCEPT !.in[i].active = FALSE]
<1>1. /\ m \in HubOf(Ids) /\ m.last = h.last
      /\ \A k \in Ids : k # i => m.in[k] = h.in[k]
      /\ m.in[i].wm = h.in[i].wm /\ ~m.in[i].active
    BY DEF HubOf
<1>2. DOMAIN h.in = Ids /\ h.in[i].wm \in Int
    BY WmIsInt DEF HubOf
<1>3. g = CommitProgress(m)
    BY DEF MarkIdle
<1> HIDE DEF m
<1>4. g \in HubOf(Ids) /\ g.in = m.in /\ Advance(m, g)
    BY <1>1, <1>3, CommitAdvances
<1>5. Advance(h, g)
    BY <1>1, <1>4 DEF Advance
<1> QED
    BY <1>1, <1>2, <1>4, <1>5 DEF Touches

\* So does mark_active.
LEMMA HubMarkActive ==
    ASSUME NEW Ids, NEW h \in HubOf(Ids), NEW i \in Ids, NEW g, g = MarkActive(h, i)
    PROVE  /\ g \in HubOf(Ids) /\ Advance(h, g) /\ Touches(h, g, i)
           /\ g.in[i].wm = h.in[i].wm /\ g.in[i].active
<1> DEFINE m == [h EXCEPT !.in[i].active = TRUE]
<1>1. /\ m \in HubOf(Ids) /\ m.last = h.last
      /\ \A k \in Ids : k # i => m.in[k] = h.in[k]
      /\ m.in[i].wm = h.in[i].wm /\ m.in[i].active
    BY DEF HubOf
<1>2. DOMAIN h.in = Ids /\ h.in[i].wm \in Int
    BY WmIsInt DEF HubOf
<1>3. g = CommitProgress(m)
    BY DEF MarkActive
<1> HIDE DEF m
<1>4. g \in HubOf(Ids) /\ g.in = m.in /\ Advance(m, g)
    BY <1>1, <1>3, CommitAdvances
<1>5. Advance(h, g)
    BY <1>1, <1>4 DEF Advance
<1> QED
    BY <1>1, <1>2, <1>4, <1>5 DEF Touches

\* set_watermark moves the watermark of one input forward, if at all.
LEMMA HubSetWatermark ==
    ASSUME NEW Ids, NEW h \in HubOf(Ids), NEW i \in Ids, NEW wm \in Wm,
           NEW g, g = SetWatermark(h, i, wm)
    PROVE  /\ g \in HubOf(Ids) /\ Advance(h, g) /\ Touches(h, g, i)
           /\ g.in[i].wm \in {h.in[i].wm, wm} /\ g.in[i].active = h.in[i].active
<1> DEFINE m == [h EXCEPT !.in[i].wm = Larger(@, wm)]
<1>0. h.in[i].wm \in Wm
    BY DEF HubOf
<1>1. /\ Larger(h.in[i].wm, wm) \in Wm /\ h.in[i].wm <= Larger(h.in[i].wm, wm)
      /\ Larger(h.in[i].wm, wm) \in {h.in[i].wm, wm}
    BY <1>0, LargerWm
<1>2. /\ m \in HubOf(Ids) /\ m.last = h.last
      /\ \A k \in Ids : k # i => m.in[k] = h.in[k]
      /\ m.in[i].wm = Larger(h.in[i].wm, wm) /\ m.in[i].active = h.in[i].active
    BY <1>1 DEF HubOf
<1>3. DOMAIN h.in = Ids
    BY DEF HubOf
<1>4. g = CommitProgress(m)
    BY DEF SetWatermark
<1> HIDE DEF m
<1>5. g \in HubOf(Ids) /\ g.in = m.in /\ Advance(m, g)
    BY <1>2, <1>4, CommitAdvances
<1>6. Advance(h, g)
    BY <1>2, <1>5 DEF Advance
<1> QED
    BY <1>1, <1>2, <1>3, <1>5, <1>6 DEF Touches
-----------------------------------------------------------------------------
(* The window.                                                             *)

\* The windows of a row are known, and each ends after the row.
LEMMA AssignedWindows ==
    ASSUME NEW time \in Times, NEW start \in Assigned(time)
    PROVE  start \in Starts /\ time < End(start)
<1>1. /\ time \in Nat /\ time <= MaxTime /\ MaxTime \in Nat /\ Size \in Nat
    BY LastTime
<1>2. start \in Int /\ time - Size + 1 <= start /\ start <= time
    BY <1>1 DEF Assigned
<1>3. 1 - Size <= start /\ start <= MaxTime /\ time < start + Size
    BY <1>1, <1>2
<1> QED
    BY <1>1, <1>2, <1>3 DEF Starts, End

\* The starts of the windows are integers.
LEMMA StartsAreInts ==
    \A start \in Starts : start \in Int /\ End(start) \in Int
BY LastTime DEF Starts, End

\* Clamp(wm - Lateness) is a watermark and grows with wm.
LEMMA HoldBack ==
    ASSUME NEW a \in Wm
    PROVE  /\ Clamp(a - Lateness) \in Wm
           /\ \A b \in Wm : a <= b => Clamp(a - Lateness) <= Clamp(b - Lateness)
<1>1. a \in Int /\ a <= Forever /\ Lateness \in Nat /\ Forever \in Nat
    BY WmIsInt, LastTime
<1>2. Clamp(a - Lateness) \in 0..Forever
    BY <1>1 DEF Clamp, Larger
<1>3. ASSUME NEW b \in Wm, a <= b
      PROVE  Clamp(a - Lateness) <= Clamp(b - Lateness)
    <2>1. b \in Int
        BY WmIsInt
    <2> QED
        BY <1>1, <1>3, <2>1 DEF Clamp, Larger
<1> QED
    BY <1>2, <1>3 DEF Wm

\* The window w holds what is to be drained.
Loaded(w) == w \in WindowOf /\ Progress(w.hub) \in {None, w.hub.last}

\* on_watermark never takes the output watermark back.
LEMMA TargetOf ==
    ASSUME NEW w, Loaded(w), NEW wm, wm = Progress(w.hub), wm # None
    PROVE  /\ OnWmIn(w, wm) \in Wm /\ w.wmOut <= OnWmIn(w, wm)
           /\ OnWmIn(w, wm) \in {w.wmOut, Clamp(w.hub.last - Lateness)}
           /\ wm \in Wm /\ wm = w.hub.last
<1>1. w.wmOut \in Wm /\ w.wmIn \in Wm /\ w.hub.last \in Wm
    BY DEF Loaded, WindowOf, HubOf
<1>2. wm \in Wm /\ wm = w.hub.last
    BY <1>1 DEF Loaded
<1>3. /\ Clamp(wm - Lateness) \in Wm
    BY <1>2, HoldBack
<1>4. /\ Larger(w.wmOut, Clamp(wm - Lateness)) \in Wm
      /\ w.wmOut <= Larger(w.wmOut, Clamp(wm - Lateness))
      /\ Larger(w.wmOut, Clamp(wm - Lateness)) \in {w.wmOut, Clamp(wm - Lateness)}
    BY <1>1, <1>3, LargerWm
<1>5. w.wmOut <= w.wmOut
    BY <1>1, WmIsInt
<1> QED
    BY <1>1, <1>2, <1>4, <1>5 DEF OnWmIn

\* Draining closes the windows the target has passed and nothing else.
LEMMA DrainStep ==
    ASSUME NEW w, Loaded(w), out \in OutOf, Drain(w)
    PROVE  /\ win' \in WindowOf /\ out' \in OutOf
           /\ win'.hub = w.hub
           /\ Ahead(w, out) => Ahead(win', out')
           /\ Held(w) => Held(win')
           /\ \A start \in w.open :
                 start \in win'.open \/ out'.finals[start] > out.finals[start]
           /\ \A start \in Starts :
                 /\ out.finals[start] <= out'.finals[start]
                 /\ out'.finals[start] > out.finals[start] => start \in w.open
<1> DEFINE wm == Progress(w.hub)
           target == OnWmIn(w, wm)
           closed == Closing(w, target)
<1>0. /\ w \in WindowOf /\ w.open \in SUBSET Starts /\ w.wmOut \in Wm /\ w.wmIn \in Wm
      /\ w.hub.last \in Wm /\ out.finals \in [Starts -> Nat] /\ out.wm \in Wm
    BY DEF Loaded, WindowOf, OutOf, HubOf
<1>1. CASE (wm = None \/ target = None) /\ win' = w /\ out' = out
    <2>1. \A start \in Starts : /\ ~(out'.finals[start] > out.finals[start])
                               /\ out.finals[start] <= out'.finals[start]
        <3>1. \A start \in Starts : out.finals[start] \in Nat
            BY <1>0
        <3> QED
            BY <1>1, <3>1
    <2> QED
        BY <1>0, <1>1, <2>1
<1>2. CASE /\ wm # None /\ target # None
           /\ win' = [w EXCEPT !.open = @ \ closed, !.wmIn = Larger(@, wm),
                               !.wmOut = target]
           /\ out' = [wm |-> target,
                      finals |-> [start \in Starts |-> IF start \in closed
                                     THEN out.finals[start] + 1
                                     ELSE out.finals[start]]]
    <2>1. /\ target \in Wm /\ w.wmOut <= target /\ wm \in Wm
          /\ target \in {w.wmOut, Clamp(w.hub.last - Lateness)}
        BY <1>2, TargetOf
    <2>2. Larger(w.wmIn, wm) \in Wm
        BY <1>0, <2>1, LargerWm
    <2>3. closed = {start \in w.open : End(start) <= target}
        BY DEF Closing
    <2> HIDE DEF wm, target, closed
    <2>4. /\ win' \in WindowOf /\ win'.hub = w.hub
          /\ win'.wmOut = target /\ win'.open = w.open \ closed
        BY <1>0, <1>2, <2>1, <2>2 DEF WindowOf
    <2>5. /\ out'.wm = target
          /\ \A start \in Starts : out'.finals[start]
                = IF start \in closed THEN out.finals[start] + 1 ELSE out.finals[start]
          /\ out' \in OutOf
        BY <1>0, <1>2, <2>1 DEF OutOf
    <2>6. Ahead(win', out')
        <3>1. \A start \in w.open \ closed : End(start) > target
            BY <1>0, <2>1, <2>3, StartsAreInts, WmIsInt
        <3>2. target <= target
            BY <2>1, WmIsInt
        <3> QED
            BY <2>4, <2>5, <3>1, <3>2 DEF Ahead
    <2>7. ASSUME Held(w) PROVE Held(win')
        <3>1. Clamp(w.hub.last - Lateness) \in Wm
            BY <1>0, HoldBack
        <3>2. target <= Clamp(w.hub.last - Lateness)
            BY <2>1, <2>7, <3>1, WmIsInt DEF Held
        <3> QED
            BY <2>4, <3>2 DEF Held
    <2>8. ASSUME NEW start \in w.open
          PROVE  start \in win'.open \/ out'.finals[start] > out.finals[start]
        <3>1. start \in Starts /\ out.finals[start] \in Nat
            BY <1>0
        <3> QED
            BY <2>4, <2>5, <3>1
    <2>9. ASSUME NEW start \in Starts, out'.finals[start] > out.finals[start]
          PROVE  start \in w.open
        <3>1. out.finals[start] \in Nat
            BY <1>0
        <3>2. start \in closed
            BY <2>5, <2>9, <3>1
        <3> QED
            BY <2>3, <3>2
    <2>10. \A start \in Starts : out.finals[start] <= out'.finals[start]
        <3> TAKE start \in Starts
        <3>1. out.finals[start] \in Nat
            BY <1>0
        <3> QED
            BY <2>5, <3>1
    <2> QED
        BY <2>4, <2>5, <2>6, <2>7, <2>8, <2>9, <2>10
<1> QED
    BY <1>1, <1>2 DEF Drain

\* The parts of a message, by its kind.
LEMMA MessageParts ==
    /\ \A m \in Message : /\ m.kind = "batch" => m.rows \in Batches /\ m.floor \in Wm
                          /\ m.kind = "watermark" => m.wm \in Wm
                          /\ m.kind \in {"batch", "watermark", "idle", "active", "eof"}
    /\ \A rows \in Batches, f \in Wm : Batch(rows, f) \in Message
    /\ \A wm \in Wm : Watermark(wm) \in Message
    /\ \A k \in {"idle", "active", "eof"} : Control(k) \in Message
BY DEF Message, Batch, Watermark, Control

\* The effective watermark of a hub with one active input is the input's.
LEMMA SingleInput ==
    ASSUME NEW h \in HubOf({Only}), h.in[Only].active
    PROVE  Effective(h) = h.in[Only].wm
<1>1. h.in[Only].wm \in Wm /\ DOMAIN h.in = {Only}
    BY DEF HubOf
<1>2. {h.in[i].wm : i \in Active(h)} = {h.in[Only].wm}
    BY <1>1 DEF Active
<1>3. h.in[Only].wm <= h.in[Only].wm
    BY <1>1, WmIsInt
<1>4. (CHOOSE m \in {h.in[Only].wm} : \A o \in {h.in[Only].wm} : m <= o) = h.in[Only].wm
    BY <1>3
<1> QED
    BY <1>2, <1>4 DEF Effective

\* What the window has before it drains: its hub has moved by one message, and
\* it may have opened windows that have not passed.
Prepared(w, m) ==
    /\ Loaded(w)
    /\ w.wmOut = win.wmOut /\ win.hub.last <= w.hub.last
    /\ \A start \in w.open : start \in win.open \/ End(start) > win.wmOut
    /\ w.hub.in[Only].active => w.hub.in[Only].wm <= w.hub.last
    /\ \A f \in Wm : Seen(f) /\ Calm(m, f) => w.hub.last <= f /\ w.hub.in[Only].wm <= f
    /\ m.kind = "batch" =>
          \A time \in m.rows, start \in Starts :
             ~TooFarAhead(time) /\ start \in Assigned(time) /\ ~Passed(start)
                => start \in w.open

\* A hub that moved by a message is ready.
LEMMA HubReady ==
    ASSUME win \in WindowOf, NEW w \in WindowOf, NEW m,
           Advance(win.hub, w.hub), w.open = win.open, w.wmOut = win.wmOut,
           m.kind # "batch",
           w.hub.in[Only].wm = win.hub.in[Only].wm
             \/ \A f \in Wm : Calm(m, f) => w.hub.in[Only].wm <= f
    PROVE  Prepared(w, m)
<1>1. /\ w.hub \in HubOf({Only}) /\ win.hub \in HubOf({Only})
      /\ w.hub.last \in Wm /\ win.hub.last \in Wm
      /\ w.hub.in[Only].wm \in Wm /\ DOMAIN w.hub.in = {Only}
    BY DEF WindowOf, HubOf
<1>2. Loaded(w)
    BY DEF Advance, Loaded
<1>3. w.hub.in[Only].active => w.hub.in[Only].wm <= w.hub.last
    BY <1>1, SingleInput DEF Advance
<1>4. ASSUME NEW f \in Wm, Seen(f), Calm(m, f)
      PROVE  w.hub.last <= f /\ w.hub.in[Only].wm <= f
    <2>1. w.hub.in[Only].wm <= f
        BY <1>4 DEF Seen
    <2>2. w.hub.last = win.hub.last \/ w.hub.last = w.hub.in[Only].wm
        BY <1>1 DEF Advance
    <2> QED
        BY <1>4, <2>1, <2>2 DEF Seen
<1>5. win.hub.last <= w.hub.last
    BY DEF Advance
<1> QED
    BY <1>2, <1>3, <1>4, <1>5 DEF Prepared

\* Every message leaves the window prepared.
LEMMA WindowPrepares ==
    ASSUME TypeOK, Settled, Window
    PROVE  \E w : Prepared(w, Head(channel)) /\ Drain(w)
<1> DEFINE m == Head(channel)
<1>0. /\ win \in WindowOf /\ win.hub \in HubOf({Only}) /\ m \in Message
      /\ win.open \in SUBSET Starts /\ Only \in {Only}
      /\ win.hub.last \in Wm /\ win.hub.in[Only].wm \in Wm /\ win.wmOut \in Wm
    BY DEF TypeOK, Window, WindowOf, HubOf
<1>a. \/ WindowBatch(m) \/ WindowWatermark(m) \/ WindowActivity(m) \/ WindowEnd(m)
    BY DEF Window
<1>b. /\ m.kind = "batch" => m.rows \in Batches /\ m.floor \in Wm
      /\ m.kind = "watermark" => m.wm \in Wm
    BY <1>0, MessageParts
<1> HIDE DEF m
<1>1. CASE WindowBatch(m)
    <2> DEFINE rows == {time \in m.rows : ~TooFarAhead(time)}
               hits == UNION {Assigned(time) : time \in rows}
               w == [win EXCEPT !.open = @ \cup {st \in hits : ~Passed(st)}]
    <2>1. m.kind = "batch" /\ Drain(w)
        BY <1>1 DEF WindowBatch
    <2>2. \A time \in rows : time \in Times
        BY <1>b, <2>1 DEF Times
    <2>3. hits \subseteq Starts
        BY <2>2, AssignedWindows
    <2>4. /\ w \in WindowOf /\ w.hub = win.hub /\ w.wmOut = win.wmOut
          /\ w.open = win.open \cup {st \in hits : ~Passed(st)}
        BY <1>0, <2>3 DEF WindowOf
    <2>5. \A start \in w.open : start \in win.open \/ End(start) > win.wmOut
        <3>1. ASSUME NEW start \in hits, ~Passed(start) PROVE End(start) > win.wmOut
            <4>1. End(start) \in Int /\ win.wmOut \in Int /\ ~(End(start) <= win.wmOut)
                BY <1>0, <2>3, <3>1, StartsAreInts, WmIsInt DEF Passed
            <4> QED
                BY <4>1
        <3> QED
            BY <2>4, <3>1
    <2>6. ASSUME NEW time \in m.rows, NEW start \in Starts,
                 ~TooFarAhead(time), start \in Assigned(time), ~Passed(start)
          PROVE  start \in w.open
        BY <2>4, <2>6
    <2>7. Progress(win.hub) \in {None, win.hub.last}
        <3>1. CASE win.hub.in[Only].active
            <4>1. Effective(win.hub) <= win.hub.last /\ Effective(win.hub) \in Int
                BY <1>0, <3>1, SingleInput, WmIsInt DEF Settled
            <4> QED
                BY <1>0, <4>1, WmIsInt DEF Progress, Larger
        <3>2. CASE ~win.hub.in[Only].active
            <4>1. Active(win.hub) = {}
                BY <1>0, <3>2 DEF Active, HubOf
            <4> QED
                BY <4>1 DEF Progress, Effective
        <3> QED
            BY <3>1, <3>2
    <2>8. win.hub.last <= win.hub.last
        BY <1>0, WmIsInt
    <2> HIDE DEF w
    <2>9. Prepared(w, m)
        BY <2>4, <2>5, <2>6, <2>7, <2>8 DEF Prepared, Loaded, Seen, Settled
    <2> QED
        BY <2>1, <2>9 DEF m
<1>2. CASE WindowWatermark(m)
    <2> DEFINE g == SetWatermark(win.hub, Only, m.wm)
               w == [win EXCEPT !.hub = g]
    <2>1. m.kind = "watermark" /\ m.wm \in Wm /\ Drain(w)
        BY <1>2, <1>b DEF WindowWatermark
    <2>2. /\ g \in HubOf({Only}) /\ Advance(win.hub, g)
          /\ g.in[Only].wm \in {win.hub.in[Only].wm, m.wm}
        BY <1>0, <2>1, HubSetWatermark
    <2> HIDE DEF g
    <2>3. /\ w \in WindowOf /\ w.hub = g /\ w.wmOut = win.wmOut /\ w.open = win.open
        BY <1>0, <2>2 DEF WindowOf
    <2> HIDE DEF w
    <2>4. g.in[Only].wm = m.wm => \A f \in Wm : Calm(m, f) => g.in[Only].wm <= f
        BY <2>1 DEF Calm
    <2>5. Prepared(w, m)
        BY <1>0, <2>1, <2>2, <2>3, <2>4, HubReady
    <2> QED
        BY <2>1, <2>5 DEF m
<1>3. CASE m.kind = "idle" /\ Drain([win EXCEPT !.hub = MarkIdle(@, Only)])
    <2> DEFINE g == MarkIdle(win.hub, Only)
               w == [win EXCEPT !.hub = g]
    <2>2. /\ g \in HubOf({Only}) /\ Advance(win.hub, g)
          /\ g.in[Only].wm = win.hub.in[Only].wm
        BY <1>0, HubMarkIdle
    <2>1. m.kind = "idle" /\ Drain(w)
        BY <1>3
    <2> HIDE DEF g
    <2>3. /\ w \in WindowOf /\ w.hub = g /\ w.wmOut = win.wmOut /\ w.open = win.open
        BY <1>0, <2>2 DEF WindowOf
    <2> HIDE DEF w
    <2>5. Prepared(w, m)
        BY <1>0, <2>1, <2>2, <2>3, HubReady
    <2> QED
        BY <2>1, <2>5 DEF m
<1>4. CASE m.kind = "active" /\ Drain([win EXCEPT !.hub = MarkActive(@, Only)])
    <2> DEFINE g == MarkActive(win.hub, Only)
               w == [win EXCEPT !.hub = g]
    <2>2. /\ g \in HubOf({Only}) /\ Advance(win.hub, g)
          /\ g.in[Only].wm = win.hub.in[Only].wm
        BY <1>0, HubMarkActive
    <2>1. m.kind = "active" /\ Drain(w)
        BY <1>4
    <2> HIDE DEF g
    <2>3. /\ w \in WindowOf /\ w.hub = g /\ w.wmOut = win.wmOut /\ w.open = win.open
        BY <1>0, <2>2 DEF WindowOf
    <2> HIDE DEF w
    <2>5. Prepared(w, m)
        BY <1>0, <2>1, <2>2, <2>3, HubReady
    <2> QED
        BY <2>1, <2>5 DEF m
<1>5. CASE WindowEnd(m)
    <2> DEFINE h == MarkActive(win.hub, Only)
               g == SetWatermark(h, Only, Forever)
               w == [win EXCEPT !.eof = TRUE, !.hub = g]
    <2>1. m.kind = "eof" /\ Drain(w)
        BY <1>5 DEF WindowEnd
    <2>2. h \in HubOf({Only}) /\ Advance(win.hub, h)
        BY <1>0, HubMarkActive
    <2>3. h.in[Only].wm = win.hub.in[Only].wm /\ h.last \in Wm
        BY <1>0, <2>2, HubMarkActive DEF HubOf
    <2> HIDE DEF h
    <2>4. /\ g \in HubOf({Only}) /\ Advance(h, g)
        BY <1>0, <2>2, HubSetWatermark, WmValues
    <2> HIDE DEF g
    <2>5. /\ w \in WindowOf /\ w.hub = g /\ w.wmOut = win.wmOut /\ w.open = win.open
        BY <1>0, <2>4 DEF WindowOf
    <2> HIDE DEF w
    <2>6. Loaded(w)
        BY <2>4, <2>5 DEF Advance, Loaded
    <2>7. win.hub.last <= g.last
        <3>1. g.last \in Wm /\ win.hub.last <= h.last /\ h.last <= g.last
            BY <2>2, <2>4 DEF Advance, HubOf
        <3> QED
            BY <1>0, <2>3, <3>1, WmIsInt
    <2>8. g.in[Only].active => g.in[Only].wm <= g.last
        BY <2>4, SingleInput DEF Advance
    <2>9. Prepared(w, m)
        BY <2>1, <2>5, <2>6, <2>7, <2>8 DEF Prepared, Calm
    <2> QED
        BY <2>1, <2>9 DEF m
<1> QED
    BY <1>a, <1>1, <1>2, <1>3, <1>4, <1>5 DEF WindowActivity

-----------------------------------------------------------------------------
(* The union.                                                              *)

UnionOf == [hub : HubOf(Sources), ended : SUBSET Sources, idle : BOOLEAN, last : Wm]

\* What the union sends on for the message m when its hub stands at x: changes
\* of activity, the watermark x, and m itself if it is a batch, with nothing but
\* activity before it.
Forwarded(q, x, m) ==
    /\ q \in Seq(Message)
    /\ \A i \in DOMAIN q :
          \/ q[i].kind \in {"idle", "active"}
          \/ q[i].kind = "watermark" /\ q[i].wm = x
          \/ /\ q[i] = m /\ m.kind = "batch"
             /\ \A j \in 1..i - 1 : q[j].kind = "active"

\* A message that is sent or not is a sequence.
LEMMA WhenSeq ==
    ASSUME NEW c \in BOOLEAN, NEW m \in Message
    PROVE  /\ When(c, m) \in Seq(Message)
           /\ \A i \in DOMAIN When(c, m) : When(c, m)[i] = m
BY DEF When

\* Two parts of what is sent on, the second without the batch.
LEMMA ForwardedJoin ==
    ASSUME NEW q, NEW r, NEW x, NEW m, Forwarded(q, x, m), r \in Seq(Message),
           \A i \in DOMAIN r : \/ r[i].kind \in {"idle", "active"}
                               \/ r[i].kind = "watermark" /\ r[i].wm = x
    PROVE  Forwarded(q \o r, x, m)
<1>1. q \in Seq(Message) /\ r \in Seq(Message) /\ q \o r \in Seq(Message)
    BY DEF Forwarded
<1>2. Len(q) \in Nat /\ Len(r) \in Nat /\ DOMAIN (q \o r) = 1..Len(q) + Len(r)
    BY <1>1
<1>3. ASSUME NEW i \in 1..Len(q) + Len(r)
      PROVE  \/ (q \o r)[i].kind \in {"idle", "active"}
             \/ (q \o r)[i].kind = "watermark" /\ (q \o r)[i].wm = x
             \/ /\ (q \o r)[i] = m /\ m.kind = "batch"
                /\ \A j \in 1..i - 1 : (q \o r)[j].kind = "active"
    <2>1. CASE i <= Len(q)
        <3>1. i \in DOMAIN q /\ \A j \in 1..i : (q \o r)[j] = q[j]
            BY <1>1, <1>2, <2>1
        <3>2. (q \o r)[i] = q[i] /\ \A j \in 1..i - 1 : (q \o r)[j] = q[j]
            BY <1>2, <3>1
        <3> QED
            BY <3>1, <3>2 DEF Forwarded
    <2>2. CASE i > Len(q)
        <3>1. i - Len(q) \in DOMAIN r /\ (q \o r)[i] = r[i - Len(q)]
            BY <1>1, <1>2, <2>2
        <3> QED
            BY <3>1
    <2> QED
        BY <1>2, <2>1, <2>2
<1> QED
    BY <1>1, <1>2, <1>3 DEF Forwarded

\* A batch behind changes of activity.
LEMMA BatchForwarded ==
    ASSUME NEW a \in Seq(Message), NEW m \in Message, NEW x, m.kind = "batch",
           \A i \in DOMAIN a : a[i].kind = "active"
    PROVE  Forwarded(a \o <<m>>, x, m)
<1> DEFINE q == a \o <<m>>
<1>1. /\ q \in Seq(Message) /\ Len(a) \in Nat /\ DOMAIN q = 1..Len(a) + 1
      /\ DOMAIN a = 1..Len(a) /\ q[Len(a) + 1] = m
      /\ \A j \in 1..Len(a) : q[j] = a[j]
    OBVIOUS
<1> HIDE DEF q
<1>2. \A j \in 1..Len(a) : q[j].kind = "active"
    BY <1>1
<1>3. ASSUME NEW i \in 1..Len(a) + 1
      PROVE  \/ q[i].kind \in {"idle", "active"}
             \/ q[i] = m /\ \A j \in 1..i - 1 : q[j].kind = "active"
    <2>1. i \in 1..Len(a) \/ (i = Len(a) + 1 /\ 1..i - 1 = 1..Len(a))
        BY <1>1
    <2> QED
        BY <1>1, <1>2, <2>1
<1>4. Forwarded(q, x, m)
    BY <1>1, <1>3 DEF Forwarded
<1> QED
    BY <1>4 DEF q

\* The end of the union's loop.
LEMMA UnionForwardsStep ==
    ASSUME NEW u \in UnionOf, NEW sent, NEW m, Forwarded(sent, u.hub.last, m),
           channel \in Seq(Message), Progress(u.hub) \in {None, u.hub.last},
           UnionForwards(u, sent)
    PROVE  /\ union' \in UnionOf /\ union'.hub = u.hub /\ union'.ended = u.ended
           /\ \E q : Forwarded(q, u.hub.last, m) /\ channel' = channel \o q
<1> DEFINE nowIdle == AllIdle(u.hub)
           wm == Progress(u.hub)
           forward == wm # None /\ wm > u.last
           a == When(nowIdle # u.idle, Control(IF nowIdle THEN "idle" ELSE "active"))
           b == When(forward, Watermark(wm))
<1>1. /\ union' = [u EXCEPT !.idle = nowIdle, !.last = IF forward THEN wm ELSE @]
      /\ channel' = channel \o ((sent \o a) \o b)
    BY DEF UnionForwards
<1>2. wm \in Wm /\ nowIdle \in BOOLEAN /\ forward \in BOOLEAN
      /\ (nowIdle # u.idle) \in BOOLEAN
    BY WmValues DEF UnionOf, HubOf, AllIdle
<1>3. /\ Control(IF nowIdle THEN "idle" ELSE "active") \in Message
      /\ Watermark(wm) \in Message
      /\ Control(IF nowIdle THEN "idle" ELSE "active").kind \in {"idle", "active"}
      /\ Watermark(wm).kind = "watermark" /\ Watermark(wm).wm = wm
    BY <1>2, MessageParts DEF Control, Watermark
<1>4. /\ a \in Seq(Message) /\ b \in Seq(Message)
      /\ \A i \in DOMAIN a : a[i].kind \in {"idle", "active"}
    BY <1>2, <1>3, WhenSeq
<1>5. \A i \in DOMAIN b : b[i].kind = "watermark" /\ b[i].wm = u.hub.last
    <2>1. CASE forward
        BY <1>2, <1>3, <2>1, WhenSeq
    <2>2. CASE ~forward
        <3>1. b = <<>>
            BY <2>2 DEF When
        <3> QED
            BY <3>1
    <2> QED
        BY <2>1, <2>2
<1>6. union' \in UnionOf /\ union'.hub = u.hub /\ union'.ended = u.ended
    <2> HIDE DEF nowIdle, wm, forward
    <2> QED
        BY <1>1, <1>2 DEF UnionOf
<1> HIDE DEF a, b
<1>7. Forwarded(sent \o a, u.hub.last, m)
    BY <1>4, ForwardedJoin
<1>8. Forwarded((sent \o a) \o b, u.hub.last, m)
    BY <1>4, <1>5, <1>7, ForwardedJoin
<1>9. channel' = channel \o ((sent \o a) \o b)
    BY <1>1
<1> QED
    BY <1>6, <1>8, <1>9

\* What a message of s does to the union.
UnionMoves(s, m) ==
    /\ union' \in UnionOf
    /\ Advance(union.hub, union'.hub) /\ Touches(union.hub, union'.hub, s)
    /\ m.kind \notin {"idle", "eof"} /\ union.hub.in[s].active =>
          union'.hub.in[s].active
    /\ \/ union'.hub.in[s].wm = union.hub.in[s].wm
       \/ m.kind = "watermark" /\ union'.hub.in[s].wm = m.wm
    /\ union'.ended = IF m.kind = "eof" THEN union.ended \cup {s} ELSE union.ended
    /\ \E q \in Seq(Message) :
          /\ channel' = channel \o q
          /\ \/ Forwarded(q, union'.hub.last, m)
             \/ /\ m.kind = "eof" /\ union'.ended = Sources
                /\ \A i \in DOMAIN q : q[i].kind # "batch"

\* What the union keeps and sends on for each kind of message.
LEMMA UnionMoving ==
    ASSUME NEW s \in Sources, TypeOK, Union(s)
    PROVE  UnionMoves(s, Head(inbox[s]))
<1> DEFINE m == Head(inbox[s])
<1>0. /\ union \in UnionOf /\ union.hub \in HubOf(Sources) /\ m \in Message
      /\ channel \in Seq(Message)
      /\ \A k \in Sources : union.hub.in[k].wm \in Wm
    BY DEF TypeOK, Union, UnionOf, HubOf
<1>a. UnionBatch(s, m) \/ UnionWatermark(s, m) \/ UnionActivity(s, m) \/ UnionEnd(s, m)
    BY DEF Union
<1>b. m.kind = "watermark" => m.wm \in Wm
    BY <1>0, MessageParts
<1> HIDE DEF m
<1>n. \A x : Forwarded(<<>>, x, m)
    BY DEF Forwarded
<1>q. \A q, x : Forwarded(q, x, m) => q \in Seq(Message)
    BY DEF Forwarded
<1>1. CASE UnionBatch(s, m)
    <2> DEFINE g == MarkActive(union.hub, s)
               u == [union EXCEPT !.hub = g, !.idle = FALSE]
               sent == When(union.idle, Control("active")) \o <<m>>
    <2>1. m.kind = "batch" /\ UnionForwards(u, sent)
        BY <1>1 DEF UnionBatch
    <2>2. /\ g \in HubOf(Sources) /\ Advance(union.hub, g) /\ Touches(union.hub, g, s)
          /\ g.in[s].wm = union.hub.in[s].wm /\ g.in[s].active
        BY <1>0, HubMarkActive
    <2>3. Forwarded(sent, g.last, m)
        <3>1. Control("active") \in Message /\ Control("active").kind = "active"
            BY MessageParts DEF Control
        <3>2. PICK a \in Seq(Message) : a = When(union.idle, Control("active"))
            BY <1>0, <3>1, WhenSeq DEF UnionOf
        <3>3. \A i \in DOMAIN a : a[i].kind = "active"
            BY <1>0, <3>1, <3>2, WhenSeq DEF UnionOf
        <3> QED
            BY <1>0, <2>1, <3>2, <3>3, BatchForwarded
    <2>4. Progress(g) \in {None, g.last}
        BY <2>2 DEF Advance
    <2> HIDE DEF g, sent
    <2>5. u \in UnionOf /\ u.hub = g /\ u.ended = union.ended
        BY <1>0, <2>2 DEF UnionOf
    <2> HIDE DEF u
    <2>6. /\ union' \in UnionOf /\ union'.hub = g /\ union'.ended = union.ended
          /\ \E q : Forwarded(q, g.last, m) /\ channel' = channel \o q
        BY <1>0, <2>1, <2>3, <2>4, <2>5, UnionForwardsStep
    <2>7. UnionMoves(s, m)
        BY <1>q, <2>1, <2>2, <2>6 DEF UnionMoves
    <2> QED
        BY <2>7 DEF m
<1>2. CASE UnionWatermark(s, m)
    <2> DEFINE g == SetWatermark(union.hub, s, m.wm)
               u == [union EXCEPT !.hub = g]
    <2>1. m.kind = "watermark" /\ m.wm \in Wm /\ UnionForwards(u, <<>>)
        BY <1>2, <1>b DEF UnionWatermark
    <2>2. /\ g \in HubOf(Sources) /\ Advance(union.hub, g) /\ Touches(union.hub, g, s)
          /\ g.in[s].wm \in {union.hub.in[s].wm, m.wm}
          /\ g.in[s].active = union.hub.in[s].active
        BY <1>0, <2>1, HubSetWatermark
    <2>4. Progress(g) \in {None, g.last}
        BY <2>2 DEF Advance
    <2> HIDE DEF g
    <2>5. u \in UnionOf /\ u.hub = g /\ u.ended = union.ended
        BY <1>0, <2>2 DEF UnionOf
    <2> HIDE DEF u
    <2>6. /\ union' \in UnionOf /\ union'.hub = g /\ union'.ended = union.ended
          /\ \E q : Forwarded(q, g.last, m) /\ channel' = channel \o q
        BY <1>0, <1>n, <2>1, <2>4, <2>5, UnionForwardsStep
    <2>7. UnionMoves(s, m)
        BY <1>q, <2>1, <2>2, <2>6 DEF UnionMoves
    <2> QED
        BY <2>7 DEF m
<1>3. CASE m.kind = "idle" /\ UnionForwards([union EXCEPT !.hub = MarkIdle(@, s)], <<>>)
    <2> DEFINE g == MarkIdle(union.hub, s)
               u == [union EXCEPT !.hub = g]
    <2>1. m.kind = "idle" /\ UnionForwards(u, <<>>)
        BY <1>3
    <2>2. /\ g \in HubOf(Sources) /\ Advance(union.hub, g) /\ Touches(union.hub, g, s)
          /\ g.in[s].wm = union.hub.in[s].wm
        BY <1>0, HubMarkIdle
    <2>4. Progress(g) \in {None, g.last}
        BY <2>2 DEF Advance
    <2> HIDE DEF g
    <2>5. u \in UnionOf /\ u.hub = g /\ u.ended = union.ended
        BY <1>0, <2>2 DEF UnionOf
    <2> HIDE DEF u
    <2>6. /\ union' \in UnionOf /\ union'.hub = g /\ union'.ended = union.ended
          /\ \E q : Forwarded(q, g.last, m) /\ channel' = channel \o q
        BY <1>0, <1>n, <2>1, <2>4, <2>5, UnionForwardsStep
    <2>7. UnionMoves(s, m)
        BY <1>q, <2>1, <2>2, <2>6 DEF UnionMoves
    <2> QED
        BY <2>7 DEF m
<1>4. CASE m.kind = "active" /\ UnionForwards([union EXCEPT !.hub = MarkActive(@, s)], <<>>)
    <2> DEFINE g == MarkActive(union.hub, s)
               u == [union EXCEPT !.hub = g]
    <2>1. m.kind = "active" /\ UnionForwards(u, <<>>)
        BY <1>4
    <2>2. /\ g \in HubOf(Sources) /\ Advance(union.hub, g) /\ Touches(union.hub, g, s)
          /\ g.in[s].wm = union.hub.in[s].wm /\ g.in[s].active
        BY <1>0, HubMarkActive
    <2>4. Progress(g) \in {None, g.last}
        BY <2>2 DEF Advance
    <2> HIDE DEF g
    <2>5. u \in UnionOf /\ u.hub = g /\ u.ended = union.ended
        BY <1>0, <2>2 DEF UnionOf
    <2> HIDE DEF u
    <2>6. /\ union' \in UnionOf /\ union'.hub = g /\ union'.ended = union.ended
          /\ \E q : Forwarded(q, g.last, m) /\ channel' = channel \o q
        BY <1>0, <1>n, <2>1, <2>4, <2>5, UnionForwardsStep
    <2>7. UnionMoves(s, m)
        BY <1>q, <2>1, <2>2, <2>6 DEF UnionMoves
    <2> QED
        BY <2>7 DEF m
<1>5. CASE UnionEnd(s, m)
    <2> DEFINE g == MarkIdle(union.hub, s)
               u == [union EXCEPT !.hub = g, !.ended = @ \cup {s}]
    <2>1. /\ m.kind = "eof"
          /\ \/ /\ u.ended = Sources
                /\ union' = [u EXCEPT !.idle = FALSE, !.last = Forever]
                /\ channel' = channel \o When(u.idle, Control("active"))
                                 \o <<Watermark(Forever), Control("eof")>>
             \/ UnionForwards(u, <<>>)
        BY <1>5 DEF UnionEnd, AfterEnd
    <2>2. /\ g \in HubOf(Sources) /\ Advance(union.hub, g) /\ Touches(union.hub, g, s)
          /\ g.in[s].wm = union.hub.in[s].wm
        BY <1>0, HubMarkIdle
    <2>4. Progress(g) \in {None, g.last}
        BY <2>2 DEF Advance
    <2> HIDE DEF g
    <2>5. /\ u \in UnionOf /\ u.hub = g /\ u.ended = union.ended \cup {s}
          /\ u.idle \in BOOLEAN
        BY <1>0, <2>2 DEF UnionOf
    <2> HIDE DEF u
    <2>6. CASE UnionForwards(u, <<>>)
        <3>1. /\ union' \in UnionOf /\ union'.hub = g /\ union'.ended = union.ended \cup {s}
              /\ \E q : Forwarded(q, g.last, m) /\ channel' = channel \o q
            BY <1>0, <1>n, <2>4, <2>5, <2>6, UnionForwardsStep
        <3>2. UnionMoves(s, m)
            BY <1>q, <2>1, <2>2, <3>1 DEF UnionMoves
        <3> QED
            BY <3>2 DEF m
    <2>7. CASE /\ u.ended = Sources
               /\ union' = [u EXCEPT !.idle = FALSE, !.last = Forever]
               /\ channel' = channel \o When(u.idle, Control("active"))
                                 \o <<Watermark(Forever), Control("eof")>>
        <3>1. /\ union' \in UnionOf /\ union'.hub = g
              /\ union'.ended = union.ended \cup {s} /\ union'.ended = Sources
            BY <2>5, <2>7, WmValues DEF UnionOf
        <3> DEFINE a == When(u.idle, Control("active"))
                   b == <<Watermark(Forever), Control("eof")>>
        <3>2. /\ Control("active") \in Message /\ Watermark(Forever) \in Message
              /\ Control("eof") \in Message
            BY MessageParts, WmValues
        <3>3. a \in Seq(Message) /\ b \in Seq(Message)
            BY <2>5, <3>2, WhenSeq
        <3>4. channel' = channel \o a \o b
            BY <2>7
        <3> HIDE DEF a, b
        <3>5. channel' = channel \o (a \o b) /\ a \o b \in Seq(Message)
            BY <1>0, <3>3, <3>4
        <3>a. \A i \in DOMAIN a : a[i].kind # "batch"
            BY <2>5, <3>2, WhenSeq DEF a, Control
        <3>b. \A i \in DOMAIN b : b[i].kind # "batch"
            BY <3>2 DEF b, Control, Watermark
        <3>c. \A i \in DOMAIN (a \o b) : (a \o b)[i].kind # "batch"
            <4> TAKE i \in DOMAIN (a \o b)
            <4>1. \/ i \in DOMAIN a /\ (a \o b)[i] = a[i]
                  \/ i - Len(a) \in DOMAIN b /\ (a \o b)[i] = b[i - Len(a)]
                BY <3>3
            <4> QED
                BY <3>a, <3>b, <4>1
        <3>6. UnionMoves(s, m)
            BY <2>1, <2>2, <3>1, <3>5, <3>c DEF UnionMoves
        <3> QED
            BY <3>6 DEF m
    <2> QED
        BY <2>1, <2>6, <2>7
<1> QED
    BY <1>a, <1>1, <1>2, <1>3, <1>4, <1>5 DEF UnionActivity

-----------------------------------------------------------------------------
(* The sources.                                                            *)

\* A batch does not move the generated watermark back.
LEMMA GeneratedWm ==
    ASSUME NEW rows \in Batches, NEW last \in Wm
    PROVE  Generated(rows, last) \in Wm /\ last <= Generated(rows, last)
<1> DEFINE timely == {time \in rows : ~TooFarAhead(time)}
           wms == {last} \cup {Clamp(time - Disorder) : time \in timely}
<1>1. \A time \in timely : Clamp(time - Disorder) \in Wm
    <2> TAKE time \in timely
    <2>1. time \in Nat /\ time <= MaxTime
        BY LastTime DEF Times
    <2>2. /\ Disorder \in Nat /\ MaxTime \in Nat /\ Forever \in Nat /\ Lateness \in Nat
          /\ MaxTime + Lateness < Forever
        BY EventTimeAssumption, LastTime
    <2>3. Clamp(time - Disorder) \in 0..Forever
        BY <2>1, <2>2 DEF Clamp, Larger
    <2> QED
        BY <2>3 DEF Wm
<1>2. wms \in SUBSET Wm /\ last \in wms
    BY <1>1
<1>3. Generated(rows, last) = CHOOSE m \in wms : \A o \in wms : m >= o
    BY DEF Generated
<1> HIDE DEF wms
<1>4. \E m \in wms : \A o \in wms : m >= o
    BY <1>2, GreatestWm
<1>5. Generated(rows, last) \in wms /\ \A o \in wms : Generated(rows, last) >= o
    BY <1>3, <1>4
<1> QED
    BY <1>2, <1>5, WmIsInt

\* What send_source puts into the mailbox, and what it promises.
Sends(s) ==
    \E q, m : \E next \in Wm, floor \in Wm :
       /\ Forwarded(q, next, m) /\ m.kind = "batch" /\ m.floor = floor
       /\ \A i \in DOMAIN q : q[i].kind # "idle"
       /\ floor = IF feed[s].kept THEN feed[s].promise ELSE Forever
       /\ src[s].last <= next
       /\ inbox' = [inbox EXCEPT ![s] = @ \o q]
       /\ src' = [src EXCEPT ![s].last = next, ![s].active = TRUE]
       /\ feed' = [feed EXCEPT ![s].sent = @ + 1, ![s].promise = Larger(@, next)]

\* What a source has sent after one more batch.
LEMMA SendStep ==
    ASSUME TypeOK, NEW s \in Sources, NEW rows \in Batches, Send(s, rows)
    PROVE  Sends(s)
<1> DEFINE next == Generated(rows, src[s].last)
           floor == IF feed[s].kept THEN feed[s].promise ELSE Forever
           m == Batch(rows, floor)
           a == When(~src[s].active, Control("active"))
           b == When(next > src[s].last, Watermark(next))
<1>0. /\ src[s].last \in Wm /\ src[s].active \in BOOLEAN /\ feed[s].promise \in Wm
      /\ inbox[s] \in Seq(Message) /\ s \in DOMAIN inbox
    BY DEF TypeOK, FeedOf
<1>1. /\ inbox' = [inbox EXCEPT ![s] = @ \o a \o <<m>> \o b]
      /\ src' = [src EXCEPT ![s].last = next, ![s].active = TRUE]
      /\ feed' = [feed EXCEPT ![s].sent = @ + 1, ![s].promise = Larger(@, next)]
    BY DEF Send
<1>2. next \in Wm /\ src[s].last <= next
    BY <1>0, GeneratedWm
<1>3. floor \in Wm
    BY <1>0, WmValues
<1> HIDE DEF next, floor
<1>4. m \in Message /\ m.kind = "batch" /\ m.floor = floor
    BY <1>3, MessageParts DEF Batch
<1> HIDE DEF m
<1>5. /\ a \in Seq(Message) /\ \A i \in DOMAIN a : a[i].kind = "active"
    <2>1. Control("active") \in Message /\ Control("active").kind = "active"
        BY MessageParts DEF Control
    <2> QED
        BY <1>0, <2>1, WhenSeq
<1>6. /\ b \in Seq(Message)
      /\ \A i \in DOMAIN b : b[i].kind = "watermark" /\ b[i].wm = next
    <2>1. /\ Watermark(next) \in Message
          /\ Watermark(next).kind = "watermark" /\ Watermark(next).wm = next
        BY <1>2, MessageParts DEF Watermark
    <2>2. (next > src[s].last) \in BOOLEAN
        OBVIOUS
    <2> QED
        BY <2>1, <2>2, WhenSeq
<1> HIDE DEF a, b
<1>7. Forwarded(a \o <<m>>, next, m)
    BY <1>4, <1>5, BatchForwarded
<1>8. Forwarded((a \o <<m>>) \o b, next, m)
    BY <1>6, <1>7, ForwardedJoin
<1>9. inbox[s] \o a \o <<m>> \o b = inbox[s] \o ((a \o <<m>>) \o b)
    BY <1>0, <1>4, <1>5, <1>6
<1>10. inbox' = [inbox EXCEPT ![s] = @ \o ((a \o <<m>>) \o b)]
    BY <1>0, <1>1, <1>9
<1>11. \A i \in DOMAIN ((a \o <<m>>) \o b) : ((a \o <<m>>) \o b)[i].kind # "idle"
    <2>1. \A i \in DOMAIN (a \o <<m>>) : (a \o <<m>>)[i].kind # "idle"
        <3>1. /\ DOMAIN (a \o <<m>>) = 1..Len(a) + 1 /\ (a \o <<m>>)[Len(a) + 1] = m
              /\ \A i \in 1..Len(a) : (a \o <<m>>)[i] = a[i] /\ i \in DOMAIN a
              /\ Len(a) \in Nat
            BY <1>4, <1>5
        <3>2. \A i \in 1..Len(a) + 1 : i \in 1..Len(a) \/ i = Len(a) + 1
            BY <3>1
        <3> QED
            BY <1>4, <1>5, <3>1, <3>2
    <2>2. a \o <<m>> \in Seq(Message)
        BY <1>4, <1>5
    <2>3. PICK p \in Seq(Message) : p = a \o <<m>>
        BY <2>2
    <2>4. ASSUME NEW i \in DOMAIN (p \o b) PROVE (p \o b)[i].kind # "idle"
        <3>1. \/ i \in DOMAIN p /\ (p \o b)[i] = p[i]
              \/ i - Len(p) \in DOMAIN b /\ (p \o b)[i] = b[i - Len(p)]
            BY <1>6
        <3> QED
            BY <1>6, <2>1, <2>3, <3>1
    <2> QED
        BY <2>3, <2>4
<1> QED
    BY <1>1, <1>2, <1>3, <1>4, <1>8, <1>10, <1>11 DEF Sends, floor

-----------------------------------------------------------------------------
(* Type correctness.                                                       *)

\* The hub of a new job is typed.
LEMMA FreshTyped ==
    /\ FreshSource \in [last : Wm, active : BOOLEAN, ended : BOOLEAN]
    /\ FreshUnion \in UnionOf /\ FreshWindow \in WindowOf
    /\ \A Ids : Hub(Ids) \in HubOf(Ids)
BY WmValues DEF FreshSource, FreshUnion, FreshWindow, UnionOf, WindowOf, HubOf, Hub

\* The initial state has the types.
LEMMA TypeInit == Init => TypeOK
<1> SUFFICES ASSUME Init PROVE TypeOK
    OBVIOUS
<1>1. /\ now \in 0..MaxNow /\ idles \in 0..MaxIdle /\ restarts \in 0..MaxRestarts
      /\ 0 \in 0..MaxCuts
    BY EventTimeAssumption DEF Init
<1>2. feed \in FeedOf
    BY WmValues DEF Init, FeedOf
<1>3. win \in WindowOf /\ union \in UnionOf
      /\ src \in [Sources -> [last : Wm, active : BOOLEAN, ended : BOOLEAN]]
    BY FreshTyped DEF Init
<1>4. out \in OutOf
    BY WmValues DEF Init, OutOf
<1>5. inbox \in [Sources -> Seq(Message)] /\ channel \in Seq(Message)
    BY DEF Init
<1>6. cut \in [win : WindowOf, out : OutOf, feed : FeedOf, id : 0..MaxCuts]
    BY <1>1, <1>2, <1>3, <1>4 DEF Init
<1> QED
    BY <1>1, <1>2, <1>3, <1>4, <1>5, <1>6 DEF TypeOK, UnionOf

\* A control message behind the others keeps a mailbox in its type.
LEMMA AnnounceTyped ==
    ASSUME TypeOK, NEW s \in Sources, NEW k \in {"idle", "active", "eof"}, Announce(s, k)
    PROVE  inbox' \in [Sources -> Seq(Message)]
<1>1. Control(k) \in Message
    BY MessageParts
<1>2. inbox[s] \in Seq(Message)
    BY DEF TypeOK
<1>3. Append(inbox[s], Control(k)) \in Seq(Message)
    BY <1>1, <1>2
<1> QED
    BY <1>3 DEF TypeOK, Announce

\* A window that is restored from its cut has the types.
LEMMA RestoredTyped ==
    ASSUME NEW w \in WindowOf
    PROVE  /\ Restored(w) \in WindowOf
           /\ Restored(w).open = w.open /\ Restored(w).wmOut = w.wmOut
           /\ Restored(w).hub.last = w.hub.last
           /\ Restored(w).hub.in[Only].wm = None
<1>1. w.hub.last \in Wm /\ w.open \in SUBSET Starts /\ w.wmIn \in Wm /\ w.wmOut \in Wm
    BY DEF WindowOf, HubOf
<1>2. PICK f \in WindowOf : f = FreshWindow
    BY FreshTyped
<1>3. f.hub.in[Only].wm = None
    BY <1>2 DEF FreshWindow, Hub
<1>4. Restored(w) = [f EXCEPT !.open = w.open, !.wmIn = w.wmIn, !.wmOut = w.wmOut,
                              !.hub.last = w.hub.last]
    BY <1>2 DEF Restored
<1>5. PICK g \in HubOf({Only}) : g = f.hub
    BY DEF WindowOf
<1>6. PICK h \in HubOf({Only}) : h = [g EXCEPT !.last = w.hub.last]
    BY <1>1, <1>5 DEF HubOf
<1>7. h.last = w.hub.last /\ h.in[Only].wm = None
    BY <1>3, <1>5, <1>6 DEF HubOf
<1>8. Restored(w) = [hub |-> h, open |-> w.open, wmIn |-> w.wmIn, wmOut |-> w.wmOut,
                     eof |-> f.eof]
    BY <1>4, <1>5, <1>6 DEF WindowOf
<1> QED
    BY <1>1, <1>7, <1>8 DEF WindowOf

\* Every step keeps the types.
LEMMA TypeStep == TypeOK /\ Settled /\ [Next]_vars => TypeOK'
<1> SUFFICES ASSUME TypeOK, Settled, [Next]_vars PROVE TypeOK'
    OBVIOUS
<1>1. CASE Tick
    BY <1>1, EventTimeAssumption DEF Tick, TypeOK
<1>2. ASSUME NEW s \in Sources, NEW rows \in Batches, Send(s, rows) PROVE TypeOK'
    <2>1. Sends(s)
        BY <1>2, SendStep
    <2>2. PICK next \in Wm, q \in Seq(Message) :
             /\ src' = [src EXCEPT ![s].last = next, ![s].active = TRUE]
             /\ feed' = [feed EXCEPT ![s].sent = @ + 1, ![s].promise = Larger(@, next)]
             /\ inbox' = [inbox EXCEPT ![s] = @ \o q]
        <3>1. \A q, x, m : Forwarded(q, x, m) => q \in Seq(Message)
            BY DEF Forwarded
        <3> QED
            BY <2>1, <3>1 DEF Sends
    <2>3. feed[s].promise \in Wm /\ feed[s].sent \in Nat /\ inbox[s] \in Seq(Message)
        BY DEF TypeOK, FeedOf
    <2>4. Larger(feed[s].promise, next) \in Wm
        BY <2>3, LargerWm
    <2>5. feed' \in FeedOf
        <3>0. PICK v \in Wm, n \in Nat : v = Larger(feed[s].promise, next) /\ n = feed[s].sent + 1
            BY <2>3, <2>4
        <3>1. PICK r \in [promise : Wm, kept : BOOLEAN, done : BOOLEAN, sent : Nat] :
                 r = [feed[s] EXCEPT !.sent = @ + 1, !.promise = Larger(@, next)]
            <4>1. [feed[s] EXCEPT !.sent = @ + 1, !.promise = Larger(@, next)]
                    = [feed[s] EXCEPT !.sent = n, !.promise = v]
                BY <3>0
            <4>2. [feed[s] EXCEPT !.sent = n, !.promise = v]
                    \in [promise : Wm, kept : BOOLEAN, done : BOOLEAN, sent : Nat]
                <5>1. feed[s] \in [promise : Wm, kept : BOOLEAN, done : BOOLEAN, sent : Nat]
                    BY DEF TypeOK, FeedOf
                <5> QED
                    BY <5>1
            <4> QED
                BY <4>1, <4>2
        <3>2. feed' = [feed EXCEPT ![s] = r]
            BY <2>2, <3>1 DEF TypeOK, FeedOf
        <3> QED
            BY <3>1, <3>2 DEF TypeOK, FeedOf
    <2>6. inbox[s] \o q \in Seq(Message)
        BY <2>2, <2>3
    <2>7. inbox' \in [Sources -> Seq(Message)]
        BY <2>2, <2>6 DEF TypeOK
    <2>8. src' \in [Sources -> [last : Wm, active : BOOLEAN, ended : BOOLEAN]]
        BY <2>2 DEF TypeOK
    <2> QED
        BY <1>2, <2>5, <2>7, <2>8 DEF Send, TypeOK
<1>3. ASSUME NEW s \in Sources, GoIdle(s) PROVE TypeOK'
    <2>0. /\ feed \in FeedOf
          /\ src \in [Sources -> [last : Wm, active : BOOLEAN, ended : BOOLEAN]]
          /\ feed' = [feed EXCEPT ![s].kept = FALSE]
          /\ src' = [src EXCEPT ![s].active = FALSE]
        BY <1>3 DEF GoIdle, TypeOK
    <2>1. inbox' \in [Sources -> Seq(Message)]
        BY <1>3, AnnounceTyped DEF GoIdle
    <2>2. idles' \in 0..MaxIdle
        <3>1. MaxIdle \in Nat /\ idles \in 0..MaxIdle /\ idles < MaxIdle /\ idles' = idles + 1
            BY <1>3, EventTimeAssumption DEF GoIdle, TypeOK
        <3> QED
            BY <3>1
    <2>3. feed' \in FeedOf
        BY <2>0 DEF FeedOf
    <2>4. src' \in [Sources -> [last : Wm, active : BOOLEAN, ended : BOOLEAN]]
        BY <2>0
    <2>5. UNCHANGED <<now, union, channel, win, out, cut, restarts>>
        BY <1>3 DEF GoIdle, Announce
    <2> QED
        BY <2>1, <2>2, <2>3, <2>4, <2>5 DEF TypeOK
<1>4. ASSUME NEW s \in Sources, GoActive(s) PROVE TypeOK'
    <2>1. inbox' \in [Sources -> Seq(Message)]
        BY <1>4, AnnounceTyped DEF GoActive
    <2>4. src' \in [Sources -> [last : Wm, active : BOOLEAN, ended : BOOLEAN]]
        BY <1>4 DEF GoActive, TypeOK
    <2>5. UNCHANGED <<now, feed, union, channel, win, out, cut, idles, restarts>>
        BY <1>4 DEF GoActive, Announce
    <2> QED
        BY <2>1, <2>4, <2>5 DEF TypeOK
<1>5. ASSUME NEW s \in Sources, EndSource(s) PROVE TypeOK'
    <2>0. /\ feed \in FeedOf
          /\ src \in [Sources -> [last : Wm, active : BOOLEAN, ended : BOOLEAN]]
          /\ feed' = [feed EXCEPT ![s].done = TRUE]
          /\ src' = [src EXCEPT ![s].ended = TRUE]
        BY <1>5 DEF EndSource, TypeOK
    <2>1. inbox' \in [Sources -> Seq(Message)]
        BY <1>5, AnnounceTyped DEF EndSource
    <2>3. feed' \in FeedOf
        BY <2>0 DEF FeedOf
    <2>4. src' \in [Sources -> [last : Wm, active : BOOLEAN, ended : BOOLEAN]]
        BY <2>0
    <2>5. UNCHANGED <<now, union, channel, win, out, cut, idles, restarts>>
        BY <1>5 DEF EndSource, Announce
    <2> QED
        BY <2>1, <2>3, <2>4, <2>5 DEF TypeOK
<1>6. ASSUME NEW s \in Sources, Union(s) PROVE TypeOK'
    <2>1. UnionMoves(s, Head(inbox[s]))
        BY <1>6, UnionMoving
    <2>2. union' \in UnionOf /\ channel' \in Seq(Message)
        BY <2>1 DEF UnionMoves, TypeOK
    <2>3. inbox[s] \in Seq(Message) /\ inbox[s] # <<>>
        BY <1>6 DEF Union, TypeOK
    <2>4. Tail(inbox[s]) \in Seq(Message)
        BY <2>3
    <2>5. inbox' \in [Sources -> Seq(Message)]
        BY <1>6, <2>4 DEF Union, TypeOK
    <2> QED
        BY <1>6, <2>2, <2>5 DEF Union, TypeOK, UnionOf
<1>7. CASE Window
    <2>1. PICK w : Prepared(w, Head(channel)) /\ Drain(w)
        BY <1>7, WindowPrepares
    <2>2. win' \in WindowOf /\ out' \in OutOf
        BY <2>1, DrainStep DEF Prepared, TypeOK
    <2>3. channel' \in Seq(Message)
        BY <1>7 DEF Window, TypeOK
    <2> QED
        BY <1>7, <2>2, <2>3 DEF Window, TypeOK
<1>8. CASE Checkpoint
    <2>1. cut.id + 1 \in 0..MaxCuts
        BY <1>8, EventTimeAssumption DEF Checkpoint, TypeOK
    <2>2. cut' \in [win : WindowOf, out : OutOf, feed : FeedOf, id : 0..MaxCuts]
        BY <1>8, <2>1 DEF Checkpoint, TypeOK
    <2> QED
        BY <1>8, <2>2 DEF Checkpoint, TypeOK
<1>9. CASE Restart
    <2>1. restarts' \in 0..MaxRestarts
        BY <1>9, EventTimeAssumption DEF Restart, TypeOK
    <2>2. win' \in WindowOf
        BY <1>9, RestoredTyped DEF Restart, TypeOK
    <2>3. /\ src' \in [Sources -> [last : Wm, active : BOOLEAN, ended : BOOLEAN]]
          /\ union' \in UnionOf
        BY <1>9, FreshTyped DEF Restart
    <2>4. inbox' \in [Sources -> Seq(Message)] /\ channel' \in Seq(Message)
        BY <1>9 DEF Restart
    <2> QED
        BY <1>9, <2>1, <2>2, <2>3, <2>4 DEF Restart, TypeOK, UnionOf
<1>10. CASE UNCHANGED vars
    BY <1>10 DEF vars, TypeOK
<1> QED
    BY <1>1, <1>2, <1>3, <1>4, <1>5, <1>6, <1>7, <1>8, <1>9, <1>10 DEF Next

-----------------------------------------------------------------------------
(* Finals and the output watermark.                                        *)

\* Every step keeps the open windows ahead of what was sent downstream.
LEMMA FinalStep == TypeOK /\ Settled /\ FinalInv /\ [Next]_vars => FinalInv'
<1> SUFFICES ASSUME TypeOK, Settled, FinalInv, [Next]_vars PROVE FinalInv'
    OBVIOUS
<1>0. /\ \A start \in Starts : out.finals[start] \in Nat /\ cut.out.finals[start] \in Nat
      /\ out \in OutOf
    BY DEF TypeOK, OutOf
<1>1. CASE Window
    <2>1. PICK w : Prepared(w, Head(channel)) /\ Drain(w)
        BY <1>1, WindowPrepares
    <2>2. Ahead(w, out)
        BY <2>1 DEF Prepared, FinalInv, Ahead
    <2>3. /\ Ahead(win', out')
          /\ \A start \in Starts : out.finals[start] <= out'.finals[start]
          /\ out' \in OutOf
        BY <1>0, <2>1, <2>2, DrainStep DEF Prepared
    <2>4. Counted'
        <3> SUFFICES ASSUME NEW start \in Starts
                     PROVE  cut'.out.finals[start] <= out'.finals[start]
            BY DEF Counted
        <3>1. cut' = cut /\ out'.finals[start] \in Nat
            BY <1>1, <2>3 DEF Window, OutOf
        <3>2. cut.out.finals[start] <= out.finals[start]
            BY DEF FinalInv, Counted
        <3> QED
            BY <1>0, <2>3, <3>1, <3>2
    <2> QED
        BY <1>1, <2>3, <2>4 DEF Window, FinalInv
<1>2. CASE Checkpoint
    <2>1. cut'.win = win /\ cut'.out = out /\ out' = out /\ win' = win
        BY <1>2 DEF Checkpoint
    <2>2. \A start \in Starts : out.finals[start] <= out.finals[start]
        BY <1>0
    <2> QED
        BY <2>1, <2>2 DEF FinalInv, Counted
<1>3. CASE Restart
    <2>1. win' = Restored(cut.win) /\ out' = cut.out /\ cut' = cut /\ cut.win \in WindowOf
        BY <1>3 DEF Restart, TypeOK
    <2>2. win'.open = cut.win.open /\ win'.wmOut = cut.win.wmOut
        BY <2>1, RestoredTyped
    <2>3. \A start \in Starts : cut.out.finals[start] <= cut.out.finals[start]
        BY <1>0
    <2> QED
        BY <2>1, <2>2, <2>3 DEF FinalInv, Ahead, Counted
<1>4. CASE UNCHANGED <<win, out, cut>>
    BY <1>4 DEF FinalInv, Counted
<1>5. Next \/ UNCHANGED vars => Window \/ Checkpoint \/ Restart \/ UNCHANGED <<win, out, cut>>
    <2>1. ASSUME NEW s \in Sources, NEW rows \in Batches, Send(s, rows)
          PROVE  UNCHANGED <<win, out, cut>>
        BY <2>1 DEF Send
    <2>2. ASSUME NEW s \in Sources, GoIdle(s) \/ GoActive(s) \/ EndSource(s)
          PROVE  UNCHANGED <<win, out, cut>>
        BY <2>2 DEF GoIdle, GoActive, EndSource, Announce
    <2>3. ASSUME NEW s \in Sources, Union(s) PROVE UNCHANGED <<win, out, cut>>
        BY <2>3 DEF Union
    <2>4. Tick \/ UNCHANGED vars => UNCHANGED <<win, out, cut>>
        BY DEF Tick, vars
    <2> QED
        BY <2>1, <2>2, <2>3, <2>4 DEF Next
<1> QED
    BY <1>1, <1>2, <1>3, <1>4, <1>5

\* At the start nothing has been sent downstream.
LEMMA FinalInit == Init => FinalInv
BY DEF Init, FinalInv, Ahead, Counted, FreshWindow, None

\* A final is emitted for an open window alone, and open windows end after what
\* was sent downstream.
LEMMA FinalsAhead ==
    ASSUME TypeOK, Settled, FinalInv, [Next]_vars,
           NEW start \in Starts, out'.finals[start] > out.finals[start]
    PROVE  End(start) > out.wm
<1>0. /\ out \in OutOf /\ win.wmOut \in Wm /\ out.wm \in Wm
      /\ out.finals[start] \in Nat /\ cut.out.finals[start] \in Nat
    BY DEF TypeOK, OutOf, WindowOf
<1>1. CASE Window
    <2>1. PICK w : Prepared(w, Head(channel)) /\ Drain(w)
        BY <1>1, WindowPrepares
    <2>2. start \in w.open
        BY <1>0, <2>1, DrainStep DEF Prepared
    <2>3. End(start) > win.wmOut /\ out.wm <= win.wmOut
        BY <2>1, <2>2 DEF Prepared, FinalInv, Ahead
    <2> QED
        BY <1>0, <2>3, StartsAreInts, WmIsInt
<1>2. CASE Restart
    <2>1. out' = cut.out /\ cut.out.finals[start] <= out.finals[start]
        BY <1>2 DEF Restart, FinalInv, Counted
    <2> QED
        BY <1>0, <2>1
<1>3. CASE UNCHANGED out
    BY <1>0, <1>3
<1>4. Next \/ UNCHANGED vars => Window \/ Restart \/ UNCHANGED out
    BY DEF Next, vars, Tick, Send, GoIdle, GoActive, EndSource, Announce, Union, Checkpoint
<1> QED
    BY <1>1, <1>2, <1>3, <1>4

-----------------------------------------------------------------------------
(* Rows and the promises of their sources.                                 *)

\* A higher bound bounds as well.
LEMMA Higher ==
    ASSUME TypeOK, NEW a \in Wm, NEW b \in Wm, a <= b
    PROVE  /\ \A m \in Message : Calm(m, a) => Calm(m, b)
           /\ Ceiling(a) => Ceiling(b)
<1>1. a \in Int /\ b \in Int
    BY WmIsInt
<1>2. ASSUME NEW m \in Message, Calm(m, a) PROVE Calm(m, b)
    <2>1. CASE m.kind = "watermark"
        <3>1. m.wm \in Int /\ m.wm <= a
            BY <1>2, <2>1, MessageParts, WmIsInt DEF Calm
        <3> QED
            BY <1>1, <1>2, <3>1 DEF Calm
    <2> QED
        BY <1>2, <2>1 DEF Calm
<1>3. ASSUME Ceiling(a) PROVE Ceiling(b)
    <2>1. win.hub.last \in Int /\ win.hub.in[Only].wm \in Int
        BY WmIsInt DEF TypeOK, WindowOf, HubOf
    <2>2. Seen(b)
        BY <1>1, <1>3, <2>1 DEF Ceiling, Seen
    <2>3. \A j \in DOMAIN channel : channel[j] \in Message
        BY DEF TypeOK
    <2> QED
        BY <1>2, <1>3, <2>2, <2>3 DEF Ceiling
<1> QED
    BY <1>2, <1>3

\* At the start there is nothing that could be late.
LEMMA LateInit == Init => LateInv
<1> SUFFICES ASSUME Init PROVE LateInv
    OBVIOUS
<1>1. /\ win.hub.last = None /\ win.wmOut = None /\ win.hub.in[Only].wm = None
      /\ channel = <<>> /\ cut.win = win
    BY DEF Init, FreshWindow, Hub
<1>2. Held(win) /\ Held(cut.win)
    <2>1. None <= Clamp(None - Lateness)
        BY WmValues, HoldBack, WmIsInt
    <2> QED
        BY <1>1, <2>1 DEF Held
<1>3. Settled
    BY <1>1 DEF Settled, None
<1>4. CutPromised
    BY <1>1 DEF Init, CutPromised, None
<1>5. InChannel
    BY <1>1 DEF InChannel
<1>6. ASSUME NEW s \in Sources PROVE InInbox(s) /\ Promised(s) /\ Ending(s)
    <2>1. /\ inbox[s] = <<>> /\ union.hub.in[s].active /\ union.hub.in[s].wm = None
          /\ union.hub.last = None /\ union.ended = {}
          /\ feed[s].promise = None /\ src[s].last = None /\ src[s].ended = FALSE
        BY DEF Init, FreshUnion, FreshSource, Hub
    <2>2. Steady(s) /\ Ceiling(None)
        BY <1>1, <2>1 DEF Steady, Ceiling, Seen, None
    <2>3. Promised(s)
        BY <2>1, <2>2 DEF Promised, None
    <2> QED
        BY <2>1, <2>3 DEF InInbox, Ending
<1> QED
    BY <1>2, <1>3, <1>4, <1>5, <1>6 DEF LateInv

\* What the union and the window keep while they stand still.
LEMMA StandStill ==
    ASSUME UNCHANGED <<union, win, channel>>
    PROVE  /\ \A s : Steady(s)' <=> Steady(s)
           /\ \A f : Ceiling(f)' <=> Ceiling(f)
           /\ InChannel' <=> InChannel
           /\ Settled' <=> Settled
           /\ Held(win)' <=> Held(win)
BY DEF Steady, Ceiling, Seen, Calm, InChannel, Real, Settled, Held

\* Send keeps the promises.
LEMMA LateSend ==
    ASSUME TypeOK, LateInv, NEW s \in Sources, NEW rows \in Batches, Send(s, rows)
    PROVE  LateInv'
<1>1. UNCHANGED <<union, win, channel, cut>> /\ ~src[s].ended /\ ~feed[s].done
    BY DEF Send
<1>a. Sends(s)
    BY SendStep
<1>b. PICK q, m : \E next \in Wm, floor \in Wm :
         /\ Forwarded(q, next, m) /\ m.kind = "batch" /\ m.floor = floor
         /\ \A i \in DOMAIN q : q[i].kind # "idle"
         /\ floor = IF feed[s].kept THEN feed[s].promise ELSE Forever
         /\ src[s].last <= next
         /\ inbox' = [inbox EXCEPT ![s] = @ \o q]
         /\ src' = [src EXCEPT ![s].last = next, ![s].active = TRUE]
         /\ feed' = [feed EXCEPT ![s].sent = @ + 1, ![s].promise = Larger(@, next)]
    BY <1>a DEF Sends
<1>2. PICK next \in Wm, floor \in Wm :
         /\ Forwarded(q, next, m) /\ m.kind = "batch" /\ m.floor = floor
         /\ \A i \in DOMAIN q : q[i].kind # "idle"
         /\ floor = IF feed[s].kept THEN feed[s].promise ELSE Forever
         /\ src[s].last <= next
         /\ inbox' = [inbox EXCEPT ![s] = @ \o q]
         /\ src' = [src EXCEPT ![s].last = next, ![s].active = TRUE]
         /\ feed' = [feed EXCEPT ![s].sent = @ + 1, ![s].promise = Larger(@, next)]
    BY <1>b
<1>3. /\ inbox \in [Sources -> Seq(Message)] /\ feed \in FeedOf
      /\ src \in [Sources -> [last : Wm, active : BOOLEAN, ended : BOOLEAN]]
      /\ q \in Seq(Message) /\ inbox[s] \in Seq(Message)
      /\ Len(inbox[s]) \in Nat /\ Len(q) \in Nat
    BY <1>2 DEF TypeOK, Forwarded
<1>4. PICK p \in Nat : p = Len(inbox[s])
    BY <1>3
<1>5. /\ inbox'[s] = inbox[s] \o q
      /\ DOMAIN inbox'[s] = 1..p + Len(q)
      /\ \A i \in 1..p : inbox'[s][i] = inbox[s][i] /\ i \in DOMAIN inbox[s]
      /\ \A i \in p + 1..p + Len(q) : inbox'[s][i] = q[i - p] /\ i - p \in DOMAIN q
    BY <1>2, <1>3, <1>4
<1>6. /\ src'[s].last = next /\ src'[s].ended = src[s].ended
      /\ feed'[s].kept = feed[s].kept /\ feed'[s].done = feed[s].done
      /\ feed'[s].promise = Larger(feed[s].promise, next)
    BY <1>2, <1>3 DEF FeedOf
<1>7. ASSUME NEW k \in Sources, k # s
      PROVE  inbox'[k] = inbox[k] /\ src'[k] = src[k] /\ feed'[k] = feed[k]
    BY <1>2, <1>3, <1>7 DEF FeedOf
<1>8. feed[s].promise \in Wm
    BY <1>3 DEF FeedOf
<1>9. PICK top \in Wm : top = Larger(feed[s].promise, next) /\ feed[s].promise <= top /\ next <= top
    BY <1>2, <1>8, LargerWm
<1>10. InInbox(s) /\ Promised(s) /\ Ending(s)
    BY DEF LateInv
<1>11. \A j \in 1..p : inbox[s][j].kind # "eof" /\ inbox[s][j] \in Message
    BY <1>1, <1>3, <1>4, <1>10 DEF Ending
<1>12. \A i \in DOMAIN q : q[i].kind \in {"active", "watermark", "batch"}
    BY <1>2 DEF Forwarded
<1>13. InInbox(s)'
    <2> SUFFICES ASSUME NEW i \in 1..p + Len(q), Real(inbox'[s][i])
                 PROVE  /\ Steady(s) /\ union.hub.in[s].wm <= inbox'[s][i].floor
                        /\ Ceiling(inbox'[s][i].floor)
                        /\ \A j \in 1..i - 1 : /\ inbox'[s][j].kind # "idle"
                                               /\ Calm(inbox'[s][j], inbox'[s][i].floor)
        BY <1>1, <1>5, StandStill DEF InInbox, Real, Calm
    <2>1. CASE i <= p
        <3>1. i \in DOMAIN inbox[s] /\ inbox'[s][i] = inbox[s][i]
            BY <1>5, <2>1
        <3>2. \A j \in 1..i - 1 : inbox'[s][j] = inbox[s][j]
            BY <1>5, <2>1
        <3> QED
            BY <1>10, <3>1, <3>2 DEF InInbox
    <2>2. CASE i > p
        <3>1. i \in p + 1..p + Len(q)
            BY <1>3, <2>2
        <3>2. inbox'[s][i] = q[i - p] /\ i - p \in DOMAIN q
            BY <1>5, <3>1
        <3>3. q[i - p] = m /\ \A j \in 1..(i - p) - 1 : q[j].kind = "active"
            BY <1>2, <3>2 DEF Forwarded, Real
        <3>4. floor < Forever /\ floor = feed[s].promise /\ feed[s].kept
            <4>1. floor < Forever
                BY <1>2, <3>2, <3>3 DEF Real
            <4>2. ~(Forever < Forever)
                BY LastTime
            <4> QED
                BY <1>2, <4>1, <4>2
        <3>5. /\ Steady(s) /\ union.hub.in[s].wm <= floor /\ Ceiling(floor)
              /\ \A j \in 1..p : inbox[s][j].kind # "idle" /\ Calm(inbox[s][j], floor)
            <4>1. DOMAIN inbox[s] = 1..p
                BY <1>3, <1>4
            <4>2. /\ Steady(s) /\ union.hub.in[s].wm <= feed[s].promise
                  /\ Ceiling(feed[s].promise)
                  /\ \A j \in DOMAIN inbox[s] : /\ inbox[s][j].kind # "idle"
                                                /\ Calm(inbox[s][j], feed[s].promise)
                BY <1>1, <1>10, <3>4 DEF Promised
            <4> QED
                BY <3>4, <4>1, <4>2
        <3>6. ASSUME NEW j \in 1..i - 1
              PROVE  inbox'[s][j].kind # "idle" /\ Calm(inbox'[s][j], floor)
            <4>1. CASE j <= p
                <5>1. j \in 1..p
                    BY <4>1
                <5> QED
                    BY <1>5, <3>5, <5>1
            <4>2. CASE j > p
                <5>1. j \in p + 1..p + Len(q) /\ j - p \in 1..(i - p) - 1
                    BY <1>3, <1>4, <3>1, <4>2
                <5>2. inbox'[s][j].kind = "active"
                    BY <1>5, <3>3, <5>1
                <5> QED
                    BY <5>2 DEF Calm
            <4> QED
                BY <1>4, <4>1, <4>2
        <3> QED
            BY <1>2, <3>2, <3>3, <3>5, <3>6
    <2> QED
        BY <1>4, <2>1, <2>2
<1>14. Promised(s)'
    <2> SUFFICES ASSUME feed[s].kept
                 PROVE  /\ Steady(s) /\ union.hub.in[s].wm <= top
                        /\ Ceiling(top) /\ next <= top
                        /\ \A j \in 1..p + Len(q) : /\ inbox'[s][j].kind # "idle"
                                                    /\ Calm(inbox'[s][j], top)
        BY <1>1, <1>5, <1>6, <1>9, StandStill DEF Promised, Calm
    <2>1. /\ Steady(s) /\ union.hub.in[s].wm <= feed[s].promise
          /\ Ceiling(feed[s].promise)
          /\ \A j \in 1..p : inbox[s][j].kind # "idle" /\ Calm(inbox[s][j], feed[s].promise)
        BY <1>1, <1>3, <1>4, <1>10 DEF Promised
    <2>2. union.hub.in[s].wm \in Wm
        BY DEF TypeOK, HubOf
    <2>3. union.hub.in[s].wm <= top
        BY <1>8, <1>9, <2>1, <2>2, WmIsInt
    <2>4. Ceiling(top)
        BY <1>8, <1>9, <2>1, Higher
    <2>5. ASSUME NEW j \in 1..p + Len(q)
          PROVE  inbox'[s][j].kind # "idle" /\ Calm(inbox'[s][j], top)
        <3>1. CASE j <= p
            <4>1. j \in 1..p
                BY <3>1
            <4>2. Calm(inbox[s][j], top)
                BY <1>8, <1>9, <1>11, <2>1, <4>1, Higher
            <4> QED
                BY <1>5, <2>1, <4>1, <4>2
        <3>2. CASE j > p
            <4>1. j \in p + 1..p + Len(q)
                BY <1>3, <1>4, <3>2
            <4>2. inbox'[s][j] = q[j - p] /\ j - p \in DOMAIN q
                BY <1>5, <4>1
            <4>3. q[j - p].kind = "watermark" => q[j - p].wm = next
                BY <1>2, <4>2 DEF Forwarded
            <4> QED
                BY <1>2, <1>9, <1>12, <4>2, <4>3 DEF Calm
        <3> QED
            BY <1>4, <3>1, <3>2
    <2> QED
        BY <1>9, <2>1, <2>3, <2>4, <2>5
<1>15. Ending(s)'
    <2>1. s \notin union'.ended
        BY <1>1, <1>10 DEF Ending
    <2>2. \A i \in 1..p + Len(q) : inbox'[s][i].kind # "eof"
        <3> TAKE i \in 1..p + Len(q)
        <3>1. i \in 1..p \/ i \in p + 1..p + Len(q)
            BY <1>3, <1>4
        <3> QED
            BY <1>5, <1>11, <1>12, <3>1
    <2> QED
        BY <1>1, <1>5, <1>6, <2>1, <2>2 DEF Ending
<1>16. ASSUME NEW k \in Sources PROVE InInbox(k)' /\ Promised(k)' /\ Ending(k)'
    <2>1. CASE k = s
        BY <1>13, <1>14, <1>15, <2>1
    <2>2. CASE k # s
        <3>1. InInbox(k) /\ Promised(k) /\ Ending(k)
            BY DEF LateInv
        <3>2. inbox'[k] = inbox[k] /\ src'[k] = src[k] /\ feed'[k] = feed[k]
            BY <1>7, <2>2
        <3> QED
            BY <1>1, <3>1, <3>2, StandStill DEF InInbox, Promised, Ending, Real, Calm
    <2> QED
        BY <2>1, <2>2
<1> QED
    BY <1>1, <1>16, StandStill DEF LateInv, CutPromised, Held

\* So does a control message of the owner.
LEMMA LateAnnounce ==
    ASSUME TypeOK, LateInv, NEW s \in Sources, NEW k \in {"idle", "active", "eof"},
           Announce(s, k), UNCHANGED cut,
           \A r \in Sources \ {s} : src'[r] = src[r] /\ feed'[r] = feed[r],
           src'[s].last = src[s].last, feed'[s].promise = feed[s].promise,
           feed'[s].kept => feed[s].kept, ~feed'[s].done => ~feed[s].done,
           k = "idle" => ~feed'[s].kept,
           k = "eof" <=> src'[s].ended, k = "eof" => feed'[s].done
    PROVE  LateInv'
<1>1. UNCHANGED <<union, win, channel>> /\ ~src[s].ended
    BY DEF Announce
<1>2. /\ inbox \in [Sources -> Seq(Message)] /\ inbox[s] \in Seq(Message)
      /\ Len(inbox[s]) \in Nat
    BY DEF TypeOK
<1>3. inbox' = [inbox EXCEPT ![s] = Append(@, Control(k))]
    BY DEF Announce
<1>4. PICK p \in Nat : p = Len(inbox[s])
    BY <1>2
<1>5. /\ inbox'[s] = Append(inbox[s], Control(k)) /\ Len(inbox'[s]) = p + 1
      /\ DOMAIN inbox'[s] = 1..p + 1 /\ DOMAIN inbox[s] = 1..p
      /\ \A i \in 1..p : inbox'[s][i] = inbox[s][i]
      /\ inbox'[s][p + 1] = Control(k)
    BY <1>2, <1>3, <1>4
<1>6. ASSUME NEW r \in Sources, r # s PROVE inbox'[r] = inbox[r]
    BY <1>2, <1>3, <1>6
<1>7. Control(k).kind = k
    BY DEF Control
<1>10. InInbox(s) /\ Promised(s) /\ Ending(s)
    BY DEF LateInv
<1>11. \A j \in 1..p : inbox[s][j].kind # "eof"
    BY <1>1, <1>5, <1>10 DEF Ending
<1>13. InInbox(s)'
    <2> SUFFICES ASSUME NEW i \in 1..p + 1, Real(inbox'[s][i])
                 PROVE  /\ Steady(s) /\ union.hub.in[s].wm <= inbox'[s][i].floor
                        /\ Ceiling(inbox'[s][i].floor)
                        /\ \A j \in 1..i - 1 : /\ inbox'[s][j].kind # "idle"
                                               /\ Calm(inbox'[s][j], inbox'[s][i].floor)
        BY <1>1, <1>5, StandStill DEF InInbox, Real, Calm
    <2>1. i # p + 1
        BY <1>5, <1>7 DEF Real
    <2>2. i \in 1..p
        BY <1>4, <2>1
    <2>3. inbox'[s][i] = inbox[s][i] /\ \A j \in 1..i - 1 : inbox'[s][j] = inbox[s][j]
        BY <1>4, <1>5, <2>2
    <2> QED
        BY <1>5, <1>10, <2>2, <2>3 DEF InInbox
<1>14. Promised(s)'
    <2> SUFFICES ASSUME feed'[s].kept, ~feed'[s].done
                 PROVE  /\ Steady(s) /\ union.hub.in[s].wm <= feed[s].promise
                        /\ Ceiling(feed[s].promise) /\ src[s].last <= feed[s].promise
                        /\ \A j \in 1..p + 1 : /\ inbox'[s][j].kind # "idle"
                                               /\ Calm(inbox'[s][j], feed[s].promise)
        BY <1>1, <1>5, StandStill DEF Promised, Calm
    <2>1. /\ Steady(s) /\ union.hub.in[s].wm <= feed[s].promise
          /\ Ceiling(feed[s].promise) /\ src[s].last <= feed[s].promise
          /\ \A j \in 1..p : inbox[s][j].kind # "idle" /\ Calm(inbox[s][j], feed[s].promise)
        BY <1>5, <1>10 DEF Promised
    <2>2. k = "active"
        OBVIOUS
    <2>3. \A j \in 1..p + 1 : j \in 1..p \/ j = p + 1
        BY <1>4
    <2>4. Calm(Control(k), feed[s].promise)
        BY <1>7, <2>2 DEF Calm
    <2> QED
        BY <1>5, <1>7, <2>1, <2>2, <2>3, <2>4
<1>15. Ending(s)'
    <2>1. s \notin union'.ended
        BY <1>1, <1>10 DEF Ending
    <2>2. \A i \in 1..p + 1 : inbox'[s][i].kind = "eof" => i = p + 1 /\ k = "eof"
        <3>1. \A i \in 1..p + 1 : i \in 1..p \/ i = p + 1
            BY <1>4
        <3> QED
            BY <1>5, <1>7, <1>11, <3>1
    <2> QED
        BY <1>5, <2>1, <2>2 DEF Ending
<1>16. ASSUME NEW r \in Sources PROVE InInbox(r)' /\ Promised(r)' /\ Ending(r)'
    <2>1. CASE r = s
        BY <1>13, <1>14, <1>15, <2>1
    <2>2. CASE r # s
        <3>1. InInbox(r) /\ Promised(r) /\ Ending(r)
            BY DEF LateInv
        <3>2. inbox'[r] = inbox[r] /\ src'[r] = src[r] /\ feed'[r] = feed[r]
            BY <1>6, <2>2
        <3> QED
            BY <1>1, <3>1, <3>2, StandStill DEF InInbox, Promised, Ending, Real, Calm
    <2> QED
        BY <2>1, <2>2
<1> QED
    BY <1>1, <1>16, StandStill DEF LateInv, CutPromised, Held

\* The union adds nothing above f if its own watermark is not.
LEMMA CeilingUnion ==
    ASSUME TypeOK, UNCHANGED win, NEW q, NEW m, NEW x \in Wm, NEW f \in Wm,
           Forwarded(q, x, m), channel' = channel \o q, x <= f, Ceiling(f)
    PROVE  Ceiling(f)'
<1>1. channel \in Seq(Message) /\ q \in Seq(Message)
    BY DEF TypeOK, Forwarded
<1>2. \A j \in DOMAIN q : Calm(q[j], f)
    BY DEF Forwarded, Calm
<1>3. ASSUME NEW j \in DOMAIN (channel \o q) PROVE Calm((channel \o q)[j], f)
    <2>1. \/ j \in DOMAIN channel /\ (channel \o q)[j] = channel[j]
          \/ j - Len(channel) \in DOMAIN q /\ (channel \o q)[j] = q[j - Len(channel)]
        BY <1>1
    <2> QED
        BY <1>2, <2>1 DEF Ceiling
<1> QED
    BY <1>3 DEF Ceiling, Seen, Calm

\* A batch that enters the channel finds nothing above its floor there.
LEMMA InChannelUnion ==
    ASSUME TypeOK, UNCHANGED win, InChannel, NEW q \in Seq(Message), NEW m,
           \A i \in DOMAIN q : q[i].kind = "batch" =>
              q[i] = m /\ \A j \in 1..i - 1 : q[j].kind = "active",
           channel' = channel \o q,
           Real(m) => Ceiling(m.floor)
    PROVE  InChannel'
<1>1. channel \in Seq(Message) /\ q \in Seq(Message)
    BY DEF TypeOK
<1>2. PICK p \in Nat, n \in Nat : p = Len(channel) /\ n = Len(q)
    BY <1>1
<1>3. /\ DOMAIN (channel \o q) = 1..p + n /\ DOMAIN channel = 1..p
      /\ \A i \in 1..p : (channel \o q)[i] = channel[i]
      /\ \A i \in p + 1..p + n : (channel \o q)[i] = q[i - p] /\ i - p \in DOMAIN q
    BY <1>1, <1>2
<1>4. ASSUME NEW i \in 1..p + n, Real((channel \o q)[i])
      PROVE  /\ Seen((channel \o q)[i].floor)
             /\ \A j \in 1..i - 1 : Calm((channel \o q)[j], (channel \o q)[i].floor)
    <2>1. CASE i <= p
        <3>1. i \in 1..p /\ \A j \in 1..i - 1 : (channel \o q)[j] = channel[j]
            BY <1>2, <1>3, <2>1
        <3> QED
            BY <1>3, <1>4, <3>1 DEF InChannel
    <2>2. CASE i > p
        <3>1. i \in p + 1..p + n
            BY <1>2, <2>2
        <3>2. (channel \o q)[i] = q[i - p] /\ i - p \in DOMAIN q
            BY <1>3, <3>1
        <3>3. q[i - p] = m /\ \A j \in 1..(i - p) - 1 : q[j].kind = "active"
            BY <1>4, <3>2 DEF Real
        <3>4. Ceiling(m.floor)
            BY <1>4, <3>2, <3>3
        <3>5. ASSUME NEW j \in 1..i - 1 PROVE Calm((channel \o q)[j], m.floor)
            <4>1. CASE j <= p
                <5>1. j \in 1..p
                    BY <4>1
                <5> QED
                    BY <1>3, <3>4, <5>1 DEF Ceiling
            <4>2. CASE j > p
                <5>1. j \in p + 1..p + n /\ j - p \in 1..(i - p) - 1
                    BY <1>2, <3>1, <4>2
                <5>2. (channel \o q)[j].kind = "active"
                    BY <1>3, <3>3, <5>1
                <5> QED
                    BY <5>2 DEF Calm
            <4> QED
                BY <1>2, <4>1, <4>2
        <3> QED
            BY <3>2, <3>3, <3>4, <3>5 DEF Ceiling
    <2> QED
        BY <1>2, <2>1, <2>2
<1>5. \A i \in DOMAIN channel' : Real(channel'[i]) =>
          /\ Seen(channel'[i].floor)
          /\ \A j \in 1..i - 1 : Calm(channel'[j], channel'[i].floor)
    <2>1. DOMAIN channel' = 1..p + n
        BY <1>3
    <2> QED
        BY <1>4, <2>1
<1> QED
    BY <1>5 DEF InChannel, Seen, Calm, Real

\* The union keeps waiting for whom it waits.
LEMMA SteadyUnion ==
    ASSUME TypeOK, NEW s \in Sources, NEW m, UnionMoves(s, m),
           NEW r \in Sources, Steady(r), r = s => m.kind \notin {"idle", "eof"}
    PROVE  Steady(r)' /\ union'.hub.last <= union'.hub.in[r].wm
<1>1. /\ union.hub \in HubOf(Sources) /\ union'.hub \in HubOf(Sources)
      /\ Advance(union.hub, union'.hub) /\ Touches(union.hub, union'.hub, s)
    BY DEF TypeOK, UnionMoves, UnionOf
<1>2. /\ union.hub.last \in Int /\ union'.hub.last \in Int
      /\ union.hub.in[r].wm \in Int /\ union'.hub.in[r].wm \in Int
      /\ DOMAIN union.hub.in = Sources /\ DOMAIN union'.hub.in = Sources
    BY <1>1, WmIsInt DEF HubOf
<1>3. union'.hub.in[r].active /\ union.hub.in[r].wm <= union'.hub.in[r].wm
    <2>1. CASE r = s
        BY <1>1, <2>1 DEF UnionMoves, Touches, Steady
    <2>2. CASE r # s
        <3>1. union'.hub.in[r] = union.hub.in[r]
            BY <1>1, <1>2, <2>2 DEF Touches
        <3> QED
            BY <1>2, <3>1 DEF Steady
    <2> QED
        BY <2>1, <2>2
<1>4. union'.hub.last = union.hub.last \/ union'.hub.last <= union'.hub.in[r].wm
    BY <1>1, <1>2, <1>3 DEF Advance
<1>5. union.hub.last <= union.hub.in[r].wm
    BY DEF Steady
<1>6. union'.hub.last <= union'.hub.in[r].wm
    BY <1>2, <1>3, <1>4, <1>5
<1> QED
    BY <1>3, <1>6 DEF Steady

\* What the union has of r stays below f, and so does the channel.
LEMMA BelowUnion ==
    ASSUME TypeOK, UNCHANGED win, NEW s \in Sources, NEW m, UnionMoves(s, m),
           NEW q, Forwarded(q, union'.hub.last, m), channel' = channel \o q,
           NEW r \in Sources, Steady(r), NEW f \in Wm,
           union.hub.in[r].wm <= f, Ceiling(f),
           r = s => m.kind # "idle" /\ Calm(m, f)
    PROVE  Steady(r)' /\ union'.hub.in[r].wm <= f /\ Ceiling(f)'
<1>1. Steady(r)' /\ union'.hub.last <= union'.hub.in[r].wm
    BY SteadyUnion DEF Calm
<1>2. /\ union'.hub.last \in Wm /\ union'.hub.in[r].wm \in Wm
      /\ DOMAIN union.hub.in = Sources
    BY DEF UnionMoves, UnionOf, HubOf, TypeOK
<1>3. union'.hub.in[r].wm <= f
    <2>1. CASE r = s
        BY <2>1 DEF UnionMoves, Calm
    <2>2. CASE r # s
        BY <1>2, <2>2 DEF UnionMoves, Touches
    <2> QED
        BY <2>1, <2>2
<1>4. union'.hub.last <= f
    BY <1>1, <1>2, <1>3, WmIsInt
<1>5. Ceiling(f)'
    BY <1>2, <1>4, CeilingUnion
<1> QED
    BY <1>1, <1>3, <1>5

\* A step of the union keeps every promise.
LEMMA LateUnion ==
    ASSUME TypeOK, LateInv, NEW s \in Sources, Union(s)
    PROVE  LateInv'
<1> DEFINE m == Head(inbox[s])
<1>0. /\ inbox \in [Sources -> Seq(Message)] /\ inbox[s] \in Seq(Message)
      /\ inbox[s] # <<>> /\ inbox' = [inbox EXCEPT ![s] = Tail(@)]
      /\ UNCHANGED <<feed, src, win, cut>>
    BY DEF TypeOK, Union
<1>1. UnionMoves(s, m)
    BY UnionMoving
<1>2. /\ m \in Message /\ m = inbox[s][1] /\ 1 \in DOMAIN inbox[s]
    BY <1>0
<1>3. PICK p \in Nat : p + 1 = Len(inbox[s])
    <2>1. Len(inbox[s]) \in Nat /\ Len(inbox[s]) # 0
        BY <1>0
    <2>2. Len(inbox[s]) - 1 \in Nat /\ (Len(inbox[s]) - 1) + 1 = Len(inbox[s])
        BY <2>1
    <2> QED
        BY <2>2
<1>4. /\ inbox'[s] = Tail(inbox[s]) /\ Len(inbox'[s]) = p /\ DOMAIN inbox'[s] = 1..p
      /\ DOMAIN inbox[s] = 1..p + 1
      /\ \A i \in 1..p : inbox'[s][i] = inbox[s][i + 1] /\ i + 1 \in 1..p + 1
    BY <1>0, <1>3
<1>5. ASSUME NEW r \in Sources, r # s PROVE inbox'[r] = inbox[r]
    BY <1>0, <1>5
<1> HIDE DEF m
<1>6. PICK q \in Seq(Message) :
         /\ channel' = channel \o q
         /\ \/ Forwarded(q, union'.hub.last, m)
            \/ /\ m.kind = "eof" /\ union'.ended = Sources
               /\ \A i \in DOMAIN q : q[i].kind # "batch"
    BY <1>1 DEF UnionMoves
<1>7. \A r \in Sources : \A i \in DOMAIN inbox[r] :
          inbox[r][i] \in Message /\ (Real(inbox[r][i]) => inbox[r][i].floor \in Wm)
    BY <1>0, MessageParts DEF Real
<1>8. \A r \in Sources : InInbox(r) /\ Promised(r) /\ Ending(r)
    BY DEF LateInv
<1>9. m.kind = "eof" => src[s].ended /\ p = 0
    <2>1. ASSUME m.kind = "eof" PROVE src[s].ended /\ 1 = Len(inbox[s])
        BY <1>2, <1>8, <2>1 DEF Ending
    <2>2. ASSUME NEW n \in Nat, n = Len(inbox[s]) PROVE 1 = n => p = 0
        <3>1. p + 1 = n
            BY <1>3, <2>2
        <3> QED
            BY <3>1
    <2>3. Len(inbox[s]) \in Nat
        BY <1>0
    <2> QED
        BY <2>1, <2>2, <2>3
\* When the last input ends, nothing is left that could be late.
<1>10. ASSUME NEW r \in Sources, ~Forwarded(q, union'.hub.last, m)
       PROVE  DOMAIN inbox'[r] = {} /\ feed[r].done
    <2>1. r \in union.ended \/ r = s
        BY <1>1, <1>6, <1>10 DEF UnionMoves
    <2>2. CASE r = s
        <3>1. DOMAIN inbox'[s] = {}
            BY <1>4, <1>6, <1>9, <1>10
        <3> QED
            BY <1>6, <1>8, <1>9, <1>10, <2>2, <3>1 DEF Ending
    <2>3. CASE r # s
        BY <1>5, <1>8, <2>1, <2>3 DEF Ending
    <2> QED
        BY <2>2, <2>3
<1>11. InChannel'
    <2>1. \A i \in DOMAIN q : q[i].kind = "batch" =>
             q[i] = m /\ \A j \in 1..i - 1 : q[j].kind = "active"
        BY <1>6 DEF Forwarded
    <2>2. Real(m) => Ceiling(m.floor)
        BY <1>2, <1>8 DEF InInbox
    <2>3. InChannel
        BY DEF LateInv
    <2> QED
        BY <1>0, <1>6, <2>1, <2>2, <2>3, InChannelUnion
<1>12. ASSUME NEW r \in Sources, Forwarded(q, union'.hub.last, m) PROVE InInbox(r)'
    <2> SUFFICES ASSUME NEW i \in DOMAIN inbox'[r], Real(inbox'[r][i])
                 PROVE  \E f \in Wm :
                           /\ f = inbox'[r][i].floor
                           /\ Steady(r)' /\ union'.hub.in[r].wm <= f /\ Ceiling(f)'
                           /\ \A j \in 1..i - 1 : /\ inbox'[r][j].kind # "idle"
                                                  /\ Calm(inbox'[r][j], f)
        BY DEF InInbox, Real, Calm, Ceiling, Seen
    <2>1. CASE r # s
        <3>1. PICK f \in Wm : f = inbox[r][i].floor /\ inbox'[r][i] = inbox[r][i]
            BY <1>5, <1>7, <2>1
        <3>2. /\ Steady(r) /\ union.hub.in[r].wm <= f /\ Ceiling(f)
              /\ \A j \in 1..i - 1 : inbox[r][j].kind # "idle" /\ Calm(inbox[r][j], f)
            BY <1>5, <1>8, <2>1, <3>1 DEF InInbox
        <3>3. Steady(r)' /\ union'.hub.in[r].wm <= f /\ Ceiling(f)'
            BY <1>0, <1>1, <1>6, <1>12, <2>1, <3>2, BelowUnion
        <3>4. inbox'[r] = inbox[r]
            BY <1>5, <2>1
        <3>5. \A j \in 1..i - 1 : inbox'[r][j].kind # "idle" /\ Calm(inbox'[r][j], f)
            BY <3>2, <3>4
        <3> QED
            BY <3>1, <3>3, <3>5
    <2>2. CASE r = s
        <3>0. i \in 1..p /\ i + 1 \in 1..p + 1 /\ inbox'[s][i] = inbox[s][i + 1]
            BY <1>4, <2>2
        <3>1. PICK f \in Wm : f = inbox[s][i + 1].floor
            BY <1>4, <1>7, <2>2, <3>0
        <3>2. /\ Steady(s) /\ union.hub.in[s].wm <= f /\ Ceiling(f)
              /\ \A j \in 1..(i + 1) - 1 : inbox[s][j].kind # "idle" /\ Calm(inbox[s][j], f)
            BY <1>4, <1>8, <2>2, <3>0, <3>1 DEF InInbox
        <3>3. 1 \in 1..(i + 1) - 1 /\ \A j \in 1..i - 1 : j \in 1..p /\ j + 1 \in 1..(i + 1) - 1
            BY <3>0
        <3>4. m.kind # "idle" /\ Calm(m, f)
            BY <1>2, <3>2, <3>3
        <3>5. Steady(s)' /\ union'.hub.in[s].wm <= f /\ Ceiling(f)'
            BY <1>0, <1>1, <1>6, <1>12, <3>2, <3>4, BelowUnion
        <3>6. \A j \in 1..i - 1 : inbox'[s][j].kind # "idle" /\ Calm(inbox'[s][j], f)
            BY <1>4, <3>2, <3>3
        <3> QED
            BY <2>2, <3>0, <3>1, <3>5, <3>6
    <2> QED
        BY <2>1, <2>2
<1>13. ASSUME NEW r \in Sources, Forwarded(q, union'.hub.last, m) PROVE Promised(r)'
    <2>0. PICK f \in Wm : f = feed[r].promise
        BY DEF TypeOK, FeedOf
    <2> SUFFICES ASSUME feed[r].kept, ~feed[r].done
                 PROVE  /\ Steady(r)' /\ union'.hub.in[r].wm <= f
                        /\ Ceiling(f)' /\ src[r].last <= f
                        /\ \A j \in DOMAIN inbox'[r] : /\ inbox'[r][j].kind # "idle"
                                                       /\ Calm(inbox'[r][j], f)
        BY <1>0, <2>0 DEF Promised, Calm, Ceiling, Seen
    <2>1. /\ Steady(r) /\ union.hub.in[r].wm <= f /\ Ceiling(f) /\ src[r].last <= f
          /\ \A j \in DOMAIN inbox[r] : inbox[r][j].kind # "idle" /\ Calm(inbox[r][j], f)
        BY <1>8, <2>0 DEF Promised
    <2>2. r = s => m.kind # "idle" /\ Calm(m, f)
        BY <1>2, <2>1
    <2>3. Steady(r)' /\ union'.hub.in[r].wm <= f /\ Ceiling(f)'
        BY <1>0, <1>1, <1>6, <1>13, <2>1, <2>2, BelowUnion
    <2>4. \A j \in DOMAIN inbox'[r] : inbox'[r][j].kind # "idle" /\ Calm(inbox'[r][j], f)
        <3>1. CASE r = s
            BY <1>4, <2>1, <3>1
        <3>2. CASE r # s
            BY <1>5, <2>1, <3>2
        <3> QED
            BY <3>1, <3>2
    <2> QED
        BY <2>1, <2>3, <2>4
<1>14. ASSUME NEW r \in Sources PROVE Ending(r)'
    <2>1. CASE r # s
        <3>1. inbox'[r] = inbox[r] /\ src'[r] = src[r] /\ feed'[r] = feed[r]
            BY <1>0, <1>5, <2>1
        <3>2. r \in union'.ended => r \in union.ended
            BY <1>1, <2>1 DEF UnionMoves
        <3> QED
            BY <1>8, <3>1, <3>2 DEF Ending
    <2>2. CASE r = s
        <3>1. src'[s] = src[s] /\ feed'[s] = feed[s]
            BY <1>0
        <3>2. s \in union'.ended => src[s].ended /\ inbox'[s] = <<>>
            <4>1. s \notin union.ended
                BY <1>0, <1>8 DEF Ending
            <4>2. s \in union'.ended => m.kind = "eof"
                BY <1>1, <4>1 DEF UnionMoves
            <4>3. p = 0 => Tail(inbox[s]) = <<>>
                BY <1>0, <1>3
            <4> QED
                BY <1>4, <1>9, <4>2, <4>3
        <3>3. ASSUME NEW i \in 1..p, inbox'[s][i].kind = "eof" PROVE i = p /\ src[s].ended
            <4>1. inbox[s][i + 1].kind = "eof" /\ i + 1 \in DOMAIN inbox[s]
                BY <1>4, <3>3
            <4>2. i + 1 = Len(inbox[s]) /\ src[s].ended
                BY <1>8, <4>1 DEF Ending
            <4> QED
                BY <1>3, <4>2
        <3> QED
            BY <1>4, <1>8, <2>2, <3>1, <3>2, <3>3 DEF Ending
    <2> QED
        BY <2>1, <2>2
<1>15. ASSUME NEW r \in Sources, ~Forwarded(q, union'.hub.last, m)
       PROVE  InInbox(r)' /\ Promised(r)'
    BY <1>0, <1>10, <1>15 DEF InInbox, Promised
<1>16. Held(win)' /\ Held(cut.win)' /\ Settled' /\ CutPromised'
    BY <1>0 DEF LateInv, Held, Settled, CutPromised
<1> QED
    BY <1>11, <1>12, <1>13, <1>14, <1>15, <1>16 DEF LateInv

\* The window moves by one message: what bounded the channel bounds it still.
LEMMA CeilingWindow ==
    ASSUME TypeOK, channel # <<>>, channel' = Tail(channel),
           NEW w, Prepared(w, Head(channel)), win'.hub = w.hub, NEW f \in Wm, Ceiling(f)
    PROVE  Ceiling(f)'
<1>1. /\ channel \in Seq(Message) /\ 1 \in DOMAIN channel /\ Head(channel) = channel[1]
      /\ \A j \in DOMAIN Tail(channel) : /\ j + 1 \in DOMAIN channel
                                         /\ Tail(channel)[j] = channel[j + 1]
    BY DEF TypeOK
<1>2. Seen(f) /\ \A j \in DOMAIN channel : Calm(channel[j], f)
    BY DEF Ceiling
<1>3. Calm(Head(channel), f)
    BY <1>1, <1>2
<1>4. win'.hub.last <= f /\ win'.hub.in[Only].wm <= f
    BY <1>2, <1>3 DEF Prepared
<1>5. \A j \in DOMAIN channel' : Calm(channel'[j], f)
    BY <1>1, <1>2
<1> QED
    BY <1>4, <1>5 DEF Ceiling, Seen, Calm

\* The batches still in the channel are not late either.
LEMMA InChannelWindow ==
    ASSUME TypeOK, channel # <<>>, channel' = Tail(channel),
           NEW w, Prepared(w, Head(channel)), win'.hub = w.hub, InChannel
    PROVE  InChannel'
<1>1. /\ channel \in Seq(Message) /\ Head(channel) = channel[1]
      /\ Tail(channel) \in Seq(Message)
    BY DEF TypeOK
<1>2. PICK p \in Nat : p = Len(Tail(channel))
    BY <1>1
<1>3. /\ DOMAIN channel = 1..p + 1 /\ DOMAIN channel' = 1..p
      /\ \A i \in 1..p : channel'[i] = channel[i + 1] /\ i + 1 \in 1..p + 1
    BY <1>1, <1>2
<1>4. ASSUME NEW i \in 1..p, Real(channel'[i])
      PROVE  \E f \in Wm : /\ f = channel'[i].floor
                           /\ win'.hub.last <= f /\ win'.hub.in[Only].wm <= f
                           /\ \A j \in 1..i - 1 : Calm(channel'[j], f)
    <2>1. Real(channel[i + 1]) /\ i + 1 \in DOMAIN channel /\ channel'[i] = channel[i + 1]
        BY <1>3, <1>4
    <2>2. channel[i + 1] \in Message
        BY <1>1, <2>1
    <2>3. PICK f \in Wm : f = channel[i + 1].floor
        BY <2>1, <2>2, MessageParts DEF Real
    <2>4. Seen(f) /\ \A j \in 1..(i + 1) - 1 : Calm(channel[j], f)
        BY <2>1, <2>3 DEF InChannel
    <2>5. 1 \in 1..(i + 1) - 1 /\ \A j \in 1..i - 1 : j \in 1..p /\ j + 1 \in 1..(i + 1) - 1
        BY <1>2
    <2>6. Calm(Head(channel), f)
        BY <1>1, <2>4, <2>5
    <2>7. win'.hub.last <= f /\ win'.hub.in[Only].wm <= f
        BY <2>4, <2>6 DEF Prepared
    <2>8. \A j \in 1..i - 1 : Calm(channel'[j], f)
        BY <1>3, <2>4, <2>5
    <2> QED
        BY <2>1, <2>3, <2>7, <2>8
<1> QED
    BY <1>3, <1>4 DEF InChannel, Real, Seen, Calm

\* A step of the window keeps every promise.
LEMMA LateWindow ==
    ASSUME TypeOK, LateInv, Window
    PROVE  LateInv'
<1>0. /\ win \in WindowOf /\ out \in OutOf /\ win.hub.last \in Wm /\ win.wmOut \in Wm
      /\ channel # <<>> /\ channel' = Tail(channel) /\ Settled
      /\ UNCHANGED <<feed, src, inbox, union, cut>>
    BY DEF TypeOK, WindowOf, HubOf, LateInv, Window
<1>1. PICK w : Prepared(w, Head(channel)) /\ Drain(w)
    BY <1>0, WindowPrepares
<1>2. /\ w \in WindowOf /\ w.hub.last \in Wm /\ w.wmOut = win.wmOut
      /\ win.hub.last <= w.hub.last /\ Loaded(w)
    BY <1>1 DEF Prepared, Loaded, WindowOf, HubOf
<1>3. Held(w)
    <2>1. win.wmOut <= Clamp(win.hub.last - Lateness)
        BY DEF LateInv, Held
    <2>2. /\ Clamp(win.hub.last - Lateness) \in Wm /\ Clamp(w.hub.last - Lateness) \in Wm
          /\ Clamp(win.hub.last - Lateness) <= Clamp(w.hub.last - Lateness)
        BY <1>0, <1>2, HoldBack
    <2> QED
        BY <1>0, <1>2, <2>1, <2>2, WmIsInt DEF Held
<1>4. win'.hub = w.hub /\ Held(win')
    BY <1>0, <1>1, <1>2, <1>3, DrainStep
<1>5. InChannel'
    BY <1>0, <1>1, <1>4, InChannelWindow DEF LateInv
<1>6. Settled'
    BY <1>1, <1>4 DEF Prepared, Settled
<1>7. ASSUME NEW f \in Wm, Ceiling(f) PROVE Ceiling(f)'
    BY <1>0, <1>1, <1>4, <1>7, CeilingWindow
<1>8. \A s \in Sources : Steady(s)' <=> Steady(s)
    BY <1>0 DEF Steady
<1>9. ASSUME NEW s \in Sources PROVE InInbox(s)' /\ Promised(s)' /\ Ending(s)'
    <2>0. InInbox(s) /\ Promised(s) /\ Ending(s)
        BY DEF LateInv
    <2>1. ASSUME NEW i \in DOMAIN inbox[s], Real(inbox[s][i])
          PROVE  \E f \in Wm : /\ f = inbox[s][i].floor
                               /\ Steady(s)' /\ union.hub.in[s].wm <= f
                               /\ Ceiling(f)'
                               /\ \A j \in 1..i - 1 : /\ inbox[s][j].kind # "idle"
                                                      /\ Calm(inbox[s][j], f)
        <3>1. inbox[s] \in Seq(Message)
            BY DEF TypeOK
        <3>2. inbox[s][i] \in Message
            BY <3>1
        <3>3. PICK f \in Wm : f = inbox[s][i].floor
            BY <2>1, <3>2, MessageParts DEF Real
        <3>4. Ceiling(f) /\ Steady(s)
            BY <2>0, <2>1, <3>3 DEF InInbox
        <3> QED
            BY <1>7, <1>8, <2>0, <2>1, <3>3, <3>4 DEF InInbox
    <2>2. InInbox(s)'
        BY <1>0, <2>1 DEF InInbox, Real, Calm, Ceiling, Seen
    <2>3. PICK f \in Wm : f = feed[s].promise
        BY DEF TypeOK, FeedOf
    <2>4. feed[s].kept /\ ~feed[s].done =>
              /\ Steady(s)' /\ union.hub.in[s].wm <= f /\ Ceiling(f)' /\ src[s].last <= f
              /\ \A j \in DOMAIN inbox[s] : inbox[s][j].kind # "idle" /\ Calm(inbox[s][j], f)
        BY <1>7, <1>8, <2>0, <2>3 DEF Promised
    <2>5. Promised(s)'
        BY <1>0, <2>3, <2>4 DEF Promised, Calm, Ceiling, Seen
    <2>6. Ending(s)'
        BY <1>0, <2>0 DEF Ending
    <2> QED
        BY <2>2, <2>5, <2>6
<1>10. Held(cut.win)' /\ CutPromised'
    BY <1>0 DEF LateInv, Held, CutPromised
<1>11. Held(win)'
    BY <1>4 DEF Held
<1> QED
    BY <1>5, <1>6, <1>9, <1>10, <1>11 DEF LateInv

\* A checkpoint finds the window below what every source has promised.
LEMMA LateCheckpoint ==
    ASSUME TypeOK, LateInv, Checkpoint
    PROVE  LateInv'
<1>0. /\ UNCHANGED <<union, win, channel, inbox, src, feed>>
      /\ cut'.win = win /\ cut'.feed = feed
    BY DEF Checkpoint
<1>1. \A s \in Sources : feed[s].kept /\ ~feed[s].done => win.hub.last <= feed[s].promise
    BY DEF LateInv, Promised, Ceiling, Seen
<1>2. CutPromised' /\ Held(cut.win)'
    BY <1>0, <1>1 DEF CutPromised, LateInv, Held
<1>3. \A s \in Sources : InInbox(s)' /\ Promised(s)' /\ Ending(s)'
    BY <1>0, StandStill DEF LateInv, InInbox, Promised, Ending, Real, Calm
<1> QED
    BY <1>0, <1>2, <1>3, StandStill DEF LateInv

\* After a restart the window stands where its cut stood, with nothing in flight.
LEMMA LateRestart ==
    ASSUME TypeOK, LateInv, Restart
    PROVE  LateInv'
<1>0. /\ cut.win \in WindowOf /\ win' = Restored(cut.win) /\ cut' = cut
      /\ feed' = cut.feed /\ channel' = <<>> /\ union' = FreshUnion
      /\ src' = [s \in Sources |-> FreshSource] /\ inbox' = [s \in Sources |-> <<>>]
      /\ cut.feed \in FeedOf /\ cut.win.hub.last \in Wm
    BY DEF Restart, TypeOK, WindowOf, HubOf
<1>1. /\ win'.wmOut = cut.win.wmOut /\ win'.hub.last = cut.win.hub.last
      /\ win'.hub.in[Only].wm = None
    BY <1>0, RestoredTyped
<1>2. Held(win)' /\ Held(cut.win)' /\ CutPromised'
    BY <1>0, <1>1 DEF LateInv, Held, CutPromised
<1>3. Settled'
    BY <1>0, <1>1, WmIsInt DEF Settled
<1>4. InChannel'
    BY <1>0 DEF InChannel
<1>5. ASSUME NEW s \in Sources PROVE InInbox(s)' /\ Promised(s)' /\ Ending(s)'
    <2>1. /\ inbox'[s] = <<>> /\ union'.hub.in[s].active /\ union'.hub.in[s].wm = None
          /\ union'.hub.last = None /\ union'.ended = {}
          /\ src'[s].last = None /\ src'[s].ended = FALSE
        BY <1>0 DEF FreshUnion, FreshSource, Hub
    <2>2. PICK f \in Wm : f = cut.feed[s].promise
        BY <1>0 DEF FeedOf
    <2>3. None <= f /\ None <= None
        BY WmIsInt DEF None
    <2>4. Steady(s)'
        BY <2>1, <2>3 DEF Steady
    <2>5. cut.feed[s].kept /\ ~cut.feed[s].done => cut.win.hub.last <= f
        BY <2>2 DEF LateInv, CutPromised
    <2>6. cut.feed[s].kept /\ ~cut.feed[s].done => Ceiling(f)'
        BY <1>0, <1>1, <2>3, <2>5 DEF Ceiling, Seen
    <2>7. Promised(s)'
        BY <1>0, <2>1, <2>2, <2>3, <2>4, <2>6 DEF Promised, Ceiling, Seen
    <2> QED
        BY <2>1, <2>7 DEF InInbox, Ending
<1> QED
    BY <1>2, <1>3, <1>4, <1>5 DEF LateInv

\* The owner of a source announces its state.
LEMMA LateOwner ==
    ASSUME TypeOK, LateInv, NEW s \in Sources, GoIdle(s) \/ GoActive(s) \/ EndSource(s)
    PROVE  LateInv'
<1>0. /\ src \in [Sources -> [last : Wm, active : BOOLEAN, ended : BOOLEAN]]
      /\ feed \in [Sources -> [promise : Wm, kept : BOOLEAN, done : BOOLEAN, sent : Nat]]
    BY DEF TypeOK, FeedOf
<1>1. CASE GoIdle(s)
    <2>1. /\ Announce(s, "idle") /\ UNCHANGED cut /\ ~src[s].ended
          /\ feed' = [feed EXCEPT ![s].kept = FALSE]
          /\ src' = [src EXCEPT ![s].active = FALSE]
        BY <1>1 DEF GoIdle, Announce
    <2>2. /\ \A r \in Sources \ {s} : src'[r] = src[r] /\ feed'[r] = feed[r]
          /\ src'[s].last = src[s].last /\ src'[s].ended = src[s].ended
          /\ feed'[s].promise = feed[s].promise /\ feed'[s].done = feed[s].done
          /\ feed'[s].kept = FALSE
        BY <1>0, <2>1
    <2> QED
        BY <2>1, <2>2, LateAnnounce
<1>2. CASE GoActive(s)
    <2>1. /\ Announce(s, "active") /\ UNCHANGED <<cut, feed>> /\ ~src[s].ended
          /\ src' = [src EXCEPT ![s].active = TRUE]
        BY <1>2 DEF GoActive, Announce
    <2>2. /\ \A r \in Sources \ {s} : src'[r] = src[r] /\ feed'[r] = feed[r]
          /\ src'[s].last = src[s].last /\ src'[s].ended = src[s].ended
          /\ feed'[s] = feed[s]
        BY <1>0, <2>1
    <2> QED
        BY <2>1, <2>2, LateAnnounce
<1>3. CASE EndSource(s)
    <2>1. /\ Announce(s, "eof") /\ UNCHANGED cut
          /\ feed' = [feed EXCEPT ![s].done = TRUE]
          /\ src' = [src EXCEPT ![s].ended = TRUE]
        BY <1>3 DEF EndSource, Announce
    <2>2. /\ \A r \in Sources \ {s} : src'[r] = src[r] /\ feed'[r] = feed[r]
          /\ src'[s].last = src[s].last /\ src'[s].ended = TRUE
          /\ feed'[s].promise = feed[s].promise /\ feed'[s].kept = feed[s].kept
          /\ feed'[s].done = TRUE
        BY <1>0, <2>1
    <2> QED
        BY <2>1, <2>2, LateAnnounce
<1> QED
    BY <1>1, <1>2, <1>3

\* Every step keeps the promises of the sources.
LEMMA LateStep == TypeOK /\ LateInv /\ [Next]_vars => LateInv'
<1> SUFFICES ASSUME TypeOK, LateInv, [Next]_vars PROVE LateInv'
    OBVIOUS
<1>1. CASE UNCHANGED <<feed, src, inbox, union, channel, win, cut>>
    <2>1. \A s \in Sources : InInbox(s)' /\ Promised(s)' /\ Ending(s)'
        BY <1>1, StandStill DEF LateInv, InInbox, Promised, Ending, Real, Calm
    <2>2. CutPromised' /\ Held(cut.win)'
        BY <1>1 DEF LateInv, CutPromised, Held
    <2> QED
        BY <1>1, <2>1, <2>2, StandStill DEF LateInv
<1>2. ASSUME NEW s \in Sources, NEW rows \in Batches, Send(s, rows) PROVE LateInv'
    BY <1>2, LateSend
<1>3. ASSUME NEW s \in Sources, GoIdle(s) \/ GoActive(s) \/ EndSource(s) PROVE LateInv'
    BY <1>3, LateOwner
<1>4. ASSUME NEW s \in Sources, Union(s) PROVE LateInv'
    BY <1>4, LateUnion
<1>5. CASE Window
    BY <1>5, LateWindow
<1>6. CASE Checkpoint
    BY <1>6, LateCheckpoint
<1>7. CASE Restart
    BY <1>7, LateRestart
<1>8. Tick \/ UNCHANGED vars => UNCHANGED <<feed, src, inbox, union, channel, win, cut>>
    BY DEF Tick, vars
<1> QED
    BY <1>1, <1>2, <1>3, <1>4, <1>5, <1>6, <1>7, <1>8 DEF Next

\* A row of a batch whose source has been active since it started, and that is
\* no more than the lateness behind what the source had promised, is in front
\* of the output watermark: none of its windows has passed.
LEMMA InTime ==
    ASSUME TypeOK, LateInv, channel # <<>>, Head(channel).kind = "batch",
           NEW time \in Head(channel).rows, ~(time + Lateness < Head(channel).floor),
           NEW start \in Assigned(time)
    PROVE  start \in Starts /\ ~Passed(start)
<1> DEFINE m == Head(channel)
<1>0. /\ m \in Message /\ 1 \in DOMAIN channel /\ m = channel[1]
    BY DEF TypeOK
<1>1. m.rows \in Batches /\ m.floor \in Wm /\ m.kind = "batch"
    BY <1>0, MessageParts
<1>2. /\ time \in Times /\ time \in m.rows /\ ~(time + Lateness < m.floor)
    BY <1>1 DEF Times
<1> HIDE DEF m
<1>3. /\ time \in Nat /\ time <= MaxTime /\ MaxTime \in Nat /\ Lateness \in Nat
      /\ MaxTime + Lateness < Forever /\ Forever \in Nat
    BY <1>2, LastTime
<1>4. PICK f \in Wm : f = m.floor
    BY <1>1
<1>5. f \in Int /\ f <= time + Lateness /\ f < Forever
    <2>1. f \in Int /\ f <= Forever
        BY <1>4, WmIsInt
    <2>2. ~(time + Lateness < f)
        BY <1>2, <1>4
    <2> QED
        BY <1>3, <2>1, <2>2
<1>6. Real(channel[1]) /\ f = channel[1].floor
    BY <1>0, <1>1, <1>4, <1>5 DEF Real
<1>7. win.hub.last <= f
    BY <1>0, <1>6 DEF LateInv, InChannel, Seen
<1>8. win.wmOut \in Wm /\ win.hub.last \in Wm
    BY DEF TypeOK, WindowOf, HubOf
<1>9. /\ win.wmOut <= Clamp(win.hub.last - Lateness)
      /\ Clamp(win.hub.last - Lateness) <= Clamp(f - Lateness)
      /\ Clamp(win.hub.last - Lateness) \in Int /\ Clamp(f - Lateness) \in Int
    BY <1>4, <1>7, <1>8, HoldBack, WmIsInt DEF LateInv, Held
<1>10. Clamp(f - Lateness) <= time
    BY <1>3, <1>5 DEF Clamp, Larger
<1>11. start \in Starts /\ time < End(start)
    BY <1>2, AssignedWindows
<1>12. End(start) \in Int /\ win.wmOut \in Int
    BY <1>8, <1>11, StartsAreInts, WmIsInt
<1>13. ~(End(start) <= win.wmOut)
    BY <1>3, <1>9, <1>10, <1>11, <1>12
<1> QED
    BY <1>11, <1>13 DEF Passed

\* What a step of the window does with the rows of a batch.
LEMMA RowsKept ==
    ASSUME TypeOK, LateInv, Window, Head(channel).kind = "batch",
           NEW time \in Head(channel).rows, ~TooFarAhead(time),
           ~(time + Lateness < Head(channel).floor),
           NEW start \in Assigned(time)
    PROVE  start \in win'.open \/ out'.finals[start] > out.finals[start]
<1>0. channel # <<>> /\ Settled /\ out \in OutOf
    BY DEF Window, LateInv, TypeOK
<1>1. start \in Starts /\ ~Passed(start)
    BY <1>0, InTime
<1>2. PICK w : Prepared(w, Head(channel)) /\ Drain(w)
    BY <1>0, WindowPrepares
<1>3. start \in w.open /\ Loaded(w)
    BY <1>1, <1>2 DEF Prepared
<1> QED
    BY <1>0, <1>2, <1>3, DrainStep

\* Only the window and a restart shorten the channel to the window.
LEMMA ChannelShrinks ==
    ASSUME TypeOK, [Next]_vars, Len(channel) > Len(channel'), restarts' = restarts
    PROVE  Window
<1>0. channel \in Seq(Message) /\ Len(channel) \in Nat /\ restarts \in Nat
    BY EventTimeAssumption DEF TypeOK
<1>1. ~UNCHANGED channel
    BY <1>0
<1>2. ~Restart
    BY <1>0 DEF Restart
<1>3. ASSUME NEW s \in Sources, Union(s) PROVE FALSE
    <2>1. PICK q \in Seq(Message) : channel' = channel \o q
        BY <1>3, UnionMoving DEF UnionMoves
    <2>2. Len(channel') = Len(channel) + Len(q) /\ Len(q) \in Nat
        BY <1>0, <2>1
    <2> QED
        BY <1>0, <2>2
<1> QED
    BY <1>1, <1>2, <1>3
        DEF Next, vars, Tick, Send, GoIdle, GoActive, EndSource, Announce, Checkpoint

-----------------------------------------------------------------------------
(* The theorems.                                                           *)

\* Every step keeps the invariant of event time.
LEMMA EventStep == EventInv /\ [Next]_vars => EventInv'
<1>1. EventInv => TypeOK /\ Settled /\ FinalInv /\ LateInv
    BY DEF EventInv, LateInv
<1> QED
    BY <1>1, TypeStep, FinalStep, LateStep DEF EventInv

\* The state always has its shape, the window is ahead of what it told the
\* stages behind it, and nothing on the way from the sources to the window runs
\* ahead of the promises of a source that is waited for (WatermarkHub,
\* send_source, union, OutputHoldback, freeze and restore_freeze).
THEOREM EventInvariant == Spec => []EventInv
<1>1. Init => EventInv
    BY TypeInit, FinalInit, LateInit DEF EventInv
<1> QED
    BY <1>1, EventStep, PTL DEF Spec

\* Every variable keeps its declared shape: no watermark leaves its range, the
\* union and the window hold only their own inputs and windows.
THEOREM EventTypeCorrect == Spec => []TypeOK
BY EventInvariant, PTL DEF EventInv

\* No final is emitted for a window that ends by a watermark already sent, on
\* either side of a restart (emit_window, on_et_row, restore_freeze).
THEOREM FinalsPrecedeWatermarks == Spec => FinalBeforeWatermark
<1>1. EventInv /\ [Next]_vars =>
          [\A start \in Starts :
              out'.finals[start] > out.finals[start] => End(start) > out.wm]_vars
    BY FinalsAhead DEF EventInv, LateInv
<1> QED
    BY <1>1, EventInvariant, PTL DEF Spec, FinalBeforeWatermark

\* A row is kept out of a window it belongs to only if it is more than the
\* lateness behind what its own source had promised when it sent it, whatever
\* the other sources do and wherever the job restarts (WatermarkHub::effective,
\* send_source, OutputHoldback).
THEOREM PromisesAreKept == Spec => PromiseKept
<1>1. ASSUME EventInv, [Next]_vars, Len(channel) > Len(channel'), restarts' = restarts,
             Head(channel).kind = "batch", NEW time \in Head(channel).rows,
             ~TooFarAhead(time), ~(time + Lateness < Head(channel).floor),
             NEW start \in Assigned(time)
      PROVE  start \in win'.open \/ out'.finals[start] > out.finals[start]
    <2>1. TypeOK /\ LateInv
        BY <1>1 DEF EventInv
    <2>2. Window
        BY <1>1, <2>1, ChannelShrinks
    <2> QED
        BY <1>1, <2>1, <2>2, RowsKept
<1>2. EventInv /\ [Next]_vars =>
          [LET message == Head(channel)
           IN  Len(channel) > Len(channel') /\ restarts' = restarts
                   /\ message.kind = "batch" =>
               \A time \in message.rows :
                   \/ TooFarAhead(time)
                   \/ time + Lateness < message.floor
                   \/ \A start \in Assigned(time) :
                         \/ start \in win'.open
                         \/ out'.finals[start] > out.finals[start]]_vars
    BY <1>1
<1> QED
    BY <1>2, EventInvariant, PTL DEF Spec, PromiseKept
=============================================================================
