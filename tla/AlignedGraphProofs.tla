------------------------- MODULE AlignedGraphProofs -------------------------
(***************************************************************************)
(* Theorems about AlignedGraph, for any number of sources, rows, channel   *)
(* capacities, checkpoint attempts, faults and crashes.                    *)
(***************************************************************************)
EXTENDS AlignedGraph, TLAPS, WellFoundedInduction

-----------------------------------------------------------------------------
(* Positions, and the rows before and behind a barrier.                    *)

\* The rows before the positions pos.
Before(pos) == {r \in AllRows : r[2] <= pos[r[1]]}

\* The barrier of checkpoint k is in the channel q.
Has(q, k) == \E i \in DOMAIN q : q[i].barrier = k

\* It is there once.
Once(q, k) ==
    \A i, j \in DOMAIN q : q[i].barrier = k /\ q[j].barrier = k => i = j

\* A later message of q is the barrier of k.
Behind(q, j, k) == \E i \in DOMAIN q : i > j /\ q[i].barrier = k

\* In q the rows of B are those before the barrier of k.
Parted(q, k, B) ==
    \A j \in DOMAIN q : \A r \in q[j].rows : r \in B <=> Behind(q, j, k)

\* In q the rows of B that are not before the barrier of k are in F.
Covered(q, k, B, F) ==
    \A j \in DOMAIN q : \A r \in q[j].rows : r \in B => r \in F \/ Behind(q, j, k)

\* The barrier in hand has been counted and waits for room behind the union.
Sending == hand # NoHand /\ hand.from \in blocked

\* The union's hand if it holds an envelope of s that is not yet looked at.
HandOf(s) ==
    IF hand # NoHand /\ hand.from = s /\ s \notin blocked
    THEN <<hand.msg>> ELSE <<>>

\* What is on its way from s to the union's decision, oldest first.
Line(s) == (HandOf(s) \o mail[s]) \o ingress[s]

-----------------------------------------------------------------------------
(* Ids, the coordinator and the union's registers.                         *)

Older(q, n) == \A i \in DOMAIN q : q[i].barrier < n

IdsAtSource(s, n) ==
    cut[s] < n /\ injecting[s] < n /\ Older(ingress[s], n) /\ Older(mail[s], n)

IdsAtUnion(n) == hand.msg.barrier < n /\ aligning < n /\ completed < n

IdsBehind(n) == Older(toWindow, n) /\ Older(toSink, n) /\ flushing < n

IdsBelow(n) ==
    /\ \A s \in Sources : IdsAtSource(s, n)
    /\ IdsAtUnion(n) /\ IdsBehind(n) /\ committed.id < n

\* Every id in the job is of an attempt that has begun.
IdsBegun == IdsBelow(nextId)

\* The request lives exactly while the coordinator waits for it.
RequestPhase ==
    /\ phase = "aligning" <=> active # None
    /\ active # None => active = nextId - 1
    /\ phase = "idle" => replies = NoReplies /\ acks = {} /\ refused = FALSE
    /\ phase # "aligning" => toCut = {}

UnionRegisters ==
    /\ hand # NoHand => hand.from \in Sources
    /\ Sending => blocked = Sources /\ aligning = hand.msg.barrier
    /\ aligning = None => blocked = {}
    /\ aligning # None => completed < aligning

-----------------------------------------------------------------------------
(* Rows.                                                                   *)

Taken(s) ==
    /\ unsent[s] <= cursor[s]
    /\ injecting[s] # None => unsent[s] = 0
    /\ \A r \in RowsIn(Line(s)) : r[1] = s

\* Nothing is under way that was not read, and while nothing was dropped
\* nothing that was read is lost.
Accounted ==
    /\ \A r \in InFlight : r[2] <= cursor[r[1]]
    /\ marked = 0 /\ failed <= drops
    /\ failed = 0 => \A r \in AllRows :
          r[2] <= cursor[r[1]] => r \in InFlight \cup delivered

\* The positions pos and the window state h can be restarted from.
Safe(pos, h) ==
    /\ \A s \in Sources : pos[s] <= cursor[s]
    /\ h \subseteq Before(pos)
    /\ Before(pos) \subseteq delivered \cup h
    /\ InFlight \cap Before(pos) \subseteq h

-----------------------------------------------------------------------------
(* The attempt that is active.                                             *)

Injected(s) == replies[s] \in 0..Rows

\* The union has taken the barrier of the active attempt from s.
Done(s) == completed = active \/ (aligning = active /\ s \in blocked)

\* A source is asked once, and answers when the barrier is behind its rows.
Asking(s) ==
    /\ s \in toCut \/ cut[s] = active \/ injecting[s] = active =>
          replies[s] = Waiting
    /\ s \in toCut => cut[s] # active /\ injecting[s] # active
    /\ cut[s] = active => injecting[s] # active
    /\ ~Injected(s) => ~Has(Line(s), active) /\ ~Done(s)

\* The barrier is on its way to the union once, and divides the rows of s.
Dividing(s) ==
    /\ Once(Line(s), active)
    /\ Has(Line(s), active) => ~Done(s)
    /\ Injected(s) =>
          /\ Has(Line(s), active) \/ Done(s)
          /\ replies[s] <= cursor[s] - unsent[s]
          /\ Parted(Line(s), active, Before(replies))

\* Before the union is aligned the stages behind it know nothing of it.
NotAligned ==
    completed # active =>
        /\ ~Has(toWindow, active) /\ ~Has(toSink, active) /\ flushing # active
        /\ Window \notin acks /\ Sink \notin acks
        /\ \A r \in RowsIn(toWindow) : Injected(r[1]) => r \in Before(replies)

\* The barrier passes them once.
Passing ==
    /\ Once(toWindow, active) /\ Once(toSink, active)
    /\ Has(toWindow, active) =>
          /\ ~Has(toSink, active) /\ flushing # active
          /\ Window \notin acks /\ Sink \notin acks
    /\ Has(toSink, active) => flushing # active /\ Sink \notin acks
    /\ flushing = active => Sink \notin acks
    /\ completed = active => Parted(toWindow, active, Before(replies))

\* The window has seen no row from behind the barrier.
Unfrozen ==
    completed # active \/ Has(toWindow, active) =>
        \A r \in held : Injected(r[1]) => r \in Before(replies)

\* What the window froze covers the rows before the barrier that are not in
\* front of it at the sink.
Freezing ==
    Window \in acks /\ ~refused =>
        /\ frozen \subseteq Before(replies)
        /\ held \cap Before(replies) \subseteq frozen
        /\ Covered(toSink, active, Before(replies), frozen)
        /\ RowsIn(outbox) \cap Before(replies) \subseteq frozen
              \/ Has(toSink, active) \/ flushing = active
        /\ Sink \in acks => Before(replies) \subseteq delivered \cup frozen

Attempt ==
    active # None =>
        /\ \A s \in Sources : Asking(s) /\ Dividing(s)
        /\ NotAligned /\ Passing /\ Unfrozen /\ Freezing

GraphInv ==
    /\ TypeOK /\ IdsBegun /\ RequestPhase /\ UnionRegisters
    /\ \A s \in Sources : Taken(s)
    /\ Accounted
    /\ Safe(committed.pos, committed.held)
    /\ phase = "committing" => (\A s \in Sources : Injected(s)) /\ Safe(replies, frozen)
    /\ Attempt

-----------------------------------------------------------------------------
(* Constants and messages.                                                 *)

\* The constants are numbers.
LEMMA Constants ==
    /\ NumSources \in Nat \ {0} /\ Rows \in Nat /\ Batch \in Nat \ {0}
    /\ Cap \in Nat \ {0} /\ MaxId \in Nat /\ MaxFaults \in Nat
    /\ MaxDrops \in Nat /\ MaxCrashes \in Nat
BY GraphAssumption

\* Ids, and the mark for no id, are numbers.
LEMMA IdIsNat == \A k \in Ids \cup {None} : k \in Nat
BY Constants DEF Ids, None

\* Sources are numbers other than the mark for none.
LEMMA SourceIsNat == \A s \in Sources : s \in Nat /\ s # None
BY Constants DEF Sources, None

\* The mark for no id is not an id.
LEMMA NoneIsNoId == None \notin Ids
BY Constants DEF Ids, None

\* The participants are told apart.
LEMMA ParticipantNames ==
    /\ Window \notin Sources /\ Sink \notin Sources /\ Window # Sink
    /\ Window \in Participants /\ Sink \in Participants
    /\ Sources \subseteq Participants
BY Constants DEF Window, Sink, Sources, Participants

\* A row is its source and its position in the file.
LEMMA RowParts ==
    \A r \in AllRows : r[1] \in Sources /\ r[2] \in 1..Rows /\ r = <<r[1], r[2]>>
BY DEF AllRows

\* A message is a barrier without rows, or rows without a barrier.
LEMMA MessageParts ==
    /\ \A m \in Message : /\ m.barrier \in Ids \cup {None}
                          /\ m.rows \in SUBSET AllRows
                          /\ m.barrier # None => m.rows = {}
    /\ \A R \in SUBSET AllRows :
          Data(R) \in Message /\ Data(R).barrier = None /\ Data(R).rows = R
    /\ \A k \in Ids :
          Barrier(k) \in Message /\ Barrier(k).barrier = k /\ Barrier(k).rows = {}
BY DEF Message, Data, Barrier

-----------------------------------------------------------------------------
(* Channels.                                                               *)

\* The indices of a channel with a message added.
LEMMA AppendIndices ==
    ASSUME NEW q \in Seq(Message), NEW m \in Message
    PROVE  /\ Append(q, m) \in Seq(Message)
           /\ Len(Append(q, m)) = Len(q) + 1 /\ Len(q) \in Nat
           /\ \A i \in DOMAIN q : i \in Nat /\ i < Len(q) + 1
           /\ \A i \in DOMAIN Append(q, m) :
                 \/ i \in DOMAIN q /\ Append(q, m)[i] = q[i]
                 \/ i = Len(q) + 1 /\ Append(q, m)[i] = m
           /\ \A i \in DOMAIN q : i \in DOMAIN Append(q, m) /\ Append(q, m)[i] = q[i]
           /\ Len(q) + 1 \in DOMAIN Append(q, m) /\ Append(q, m)[Len(q) + 1] = m
OBVIOUS

\* The indices of a channel whose oldest message is taken.
LEMMA TailIndices ==
    ASSUME NEW q \in Seq(Message), q # <<>>
    PROVE  /\ Tail(q) \in Seq(Message) /\ Head(q) \in Message
           /\ Len(Tail(q)) + 1 = Len(q) /\ Len(Tail(q)) \in Nat
           /\ 1 \in DOMAIN q /\ Head(q) = q[1]
           /\ \A i \in DOMAIN q : i \in Nat /\ i >= 1
           /\ \A i \in DOMAIN Tail(q) :
                 i \in Nat /\ i >= 1 /\ i + 1 \in DOMAIN q /\ Tail(q)[i] = q[i + 1]
           /\ \A i \in DOMAIN q :
                 i # 1 => i - 1 \in DOMAIN Tail(q) /\ Tail(q)[i - 1] = q[i]
OBVIOUS

\* Where the barrier of k is once a message was added to a channel.
LEMMA HasAppend ==
    ASSUME NEW q \in Seq(Message), NEW m \in Message, NEW k
    PROVE  /\ Has(Append(q, m), k) <=> Has(q, k) \/ m.barrier = k
           /\ Once(q, k) /\ (m.barrier = k => ~Has(q, k)) => Once(Append(q, m), k)
           /\ \A j \in DOMAIN q :
                 Behind(Append(q, m), j, k) <=> Behind(q, j, k) \/ m.barrier = k
           /\ ~Behind(Append(q, m), Len(q) + 1, k)
<1>1. Has(Append(q, m), k) <=> Has(q, k) \/ m.barrier = k
    BY AppendIndices DEF Has
<1>2. ASSUME Once(q, k), m.barrier = k => ~Has(q, k) PROVE Once(Append(q, m), k)
    BY <1>2, AppendIndices DEF Once, Has
<1>3. ASSUME NEW j \in DOMAIN q
      PROVE  Behind(Append(q, m), j, k) <=> Behind(q, j, k) \/ m.barrier = k
    <2>1. Len(q) + 1 > j
        BY AppendIndices
    <2> QED
        BY <2>1, AppendIndices DEF Behind
<1>4. ~Behind(Append(q, m), Len(q) + 1, k)
    <2>1. \A i \in DOMAIN Append(q, m) : ~(i > Len(q) + 1)
        BY AppendIndices
    <2> QED
        BY <2>1 DEF Behind
<1> QED
    BY <1>1, <1>2, <1>3, <1>4

\* Where the barrier of k is once the oldest message was taken.
LEMMA HasTail ==
    ASSUME NEW q \in Seq(Message), q # <<>>, NEW k
    PROVE  /\ Has(q, k) <=> Has(Tail(q), k) \/ Head(q).barrier = k
           /\ Once(q, k) => Once(Tail(q), k)
           /\ Once(q, k) /\ Head(q).barrier = k => ~Has(Tail(q), k)
           /\ Behind(q, 1, k) <=> Has(Tail(q), k)
           /\ \A j \in DOMAIN Tail(q) : Behind(Tail(q), j, k) <=> Behind(q, j + 1, k)
<1>1. Has(q, k) <=> Has(Tail(q), k) \/ Head(q).barrier = k
    <2>1. ASSUME NEW i \in DOMAIN q, q[i].barrier = k
          PROVE  Has(Tail(q), k) \/ Head(q).barrier = k
        <3>1. CASE i = 1
            BY <2>1, <3>1, TailIndices
        <3>2. CASE i # 1
            <4>1. i - 1 \in DOMAIN Tail(q) /\ Tail(q)[i - 1] = q[i]
                BY <3>2, TailIndices
            <4> QED
                BY <2>1, <4>1 DEF Has
        <3> QED
            BY <3>1, <3>2
    <2>2. ASSUME NEW i \in DOMAIN Tail(q), Tail(q)[i].barrier = k PROVE Has(q, k)
        BY <2>2, TailIndices DEF Has
    <2>3. ASSUME Head(q).barrier = k PROVE Has(q, k)
        BY <2>3, TailIndices DEF Has
    <2> QED
        BY <2>1, <2>2, <2>3 DEF Has
<1>2. ASSUME Once(q, k) PROVE Once(Tail(q), k)
    <2> SUFFICES ASSUME NEW i \in DOMAIN Tail(q), NEW j \in DOMAIN Tail(q),
                        Tail(q)[i].barrier = k, Tail(q)[j].barrier = k
                 PROVE  i = j
        BY DEF Once
    <2>1. /\ i \in Nat /\ j \in Nat /\ i + 1 \in DOMAIN q /\ j + 1 \in DOMAIN q
          /\ q[i + 1].barrier = k /\ q[j + 1].barrier = k
        BY TailIndices
    <2>2. i + 1 = j + 1
        BY <1>2, <2>1 DEF Once
    <2> QED
        BY <2>1, <2>2
<1>3. ASSUME Once(q, k), Head(q).barrier = k, Has(Tail(q), k) PROVE FALSE
    <2>1. PICK i \in DOMAIN Tail(q) : Tail(q)[i].barrier = k
        BY <1>3 DEF Has
    <2>2. /\ i \in Nat /\ i >= 1 /\ i + 1 \in DOMAIN q /\ 1 \in DOMAIN q
          /\ q[i + 1].barrier = k /\ q[1].barrier = k
        BY <1>3, <2>1, TailIndices
    <2>3. i + 1 = 1
        BY <1>3, <2>2 DEF Once
    <2> QED
        BY <2>2, <2>3
<1>4. Behind(q, 1, k) <=> Has(Tail(q), k)
    <2>1. ASSUME NEW i \in DOMAIN q, i > 1, q[i].barrier = k PROVE Has(Tail(q), k)
        <3>1. i # 1
            BY <2>1, TailIndices
        <3>2. i - 1 \in DOMAIN Tail(q) /\ Tail(q)[i - 1] = q[i]
            BY <3>1, TailIndices
        <3> QED
            BY <2>1, <3>2 DEF Has
    <2>2. ASSUME NEW i \in DOMAIN Tail(q), Tail(q)[i].barrier = k PROVE Behind(q, 1, k)
        <3>1. i + 1 \in DOMAIN q /\ q[i + 1].barrier = k /\ i + 1 > 1
            BY <2>2, TailIndices
        <3> QED
            BY <3>1 DEF Behind
    <2> QED
        BY <2>1, <2>2 DEF Behind, Has
<1>5. ASSUME NEW j \in DOMAIN Tail(q)
      PROVE  Behind(Tail(q), j, k) <=> Behind(q, j + 1, k)
    <2>0. j \in Nat /\ j >= 1
        BY TailIndices
    <2>1. ASSUME NEW i \in DOMAIN Tail(q), i > j, Tail(q)[i].barrier = k
          PROVE  Behind(q, j + 1, k)
        <3>1. i + 1 \in DOMAIN q /\ q[i + 1].barrier = k /\ i \in Nat
            BY <2>1, TailIndices
        <3>2. i + 1 > j + 1
            BY <2>0, <2>1, <3>1
        <3> QED
            BY <3>1, <3>2 DEF Behind
    <2>2. ASSUME NEW i \in DOMAIN q, i > j + 1, q[i].barrier = k
          PROVE  Behind(Tail(q), j, k)
        <3>1. i \in Nat /\ i # 1
            BY <2>0, <2>2, TailIndices
        <3>2. i - 1 \in DOMAIN Tail(q) /\ Tail(q)[i - 1].barrier = k
            BY <2>2, <3>1, TailIndices
        <3>3. i - 1 > j
            BY <2>0, <2>2, <3>1
        <3> QED
            BY <3>2, <3>3 DEF Behind
    <2> QED
        BY <2>1, <2>2 DEF Behind
<1> QED
    BY <1>1, <1>2, <1>3, <1>4, <1>5

\* The rows of a channel.
LEMMA RowsInChannel ==
    ASSUME NEW q \in Seq(Message)
    PROVE  /\ \A r : r \in RowsIn(q) <=> \E i \in DOMAIN q : r \in q[i].rows
           /\ \A r \in RowsIn(q) : r \in AllRows
<1>1. \A r : r \in RowsIn(q) <=> \E i \in DOMAIN q : r \in q[i].rows
    BY DEF RowsIn
<1>2. \A i \in DOMAIN q : q[i] \in Message
    OBVIOUS
<1> QED
    BY <1>1, <1>2, MessageParts

\* A message adds its rows to a channel.
LEMMA RowsAppend ==
    ASSUME NEW q \in Seq(Message), NEW m \in Message
    PROVE  RowsIn(Append(q, m)) = RowsIn(q) \cup m.rows
<1>1. \A r : (\E i \in DOMAIN Append(q, m) : r \in Append(q, m)[i].rows)
                <=> (\E i \in DOMAIN q : r \in q[i].rows) \/ r \in m.rows
    BY AppendIndices
<1>2. Append(q, m) \in Seq(Message)
    BY AppendIndices
<1> QED
    BY <1>1, <1>2, RowsInChannel

\* Taking the oldest message takes its rows.
LEMMA RowsTail ==
    ASSUME NEW q \in Seq(Message), q # <<>>
    PROVE  RowsIn(q) = RowsIn(Tail(q)) \cup Head(q).rows
<1>1. \A r : (\E i \in DOMAIN q : r \in q[i].rows)
                <=> (\E i \in DOMAIN Tail(q) : r \in Tail(q)[i].rows) \/ r \in Head(q).rows
    <2> TAKE r
    <2>1. ASSUME NEW i \in DOMAIN q, r \in q[i].rows
          PROVE  (\E j \in DOMAIN Tail(q) : r \in Tail(q)[j].rows) \/ r \in Head(q).rows
        <3>1. CASE i = 1
            BY <2>1, <3>1, TailIndices
        <3>2. CASE i # 1
            <4>1. i - 1 \in DOMAIN Tail(q) /\ Tail(q)[i - 1] = q[i]
                BY <3>2, TailIndices
            <4> QED
                BY <2>1, <4>1
        <3> QED
            BY <3>1, <3>2
    <2>2. ASSUME NEW i \in DOMAIN Tail(q), r \in Tail(q)[i].rows
          PROVE  \E j \in DOMAIN q : r \in q[j].rows
        BY <2>2, TailIndices
    <2> QED
        BY <2>1, <2>2, TailIndices
<1>2. Tail(q) \in Seq(Message)
    BY TailIndices
<1> QED
    BY <1>1, <1>2, RowsInChannel

\* An empty channel has no rows.
LEMMA RowsNone == RowsIn(<<>>) = {}
BY DEF RowsIn

\* Rows that follow the barrier are not of B.
LEMMA PartedAppend ==
    ASSUME NEW q \in Seq(Message), NEW m \in Message, NEW k, NEW B
    PROVE  /\ Parted(q, k, B) /\ m.barrier # k /\ (\A r \in m.rows : r \notin B)
                => Parted(Append(q, m), k, B)
           /\ (\A r \in RowsIn(q) : r \in B) /\ m.barrier = k /\ m.rows = {}
                => Parted(Append(q, m), k, B)
<1>1. ASSUME Parted(q, k, B), m.barrier # k, \A r \in m.rows : r \notin B
      PROVE  Parted(Append(q, m), k, B)
    BY <1>1, AppendIndices, HasAppend DEF Parted
<1>2. ASSUME \A r \in RowsIn(q) : r \in B, m.barrier = k, m.rows = {}
      PROVE  Parted(Append(q, m), k, B)
    <2>1. \A j \in DOMAIN q : Behind(Append(q, m), j, k) /\ \A r \in q[j].rows : r \in B
        BY <1>2, HasAppend, RowsInChannel
    <2> QED
        BY <1>2, <2>1, AppendIndices DEF Parted
<1> QED
    BY <1>1, <1>2

\* Reading a divided channel: its head is before the barrier or behind it.
LEMMA PartedTail ==
    ASSUME NEW q \in Seq(Message), q # <<>>, NEW k, NEW B, Parted(q, k, B)
    PROVE  /\ Parted(Tail(q), k, B)
           /\ \A r \in Head(q).rows : r \in B <=> Has(Tail(q), k)
<1>1. ASSUME NEW j \in DOMAIN Tail(q), NEW r \in Tail(q)[j].rows
      PROVE  r \in B <=> Behind(Tail(q), j, k)
    <2>1. j + 1 \in DOMAIN q /\ r \in q[j + 1].rows
        BY TailIndices
    <2> QED
        BY <2>1, HasTail DEF Parted
<1>2. \A r \in Head(q).rows : r \in B <=> Has(Tail(q), k)
    BY TailIndices, HasTail DEF Parted
<1> QED
    BY <1>1, <1>2 DEF Parted

\* Once the barrier has passed, no row of B is left in the channel.
LEMMA PartedRows ==
    ASSUME NEW q \in Seq(Message), NEW k, NEW B, Parted(q, k, B), ~Has(q, k)
    PROVE  \A r \in RowsIn(q) : r \notin B
BY RowsInChannel DEF Parted, Has, Behind

\* A row that F covers, or the barrier itself, may follow.
LEMMA CoveredAppend ==
    ASSUME NEW q \in Seq(Message), NEW m \in Message, NEW k, NEW B, NEW F
    PROVE  /\ Covered(q, k, B, F) /\ (\A r \in m.rows : r \in B => r \in F)
                => Covered(Append(q, m), k, B, F)
           /\ m.barrier = k /\ m.rows = {} => Covered(Append(q, m), k, B, F)
<1>1. ASSUME Covered(q, k, B, F), \A r \in m.rows : r \in B => r \in F
      PROVE  Covered(Append(q, m), k, B, F)
    BY <1>1, AppendIndices, HasAppend DEF Covered
<1>2. ASSUME m.barrier = k, m.rows = {} PROVE Covered(Append(q, m), k, B, F)
    BY <1>2, AppendIndices, HasAppend DEF Covered
<1> QED
    BY <1>1, <1>2

\* Reading a covered channel: a row of B in its head is in F or before the
\* barrier.
LEMMA CoveredTail ==
    ASSUME NEW q \in Seq(Message), q # <<>>, NEW k, NEW B, NEW F, Covered(q, k, B, F)
    PROVE  /\ Covered(Tail(q), k, B, F)
           /\ \A r \in Head(q).rows : r \in B => r \in F \/ Has(Tail(q), k)
<1>1. ASSUME NEW j \in DOMAIN Tail(q), NEW r \in Tail(q)[j].rows, r \in B
      PROVE  r \in F \/ Behind(Tail(q), j, k)
    <2>1. j + 1 \in DOMAIN q /\ r \in q[j + 1].rows
        BY TailIndices
    <2> QED
        BY <1>1, <2>1, HasTail DEF Covered
<1>2. \A r \in Head(q).rows : r \in B => r \in F \/ Has(Tail(q), k)
    BY TailIndices, HasTail DEF Covered
<1> QED
    BY <1>1, <1>2 DEF Covered

\* Once the barrier has passed, F covers the rows of B in the channel.
LEMMA CoveredRows ==
    ASSUME NEW q \in Seq(Message), NEW k, NEW B, NEW F, Covered(q, k, B, F), ~Has(q, k)
    PROVE  \A r \in RowsIn(q) : r \in B => r \in F
BY RowsInChannel DEF Covered, Has, Behind

-----------------------------------------------------------------------------
(* Moving a message from one channel to the next.                          *)

\* The indices of two channels read one after the other.
LEMMA JoinIndices ==
    ASSUME NEW p \in Seq(Message), NEW q \in Seq(Message),
           NEW a \in Nat, NEW b \in Nat, a = Len(p), b = Len(q)
    PROVE  /\ p \o q \in Seq(Message) /\ Len(p \o q) = a + b
           /\ DOMAIN p = 1..a /\ DOMAIN q = 1..b /\ DOMAIN (p \o q) = 1..a + b
           /\ \A i \in 1..a : (p \o q)[i] = p[i]
           /\ \A i \in a + 1..a + b : (p \o q)[i] = q[i - a] /\ i - a \in 1..b
OBVIOUS

\* Channels with the same messages are the same.
LEMMA SameSeq ==
    ASSUME NEW p \in Seq(Message), NEW q \in Seq(Message),
           NEW n \in Nat, Len(p) = n, Len(q) = n,
           \A i \in 1..n : p[i] = q[i]
    PROVE  p = q
OBVIOUS

\* Moving the head of a channel to the end of the one in front of it leaves
\* the two together as they were.
LEMMA MoveHead ==
    ASSUME NEW p \in Seq(Message), NEW q \in Seq(Message), q # <<>>
    PROVE  Append(p, Head(q)) \o Tail(q) = p \o q
<1>1. PICK a \in Nat, b \in Nat : a = Len(p) /\ b + 1 = Len(q)
    <2>1. Len(p) \in Nat /\ Len(q) - 1 \in Nat /\ (Len(q) - 1) + 1 = Len(q)
        OBVIOUS
    <2> QED
        BY <2>1
<1>a. Head(q) \in Message /\ Tail(q) \in Seq(Message)
    OBVIOUS
<1>b. Append(p, Head(q)) \in Seq(Message)
    BY <1>a
<1>2. PICK u \in Seq(Message), v \in Seq(Message) : u = Append(p, Head(q)) /\ v = Tail(q)
    BY <1>a, <1>b, Zenon
<1>3. /\ Len(u) = a + 1 /\ Len(v) = b
      /\ \A i \in 1..a : u[i] = p[i]
      /\ u[a + 1] = q[1]
      /\ \A i \in 1..b : v[i] = q[i + 1]
    BY <1>1, <1>2
<1>4. /\ u \o v \in Seq(Message) /\ Len(u \o v) = (a + 1) + b
      /\ \A i \in 1..a + 1 : (u \o v)[i] = u[i]
      /\ \A i \in (a + 1) + 1..(a + 1) + b : (u \o v)[i] = v[i - (a + 1)]
                                             /\ i - (a + 1) \in 1..b
    <2>1. PICK x \in Nat : x = a + 1
        OBVIOUS
    <2>2. x = Len(u) /\ b = Len(v)
        BY <1>3, <2>1
    <2>3. /\ u \o v \in Seq(Message) /\ Len(u \o v) = x + b
          /\ \A i \in 1..x : (u \o v)[i] = u[i]
          /\ \A i \in x + 1..x + b : (u \o v)[i] = v[i - x] /\ i - x \in 1..b
        BY <2>2
    <2> QED
        BY <2>1, <2>3
<1>5. /\ p \o q \in Seq(Message) /\ Len(p \o q) = a + (b + 1)
      /\ \A i \in 1..a : (p \o q)[i] = p[i]
      /\ \A i \in a + 1..a + (b + 1) : (p \o q)[i] = q[i - a]
    <2>1. PICK x \in Nat : x = b + 1
        OBVIOUS
    <2>2. x = Len(q)
        BY <1>1, <2>1
    <2>3. /\ p \o q \in Seq(Message) /\ Len(p \o q) = a + x
          /\ \A i \in 1..a : (p \o q)[i] = p[i]
          /\ \A i \in a + 1..a + x : (p \o q)[i] = q[i - a] /\ i - a \in 1..x
        BY <1>1, <2>2
    <2> QED
        BY <2>1, <2>3
<1>6. ASSUME NEW i \in 1..(a + 1) + b PROVE (u \o v)[i] = (p \o q)[i]
    <2>1. CASE i \in 1..a
        <3>1. i \in 1..a + 1
            BY <2>1
        <3> QED
            BY <1>3, <1>4, <1>5, <2>1, <3>1
    <2>2. CASE i = a + 1
        <3>1. i \in 1..a + 1 /\ i \in a + 1..a + (b + 1) /\ i - a = 1
            BY <2>2
        <3>2. (u \o v)[i] = u[a + 1]
            BY <1>4, <2>2, <3>1
        <3>3. (p \o q)[i] = q[1]
            BY <1>5, <3>1
        <3> QED
            BY <1>3, <3>2, <3>3
    <2>3. CASE i \in (a + 1) + 1..(a + 1) + b
        <3>1. i \in a + 1..a + (b + 1) /\ (i - (a + 1)) + 1 = i - a
            BY <2>3
        <3>2. (p \o q)[i] = q[i - a]
            BY <1>5, <3>1
        <3>3. (u \o v)[i] = q[(i - (a + 1)) + 1]
            BY <1>3, <1>4, <2>3
        <3> QED
            BY <3>1, <3>2, <3>3
    <2>4. i \in 1..a \/ i = a + 1 \/ i \in (a + 1) + 1..(a + 1) + b
        OBVIOUS
    <2> QED
        BY <2>1, <2>2, <2>3, <2>4, Zenon
<1>7. a + (b + 1) = (a + 1) + b /\ (a + 1) + b \in Nat
    OBVIOUS
<1>8. u \o v = p \o q
    <2>1. PICK n \in Nat : n = (a + 1) + b
        OBVIOUS
    <2>2. Len(u \o v) = n /\ Len(p \o q) = n /\ \A i \in 1..n : (u \o v)[i] = (p \o q)[i]
        BY <1>4, <1>5, <1>6, <1>7, <2>1
    <2> QED
        BY <1>4, <1>5, <2>2, SameSeq, Zenon
<1> QED
    BY <1>2, <1>8

\* A message added to the second of two channels is added to both together.
LEMMA AppendRight ==
    ASSUME NEW p \in Seq(Message), NEW q \in Seq(Message), NEW m \in Message
    PROVE  p \o Append(q, m) = Append(p \o q, m)
<1>1. PICK a \in Nat, b \in Nat : a = Len(p) /\ b = Len(q)
    OBVIOUS
<1>a. Append(q, m) \in Seq(Message) /\ p \o q \in Seq(Message)
    OBVIOUS
<1>2. PICK u \in Seq(Message), v \in Seq(Message) : u = Append(q, m) /\ v = p \o q
    BY <1>a, Zenon
<1>3. /\ Len(u) = b + 1 /\ u[b + 1] = m /\ \A i \in 1..b : u[i] = q[i]
    BY <1>1, <1>2
<1>4. /\ p \o u \in Seq(Message) /\ Len(p \o u) = a + (b + 1)
      /\ \A i \in 1..a : (p \o u)[i] = p[i]
      /\ \A i \in a + 1..a + (b + 1) : (p \o u)[i] = u[i - a]
    <2>1. PICK x \in Nat : x = b + 1
        OBVIOUS
    <2>2. x = Len(u)
        BY <1>3, <2>1
    <2>3. /\ p \o u \in Seq(Message) /\ Len(p \o u) = a + x
          /\ \A i \in 1..a : (p \o u)[i] = p[i]
          /\ \A i \in a + 1..a + x : (p \o u)[i] = u[i - a] /\ i - a \in 1..x
        BY <1>1, <2>2
    <2> QED
        BY <2>1, <2>3
<1>5. /\ Len(v) = a + b /\ \A i \in 1..a : v[i] = p[i]
      /\ \A i \in a + 1..a + b : v[i] = q[i - a] /\ i - a \in 1..b
    BY <1>1, <1>2, JoinIndices
<1>6. /\ Append(v, m) \in Seq(Message) /\ Len(Append(v, m)) = (a + b) + 1
      /\ \A i \in 1..a + b : Append(v, m)[i] = v[i]
      /\ Append(v, m)[(a + b) + 1] = m
    BY <1>5
<1>7. ASSUME NEW i \in 1..(a + b) + 1 PROVE (p \o u)[i] = Append(v, m)[i]
    <2>1. CASE i \in 1..a
        <3>1. i \in 1..a + b
            BY <2>1
        <3> QED
            BY <1>4, <1>5, <1>6, <2>1, <3>1
    <2>2. CASE i \in a + 1..a + b
        <3>1. i \in 1..a + b /\ i \in a + 1..a + (b + 1)
            BY <2>2
        <3> QED
            BY <1>3, <1>4, <1>5, <1>6, <2>2, <3>1
    <2>3. CASE i = (a + b) + 1
        <3>1. i \in a + 1..a + (b + 1) /\ i - a = b + 1
            BY <2>3
        <3>2. (p \o u)[i] = u[b + 1]
            BY <1>4, <3>1
        <3> QED
            BY <1>3, <1>6, <2>3, <3>2
    <2>4. i \in 1..a \/ i \in a + 1..a + b \/ i = (a + b) + 1
        OBVIOUS
    <2> QED
        BY <2>1, <2>2, <2>3, <2>4, Zenon
<1>8. a + (b + 1) = (a + b) + 1 /\ (a + b) + 1 \in Nat
    OBVIOUS
<1>9. p \o u = Append(v, m)
    <2>1. PICK n \in Nat : n = (a + b) + 1
        OBVIOUS
    <2>2. Len(p \o u) = n /\ Len(Append(v, m)) = n /\ \A i \in 1..n : (p \o u)[i] = Append(v, m)[i]
        BY <1>4, <1>6, <1>7, <1>8, <2>1
    <2> QED
        BY <1>4, <1>6, <2>2, SameSeq, Zenon
<1> QED
    BY <1>2, <1>9

\* A message in front of a channel is the head of both together.
LEMMA AppendLeft ==
    ASSUME NEW m \in Message, NEW q \in Seq(Message)
    PROVE  /\ <<m>> \in Seq(Message) /\ <<>> \in Seq(Message)
           /\ <<>> \o q = q /\ q \o <<>> = q
           /\ <<m>> \o q \in Seq(Message) /\ <<m>> \o q # <<>>
           /\ Head(<<m>> \o q) = m /\ Tail(<<m>> \o q) = q
<1>1. PICK b \in Nat : b = Len(q)
    OBVIOUS
<1>2. /\ <<m>> \in Seq(Message) /\ <<>> \in Seq(Message) /\ Len(<<m>>) = 1
      /\ <<>> \o q = q /\ q \o <<>> = q
    OBVIOUS
<1>a. <<m>> \o q \in Seq(Message)
    BY <1>2
<1>3. PICK u \in Seq(Message) : u = <<m>> \o q
    BY <1>a, Zenon
<1>4. /\ Len(u) = 1 + b /\ u[1] = m /\ \A i \in 2..1 + b : u[i] = q[i - 1]
    BY <1>1, <1>3
<1>5. u # <<>> /\ Head(u) = m
    BY <1>4
<1>6. /\ Tail(u) \in Seq(Message) /\ Len(Tail(u)) = b
      /\ \A i \in 1..b : Tail(u)[i] = u[i + 1]
    BY <1>4, <1>5
<1>7. ASSUME NEW i \in 1..b PROVE Tail(u)[i] = q[i]
    <2>1. i + 1 \in 2..1 + b /\ (i + 1) - 1 = i
        OBVIOUS
    <2> QED
        BY <1>4, <1>6, <2>1
<1>8. Tail(u) = q
    BY <1>1, <1>6, <1>7, SameSeq
<1> QED
    BY <1>2, <1>3, <1>5, <1>8

\* Taking the first of three channels' worth of messages.
LEMMA TakeFirst ==
    ASSUME NEW m \in Message, NEW p \in Seq(Message), NEW q \in Seq(Message)
    PROVE  (<<m>> \o p) \o q = <<m>> \o ((<<>> \o p) \o q)
<1>1. PICK a \in Nat, b \in Nat : a = Len(p) /\ b = Len(q)
    OBVIOUS
<1>a. <<m>> \o p \in Seq(Message) /\ p \o q \in Seq(Message)
    BY AppendLeft
<1>2. PICK u \in Seq(Message), v \in Seq(Message) : u = <<m>> \o p /\ v = p \o q
    BY <1>a, Zenon
<1>3. /\ Len(u) = 1 + a /\ u[1] = m /\ \A i \in 2..1 + a : u[i] = p[i - 1]
    BY <1>1, <1>2
<1>4. /\ Len(v) = a + b /\ \A i \in 1..a : v[i] = p[i]
      /\ \A i \in a + 1..a + b : v[i] = q[i - a]
    BY <1>1, <1>2, JoinIndices
<1>5. /\ u \o q \in Seq(Message) /\ Len(u \o q) = (1 + a) + b
      /\ \A i \in 1..1 + a : (u \o q)[i] = u[i]
      /\ \A i \in (1 + a) + 1..(1 + a) + b : (u \o q)[i] = q[i - (1 + a)]
    <2>1. PICK x \in Nat : x = 1 + a
        OBVIOUS
    <2>2. x = Len(u)
        BY <1>3, <2>1
    <2>3. /\ u \o q \in Seq(Message) /\ Len(u \o q) = x + b
          /\ \A i \in 1..x : (u \o q)[i] = u[i]
          /\ \A i \in x + 1..x + b : (u \o q)[i] = q[i - x] /\ i - x \in 1..b
        BY <1>1, <2>2
    <2> QED
        BY <2>1, <2>3
<1>6. /\ <<m>> \o v \in Seq(Message) /\ Len(<<m>> \o v) = 1 + (a + b)
      /\ (<<m>> \o v)[1] = m
      /\ \A i \in 2..1 + (a + b) : (<<m>> \o v)[i] = v[i - 1]
    BY <1>4
<1>7. ASSUME NEW i \in 1..(1 + a) + b PROVE (u \o q)[i] = (<<m>> \o v)[i]
    <2>1. CASE i = 1
        <3>1. i \in 1..1 + a
            BY <2>1
        <3> QED
            BY <1>3, <1>5, <1>6, <2>1, <3>1
    <2>2. CASE i \in 2..1 + a
        <3>1. i \in 1..1 + a /\ i \in 2..1 + (a + b) /\ i - 1 \in 1..a
            BY <2>2
        <3> QED
            BY <1>3, <1>4, <1>5, <1>6, <2>2, <3>1
    <2>3. CASE i \in (1 + a) + 1..(1 + a) + b
        <3>1. /\ i \in 2..1 + (a + b) /\ i - 1 \in a + 1..a + b
              /\ (i - 1) - a = i - (1 + a)
            BY <2>3
        <3>2. (u \o q)[i] = q[i - (1 + a)]
            BY <1>5, <2>3
        <3>3. (<<m>> \o v)[i] = q[(i - 1) - a]
            BY <1>4, <1>6, <3>1
        <3> QED
            BY <3>1, <3>2, <3>3
    <2>4. i = 1 \/ i \in 2..1 + a \/ i \in (1 + a) + 1..(1 + a) + b
        OBVIOUS
    <2> QED
        BY <2>1, <2>2, <2>3, <2>4, Zenon
<1>8. 1 + (a + b) = (1 + a) + b /\ (1 + a) + b \in Nat
    OBVIOUS
<1>9. u \o q = <<m>> \o v
    <2>1. PICK n \in Nat : n = (1 + a) + b
        OBVIOUS
    <2>2. Len(u \o q) = n /\ Len(<<m>> \o v) = n /\ \A i \in 1..n : (u \o q)[i] = (<<m>> \o v)[i]
        BY <1>5, <1>6, <1>7, <1>8, <2>1
    <2> QED
        BY <1>5, <1>6, <2>2, SameSeq, Zenon
<1>10. (<<>> \o p) \o q = v
    BY <1>2, AppendLeft
<1> QED
    BY <1>2, <1>9, <1>10

-----------------------------------------------------------------------------
(* The line from a source to the union.                                    *)

\* An empty hand holds no barrier and no rows.
LEMMA NoHandParts == NoHand.from = None /\ NoHand.msg.barrier = None /\ NoHand.msg.rows = {}
BY DEF NoHand, Data

\* The line of a source is a channel.
LEMMA LineTyped ==
    ASSUME TypeOK, NEW s \in Sources
    PROVE  /\ HandOf(s) \in Seq(Message) /\ mail[s] \in Seq(Message)
           /\ ingress[s] \in Seq(Message) /\ HandOf(s) \o mail[s] \in Seq(Message)
           /\ Line(s) \in Seq(Message)
<1>1. mail[s] \in Seq(Message) /\ ingress[s] \in Seq(Message) /\ hand.msg \in Message
    BY DEF TypeOK
<1>2. HandOf(s) \in Seq(Message)
    BY <1>1 DEF HandOf
<1>3. HandOf(s) \o mail[s] \in Seq(Message)
    BY <1>1, <1>2
<1>4. (HandOf(s) \o mail[s]) \o ingress[s] \in Seq(Message)
    BY <1>1, <1>3
<1> QED
    BY <1>1, <1>2, <1>3, <1>4 DEF Line

\* The line changes only with the hand, the mail and the ingress.
LEMMA LineSame ==
    ASSUME UNCHANGED <<hand, blocked, mail, ingress>>
    PROVE  \A s : Line(s)' = Line(s)
BY DEF Line, HandOf

\* An empty hand, and one whose barrier is counted, is no part of a line.
LEMMA LineReleased ==
    ASSUME hand = NoHand \/ hand.from \in blocked, hand' = NoHand, UNCHANGED <<mail, ingress>>
    PROVE  \A s : Line(s)' = Line(s)
BY DEF Line, HandOf

\* What the file actor sends joins the end of its line.
LEMMA LineAppend ==
    ASSUME TypeOK, NEW s \in Sources, NEW m \in Message,
           ingress' = [ingress EXCEPT ![s] = Append(@, m)],
           UNCHANGED <<mail, hand, blocked>>
    PROVE  /\ Line(s)' = Append(Line(s), m)
           /\ \A t \in Sources : t # s => Line(t)' = Line(t)
<1>1. ingress'[s] = Append(ingress[s], m) /\ \A t \in Sources : t # s => ingress'[t] = ingress[t]
    BY DEF TypeOK
<1>2. PICK p \in Seq(Message), q \in Seq(Message) : p = HandOf(s) \o mail[s] /\ q = ingress[s]
    BY LineTyped, Zenon
<1>3. p \o Append(q, m) = Append(p \o q, m)
    BY AppendRight
<1>4. Line(s)' = p \o Append(q, m)
    BY <1>1, <1>2 DEF Line, HandOf
<1>5. Line(s) = p \o q
    BY <1>2 DEF Line
<1> QED
    BY <1>1, <1>3, <1>4, <1>5 DEF Line, HandOf

\* The source stage moves a message along the line.
LEMMA LineForward ==
    ASSUME TypeOK, NEW s \in Sources, SourceForward(s)
    PROVE  \A t \in Sources : Line(t)' = Line(t)
<1>0. /\ ingress \in [Sources -> Seq(Message)] /\ mail \in [Sources -> Seq(Message)]
      /\ ingress[s] # <<>> /\ hand' = hand /\ blocked' = blocked
      /\ ingress' = [ingress EXCEPT ![s] = Tail(@)]
      /\ mail' = [mail EXCEPT ![s] = Append(@, Head(ingress[s]))]
    BY DEF TypeOK, SourceForward, unionVars
<1>1. /\ ingress'[s] = Tail(ingress[s]) /\ mail'[s] = Append(mail[s], Head(ingress[s]))
      /\ \A t \in Sources : t # s => ingress'[t] = ingress[t] /\ mail'[t] = mail[t]
    BY <1>0
<1>2. PICK h \in Seq(Message), p \in Seq(Message), q \in Seq(Message) :
         h = HandOf(s) /\ p = mail[s] /\ q = ingress[s]
    BY LineTyped, Zenon
<1>3. q # <<>> /\ Head(q) \in Message /\ h \o p \in Seq(Message)
    <2>1. q # <<>>
        BY <1>0, <1>2
    <2> QED
        BY <2>1, TailIndices
<1>4. h \o Append(p, Head(q)) = Append(h \o p, Head(q))
    BY <1>3, AppendRight
<1>5. Append(h \o p, Head(q)) \o Tail(q) = (h \o p) \o q
    BY <1>3, MoveHead
<1>6. Line(s)' = (h \o Append(p, Head(q))) \o Tail(q)
    BY <1>0, <1>1, <1>2 DEF Line, HandOf
<1>7. Line(s) = (h \o p) \o q
    BY <1>2 DEF Line
<1>8. Line(s)' = Line(s)
    BY <1>4, <1>5, <1>6, <1>7, Zenon
<1>9. \A t \in Sources : t # s => Line(t)' = Line(t)
    BY <1>0, <1>1 DEF Line, HandOf
<1> QED
    BY <1>8, <1>9

\* So does the union when it takes an envelope.
LEMMA LineTake ==
    ASSUME TypeOK, NEW s \in Sources, UnionTake(s)
    PROVE  \A t \in Sources : Line(t)' = Line(t)
<1>0. /\ mail \in [Sources -> Seq(Message)] /\ mail[s] # <<>> /\ hand = NoHand
      /\ ingress' = ingress /\ hand' = [from |-> s, msg |-> Head(mail[s])]
      /\ mail' = [mail EXCEPT ![s] = Tail(@)] /\ s # None
      /\ s \notin blocked /\ blocked' = blocked
    BY SourceIsNat DEF TypeOK, UnionTake, Readable
<1>1. /\ mail'[s] = Tail(mail[s]) /\ \A t \in Sources : t # s => mail'[t] = mail[t]
      /\ hand'.from = s /\ hand'.msg = Head(mail[s]) /\ hand' # NoHand
    BY <1>0, NoHandParts
<1>2. PICK p \in Seq(Message), q \in Seq(Message) : p = mail[s] /\ q = ingress[s]
    BY LineTyped, Zenon
<1>3. p # <<>> /\ Head(p) \in Message /\ Tail(p) \in Seq(Message)
    <2>1. p # <<>>
        BY <1>0, <1>2
    <2> QED
        BY <2>1, TailIndices
<1>4. <<Head(p)>> \o Tail(p) = <<>> \o p
    <2>1. Append(<<>>, Head(p)) \o Tail(p) = <<>> \o p
        BY <1>3, MoveHead
    <2>2. Append(<<>>, Head(p)) = <<Head(p)>>
        BY <1>3
    <2> QED
        BY <2>1, <2>2
<1>5. Line(s)' = (<<Head(p)>> \o Tail(p)) \o q
    BY <1>0, <1>1, <1>2 DEF Line, HandOf
<1>6. Line(s) = (<<>> \o p) \o q
    BY <1>0, <1>2 DEF Line, HandOf
<1>7. Line(s)' = Line(s)
    BY <1>4, <1>5, <1>6, Zenon
<1>8. \A t \in Sources : t # s => Line(t)' = Line(t)
    BY <1>0, <1>1 DEF Line, HandOf
<1> QED
    BY <1>7, <1>8

\* The union decides about the message in its hand.
LEMMA LineConsume ==
    ASSUME TypeOK, hand # NoHand, hand.from \in Sources, hand.from \notin blocked,
           hand' = NoHand \/ (hand' = hand /\ hand.from \in blocked'),
           UNCHANGED <<mail, ingress>>
    PROVE  /\ Line(hand.from) # <<>> /\ Head(Line(hand.from)) = hand.msg
           /\ \A t \in Sources : t # hand.from => Line(t)' = Line(t)
           /\ \A s \in Sources : s = hand.from => Line(s)' = Tail(Line(s))
<1>1. PICK s \in Sources : s = hand.from
    OBVIOUS
<1>2. PICK p \in Seq(Message), q \in Seq(Message), m \in Message :
         p = mail[s] /\ q = ingress[s] /\ m = hand.msg
    <2>1. mail[s] \in Seq(Message) /\ ingress[s] \in Seq(Message) /\ hand.msg \in Message
        BY DEF TypeOK
    <2> QED
        BY <2>1, Zenon
<1>3. Line(s) = (<<m>> \o p) \o q
    BY <1>1, <1>2 DEF Line, HandOf
<1>4. Line(s)' = (<<>> \o p) \o q
    BY <1>1, <1>2 DEF Line, HandOf
<1>5. PICK z \in Seq(Message) : z = (<<>> \o p) \o q
    <2>1. <<>> \o p = p /\ p \o q \in Seq(Message)
        OBVIOUS
    <2> QED
        BY <2>1
<1>6. Line(s) = <<m>> \o z
    BY <1>3, <1>5, TakeFirst
<1>7. Line(s) # <<>> /\ Head(Line(s)) = m /\ Tail(Line(s)) = z
    BY <1>6, AppendLeft
<1>8. \A t \in Sources : t # s => Line(t)' = Line(t)
    BY <1>1 DEF Line, HandOf
<1> QED
    BY <1>1, <1>2, <1>4, <1>5, <1>7, <1>8

-----------------------------------------------------------------------------
(* Rows under way.                                                         *)

Unsent(s) == {<<s, n>> : n \in cursor[s] - unsent[s] + 1..cursor[s]}

\* Where a row under way is.
LEMMA FlightMember ==
    /\ \A r : r \in InFlight <=>
          \/ \E s \in Sources : r \in Unsent(s) \/ r \in RowsIn(ingress[s]) \/ r \in RowsIn(mail[s])
          \/ r \in hand.msg.rows \/ r \in RowsIn(toWindow) \/ r \in held
          \/ r \in RowsIn(toSink) \/ r \in RowsIn(outbox)
    /\ \A r : r \in InFlight' <=>
          \/ \E s \in Sources : \/ r \in Unsent(s)' \/ r \in RowsIn(ingress'[s])
                                \/ r \in RowsIn(mail'[s])
          \/ r \in hand'.msg.rows \/ r \in RowsIn(toWindow') \/ r \in held'
          \/ r \in RowsIn(toSink') \/ r \in RowsIn(outbox')
<1>1. InFlight =
         (UNION {Unsent(s) \cup RowsIn(ingress[s]) \cup RowsIn(mail[s]) : s \in Sources})
           \cup hand.msg.rows \cup RowsIn(toWindow) \cup held
           \cup RowsIn(toSink) \cup RowsIn(outbox)
    BY DEF InFlight, Unsent
<1>2. InFlight' =
         (UNION {Unsent(s)' \cup RowsIn(ingress'[s]) \cup RowsIn(mail'[s]) : s \in Sources})
           \cup hand'.msg.rows \cup RowsIn(toWindow') \cup held'
           \cup RowsIn(toSink') \cup RowsIn(outbox')
    BY DEF InFlight, Unsent
<1>3. \A r : r \in InFlight <=>
          \/ \E s \in Sources : r \in Unsent(s) \/ r \in RowsIn(ingress[s]) \/ r \in RowsIn(mail[s])
          \/ r \in hand.msg.rows \/ r \in RowsIn(toWindow) \/ r \in held
          \/ r \in RowsIn(toSink) \/ r \in RowsIn(outbox)
    <2> DEFINE D == UNION {Unsent(s) \cup RowsIn(ingress[s]) \cup RowsIn(mail[s]) : s \in Sources}
    <2>1. \A r : r \in D <=> \E s \in Sources :
             r \in Unsent(s) \/ r \in RowsIn(ingress[s]) \/ r \in RowsIn(mail[s])
        OBVIOUS
    <2>2. InFlight = D \cup hand.msg.rows \cup RowsIn(toWindow) \cup held
                       \cup RowsIn(toSink) \cup RowsIn(outbox)
        BY <1>1
    <2> HIDE DEF D
    <2> QED
        BY <2>1, <2>2
<1>4. \A r : r \in InFlight' <=>
          \/ \E s \in Sources : \/ r \in Unsent(s)' \/ r \in RowsIn(ingress'[s])
                                \/ r \in RowsIn(mail'[s])
          \/ r \in hand'.msg.rows \/ r \in RowsIn(toWindow') \/ r \in held'
          \/ r \in RowsIn(toSink') \/ r \in RowsIn(outbox')
    <2> DEFINE D == UNION {Unsent(s)' \cup RowsIn(ingress'[s]) \cup RowsIn(mail'[s]) : s \in Sources}
    <2>1. \A r : r \in D <=> \E s \in Sources :
             r \in Unsent(s)' \/ r \in RowsIn(ingress'[s]) \/ r \in RowsIn(mail'[s])
        OBVIOUS
    <2>2. InFlight' = D \cup hand'.msg.rows \cup RowsIn(toWindow') \cup held'
                       \cup RowsIn(toSink') \cup RowsIn(outbox')
        BY <1>2
    <2> HIDE DEF D
    <2> QED
        BY <2>1, <2>2
<1> QED
    BY <1>3, <1>4

\* The rows of joined channels.
LEMMA RowsJoin ==
    ASSUME NEW p \in Seq(Message), NEW q \in Seq(Message)
    PROVE  RowsIn(p \o q) = RowsIn(p) \cup RowsIn(q)
<1>1. PICK a \in Nat, b \in Nat : a = Len(p) /\ b = Len(q)
    OBVIOUS
<1>2. /\ p \o q \in Seq(Message)
      /\ DOMAIN p = 1..a /\ DOMAIN q = 1..b /\ DOMAIN (p \o q) = 1..a + b
      /\ \A i \in 1..a : (p \o q)[i] = p[i]
      /\ \A i \in a + 1..a + b : (p \o q)[i] = q[i - a] /\ i - a \in 1..b
    BY <1>1, JoinIndices
<1>3. ASSUME NEW r, NEW i \in 1..a + b, r \in (p \o q)[i].rows
      PROVE  r \in RowsIn(p) \/ r \in RowsIn(q)
    <2>1. i \in 1..a \/ i \in a + 1..a + b
        OBVIOUS
    <2> QED
        BY <1>2, <1>3, <2>1, RowsInChannel
<1>4. ASSUME NEW r, NEW i \in 1..a, r \in p[i].rows PROVE r \in RowsIn(p \o q)
    <2>1. i \in 1..a + b
        OBVIOUS
    <2> QED
        BY <1>2, <1>4, <2>1, RowsInChannel
<1>5. ASSUME NEW r, NEW i \in 1..b, r \in q[i].rows PROVE r \in RowsIn(p \o q)
    <2>1. i + a \in a + 1..a + b /\ (i + a) - a = i /\ i + a \in 1..a + b
        OBVIOUS
    <2> QED
        BY <1>2, <1>5, <2>1, RowsInChannel
<1> QED
    BY <1>2, <1>3, <1>4, <1>5, RowsInChannel

\* The rows on the line of a source, and those under way at the union.
LEMMA LineRows ==
    ASSUME TypeOK, NEW s \in Sources
    PROVE  RowsIn(Line(s)) = (RowsIn(HandOf(s)) \cup RowsIn(mail[s])) \cup RowsIn(ingress[s])
<1>1. PICK h \in Seq(Message), p \in Seq(Message), q \in Seq(Message), x \in Seq(Message) :
         h = HandOf(s) /\ p = mail[s] /\ q = ingress[s] /\ x = h \o p
    BY LineTyped, Zenon
<1>2. Line(s) = x \o q
    BY <1>1 DEF Line
<1>3. RowsIn(x \o q) = RowsIn(x) \cup RowsIn(q)
    BY RowsJoin
<1>4. RowsIn(x) = RowsIn(h) \cup RowsIn(p)
    BY <1>1, RowsJoin
<1> QED
    BY <1>1, <1>2, <1>3, <1>4

\* A barrier that waits for room behind the union carries no rows.
LEMMA SendingBarrier ==
    ASSUME TypeOK, UnionRegisters, Sending
    PROVE  /\ hand.msg.barrier = aligning /\ aligning # None /\ hand.msg.rows = {}
           /\ blocked = Sources
<1>1. hand.msg.barrier = aligning /\ blocked = Sources /\ aligning # None
    BY DEF UnionRegisters, Sending
<1>2. hand.msg \in Message
    BY DEF TypeOK
<1> QED
    BY <1>1, <1>2, MessageParts

\* The rows under way, with the lines taken as one channel each.
LEMMA FlightParts ==
    ASSUME TypeOK, UnionRegisters
    PROVE  \A r : r \in InFlight <=>
              \/ \E s \in Sources : r \in Unsent(s) \/ r \in RowsIn(Line(s))
              \/ r \in RowsIn(toWindow) \/ r \in held
              \/ r \in RowsIn(toSink) \/ r \in RowsIn(outbox)
<1>1. \A s \in Sources : RowsIn(Line(s)) = (RowsIn(HandOf(s)) \cup RowsIn(mail[s])) \cup RowsIn(ingress[s])
    BY LineRows
<1>2. ASSUME NEW r PROVE r \in hand.msg.rows <=> \E s \in Sources : r \in RowsIn(HandOf(s))
    <2>1. CASE hand = NoHand
        <3>1. \A s \in Sources : HandOf(s) = <<>>
            BY <2>1 DEF HandOf
        <3> QED
            BY <2>1, <3>1, RowsNone, NoHandParts
    <2>2. CASE hand # NoHand /\ hand.from \notin blocked
        <3>1. \A s \in Sources : HandOf(s) = IF s = hand.from THEN <<hand.msg>> ELSE <<>>
            BY <2>2 DEF HandOf
        <3>2. RowsIn(<<hand.msg>>) = hand.msg.rows
            BY DEF RowsIn
        <3>3. hand.from \in Sources
            BY <2>2 DEF UnionRegisters
        <3> QED
            BY <3>1, <3>2, <3>3, RowsNone
    <2>3. CASE Sending
        <3>1. \A s \in Sources : HandOf(s) = <<>>
            BY <2>3 DEF HandOf, Sending
        <3> QED
            BY <2>3, <3>1, RowsNone, SendingBarrier
    <2> QED
        BY <2>1, <2>2, <2>3 DEF Sending
<1> QED
    BY <1>1, <1>2, FlightMember

\* What a step may do to the rows under way.
FlowsIn == InFlight' \subseteq InFlight
FlowsOut == failed' = 0 => failed = 0 /\ InFlight \subseteq InFlight' \cup delivered'

\* A row that is sent was in the batch before.
LEMMA FlowSource ==
    ASSUME TypeOK, NEW s \in Sources, SendRow(s), unsent[s] <= cursor[s]
    PROVE  FlowsIn /\ FlowsOut
<1>0. /\ ingress \in [Sources -> Seq(Message)] /\ cursor[s] \in 0..Rows /\ unsent[s] \in 0..Batch
      /\ unsent \in [Sources -> 0..Batch]
      /\ UNCHANGED <<cursor, mail, hand, toWindow, held, toSink, outbox, failed, delivered>>
      /\ unsent[s] > 0 /\ unsent' = [unsent EXCEPT ![s] = @ - 1]
    BY DEF TypeOK, SendRow, unionVars, windowVars, sinkVars
<1>1. PICK c \in Nat, u \in Nat : c = cursor[s] /\ u = unsent[s] /\ u > 0 /\ u <= c /\ c <= Rows
    BY <1>0, Constants
<1>2. PICK m \in Message : /\ ingress' = [ingress EXCEPT ![s] = Append(@, m)]
                           /\ m.rows = {<<s, c - u + 1>>}
    <2>1. {<<s, c - u + 1>>} \in SUBSET AllRows
        BY <1>1, Constants DEF AllRows
    <2>2. ingress' = [ingress EXCEPT ![s] = Append(@, Data({<<s, c - u + 1>>}))]
        BY <1>1 DEF SendRow
    <2> QED
        BY <2>1, <2>2, MessageParts
<1>3. /\ ingress'[s] = Append(ingress[s], m) /\ unsent'[s] = u - 1
      /\ \A t \in Sources : t # s => ingress'[t] = ingress[t] /\ unsent'[t] = unsent[t]
    BY <1>0, <1>1, <1>2
<1>4. RowsIn(ingress'[s]) = RowsIn(ingress[s]) \cup {<<s, c - u + 1>>}
    BY <1>0, <1>2, <1>3, RowsAppend
<1>5. \A r : r \in Unsent(s) <=> r \in Unsent(s)' \/ r = <<s, c - u + 1>>
    <2>1. c - (u - 1) + 1..c \cup {c - u + 1} = c - u + 1..c
        BY <1>1
    <2>2. Unsent(s) = {<<s, n>> : n \in c - u + 1..c}
        BY <1>1 DEF Unsent
    <2>3. Unsent(s)' = {<<s, n>> : n \in c - (u - 1) + 1..c}
        BY <1>0, <1>1, <1>3 DEF Unsent
    <2> QED
        BY <2>1, <2>2, <2>3
<1>6. \A t \in Sources : t # s => Unsent(t)' = Unsent(t)
    BY <1>0, <1>3 DEF Unsent
<1>7. InFlight' = InFlight
    <2>1. ASSUME NEW r
          PROVE  (\E t \in Sources : \/ r \in Unsent(t)' \/ r \in RowsIn(ingress'[t])
                                     \/ r \in RowsIn(mail'[t]))
                   <=> (\E t \in Sources : \/ r \in Unsent(t) \/ r \in RowsIn(ingress[t])
                                           \/ r \in RowsIn(mail[t]))
        BY <1>0, <1>3, <1>4, <1>5, <1>6
    <2> QED
        BY <1>0, <2>1, FlightMember
<1> QED
    BY <1>0, <1>7 DEF FlowsIn, FlowsOut

\* A barrier carries no rows.
LEMMA FlowInject ==
    ASSUME TypeOK, NEW s \in Sources, InjectBarrier(s)
    PROVE  FlowsIn /\ FlowsOut
<1>0. /\ ingress \in [Sources -> Seq(Message)] /\ injecting[s] \in Ids
      /\ UNCHANGED <<cursor, unsent, mail, hand, toWindow, held, toSink, outbox, failed, delivered>>
      /\ ingress' = [ingress EXCEPT ![s] = Append(@, Barrier(injecting[s]))]
    BY DEF TypeOK, InjectBarrier, unionVars, windowVars, sinkVars
<1>1. PICK m \in Message : m = Barrier(injecting[s]) /\ m.rows = {}
    BY <1>0, MessageParts
<1>2. /\ ingress'[s] = Append(ingress[s], m)
      /\ \A t \in Sources : t # s => ingress'[t] = ingress[t]
    BY <1>0, <1>1
<1>3. RowsIn(ingress'[s]) = RowsIn(ingress[s])
    <2>1. ingress[s] \in Seq(Message)
        BY <1>0
    <2>2. RowsIn(Append(ingress[s], m)) = RowsIn(ingress[s]) \cup m.rows
        BY <2>1, RowsAppend
    <2> QED
        BY <1>1, <1>2, <2>2
<1>4. \A t \in Sources : RowsIn(ingress'[t]) = RowsIn(ingress[t]) /\ Unsent(t)' = Unsent(t)
    BY <1>0, <1>2, <1>3 DEF Unsent
<1>5. InFlight' = InFlight
    BY <1>0, <1>4, FlightMember
<1> QED
    BY <1>0, <1>5 DEF FlowsIn, FlowsOut

\* The source stage keeps the rows under way.
LEMMA FlowForward ==
    ASSUME TypeOK, NEW s \in Sources, SourceForward(s)
    PROVE  FlowsIn /\ FlowsOut
<1>0. /\ ingress \in [Sources -> Seq(Message)] /\ mail \in [Sources -> Seq(Message)]
      /\ ingress[s] # <<>>
      /\ UNCHANGED <<cursor, unsent, hand, toWindow, held, toSink, outbox, failed, delivered>>
      /\ ingress' = [ingress EXCEPT ![s] = Tail(@)]
      /\ mail' = [mail EXCEPT ![s] = Append(@, Head(ingress[s]))]
    BY DEF TypeOK, SourceForward, unionVars, windowVars, sinkVars
<1>1. /\ ingress'[s] = Tail(ingress[s]) /\ mail'[s] = Append(mail[s], Head(ingress[s]))
      /\ \A t \in Sources : t # s => ingress'[t] = ingress[t] /\ mail'[t] = mail[t]
    BY <1>0
<1>2. /\ RowsIn(ingress[s]) = RowsIn(ingress'[s]) \cup Head(ingress[s]).rows
      /\ Head(ingress[s]) \in Message
    BY <1>0, <1>1, RowsTail, TailIndices
<1>3. RowsIn(mail'[s]) = RowsIn(mail[s]) \cup Head(ingress[s]).rows
    BY <1>0, <1>1, <1>2, RowsAppend
<1>4. \A t \in Sources : Unsent(t)' = Unsent(t)
    BY <1>0 DEF Unsent
<1>5. ASSUME NEW r
      PROVE  (\E t \in Sources : \/ r \in Unsent(t)' \/ r \in RowsIn(ingress'[t])
                                 \/ r \in RowsIn(mail'[t]))
               <=> (\E t \in Sources : \/ r \in Unsent(t) \/ r \in RowsIn(ingress[t])
                                       \/ r \in RowsIn(mail[t]))
    BY <1>1, <1>2, <1>3, <1>4
<1>6. InFlight' = InFlight
    BY <1>0, <1>5, FlightMember
<1> QED
    BY <1>0, <1>6 DEF FlowsIn, FlowsOut

\* The union keeps them when it takes an envelope.
LEMMA FlowTake ==
    ASSUME TypeOK, NEW s \in Sources, UnionTake(s)
    PROVE  FlowsIn /\ FlowsOut
<1>0. /\ mail \in [Sources -> Seq(Message)] /\ mail[s] # <<>> /\ hand = NoHand
      /\ UNCHANGED <<cursor, unsent, ingress, toWindow, held, toSink, outbox, failed, delivered>>
      /\ hand' = [from |-> s, msg |-> Head(mail[s])]
      /\ mail' = [mail EXCEPT ![s] = Tail(@)]
    BY DEF TypeOK, UnionTake, Readable, windowVars, sinkVars
<1>1. /\ mail'[s] = Tail(mail[s]) /\ \A t \in Sources : t # s => mail'[t] = mail[t]
      /\ hand'.msg.rows = Head(mail[s]).rows /\ hand.msg.rows = {}
    BY <1>0, NoHandParts
<1>2. RowsIn(mail[s]) = RowsIn(mail'[s]) \cup Head(mail[s]).rows
    BY <1>0, <1>1, RowsTail
<1>4. \A t \in Sources : Unsent(t)' = Unsent(t)
    BY <1>0 DEF Unsent
<1>5. ASSUME NEW r
      PROVE  (\E t \in Sources : \/ r \in Unsent(t)' \/ r \in RowsIn(ingress'[t])
                                 \/ r \in RowsIn(mail'[t])) \/ r \in hand'.msg.rows
               <=> (\E t \in Sources : \/ r \in Unsent(t) \/ r \in RowsIn(ingress[t])
                                       \/ r \in RowsIn(mail[t])) \/ r \in hand.msg.rows
    BY <1>0, <1>1, <1>2, <1>4
<1>6. InFlight' = InFlight
    BY <1>0, <1>5, FlightMember
<1> QED
    BY <1>0, <1>6 DEF FlowsIn, FlowsOut

\* The stages behind the union.  The sources' part stands still.
SourcesStand == UNCHANGED <<cursor, unsent, ingress, mail>>

\* Rows at the sources stay while the sources stand still.
LEMMA SourcesRows ==
    ASSUME SourcesStand
    PROVE  \A r : (\E t \in Sources : \/ r \in Unsent(t)' \/ r \in RowsIn(ingress'[t])
                                      \/ r \in RowsIn(mail'[t]))
               <=> (\E t \in Sources : \/ r \in Unsent(t) \/ r \in RowsIn(ingress[t])
                                       \/ r \in RowsIn(mail[t]))
<1>1. \A t \in Sources : Unsent(t)' = Unsent(t)
    BY DEF SourcesStand, Unsent
<1> QED
    BY <1>1 DEF SourcesStand

\* The union forwards rows and drops only barriers.
LEMMA FlowUnion ==
    ASSUME TypeOK, UnionForward \/ UnionSkip \/ UnionBlock \/ UnionAlign
    PROVE  FlowsIn /\ FlowsOut
<1>0. /\ toWindow \in Seq(Message) /\ hand.msg \in Message
      /\ hand.msg.rows = {} \/ hand.msg.barrier = None
    BY MessageParts DEF TypeOK
<1>1. /\ SourcesStand /\ UNCHANGED <<held, toSink, outbox, failed, delivered>>
      /\ \/ toWindow' = Append(toWindow, hand.msg) /\ hand' = NoHand
         \/ toWindow' = toWindow /\ hand.msg.barrier # None /\ hand' \in {hand, NoHand}
    BY DEF UnionForward, UnionSkip, UnionBlock, UnionAlign, Arrived, sourceVars, windowVars,
           sinkVars, SourcesStand
<1>2. RowsIn(toWindow') = RowsIn(toWindow) \cup hand.msg.rows /\ hand'.msg.rows = {}
    BY <1>0, <1>1, RowsAppend, NoHandParts
<1>3. InFlight' = InFlight
    BY <1>1, <1>2, SourcesRows, FlightMember
<1> QED
    BY <1>1, <1>3 DEF FlowsIn, FlowsOut

\* The window absorbs, emits and freezes without losing a row.
LEMMA FlowWindow ==
    ASSUME TypeOK, WindowSteps
    PROVE  FlowsIn /\ FlowsOut
<1>0. /\ toWindow \in Seq(Message) /\ toSink \in Seq(Message) /\ held \in SUBSET AllRows
    BY DEF TypeOK
<1>1. SourcesStand /\ UNCHANGED <<hand, outbox, failed, delivered>>
    BY DEF WindowSteps, WindowAbsorb, WindowEmit, WindowBarrier, sourceVars, unionVars, sinkVars,
           SourcesStand
<1>2. CASE WindowAbsorb
    <2>1. /\ toWindow # <<>> /\ toWindow' = Tail(toWindow) /\ toSink' = toSink
          /\ held' = held \cup Head(toWindow).rows
        BY <1>2 DEF WindowAbsorb, sinkVars
    <2>2. RowsIn(toWindow) = RowsIn(toWindow') \cup Head(toWindow).rows
        BY <1>0, <2>1, RowsTail
    <2>3. InFlight' = InFlight
        BY <1>1, <2>1, <2>2, SourcesRows, FlightMember
    <2> QED
        BY <1>1, <2>3 DEF FlowsIn, FlowsOut
<1>3. CASE WindowEmit
    <2>1. toWindow' = toWindow /\ held' = {} /\ toSink' = Append(toSink, Data(held))
        BY <1>3 DEF WindowEmit
    <2>2. RowsIn(toSink') = RowsIn(toSink) \cup held
        BY <1>0, <2>1, MessageParts, RowsAppend
    <2>3. InFlight' = InFlight
        BY <1>1, <2>1, <2>2, SourcesRows, FlightMember
    <2> QED
        BY <1>1, <2>3 DEF FlowsIn, FlowsOut
<1>4. CASE WindowBarrier
    <2>1. /\ toWindow # <<>> /\ toWindow' = Tail(toWindow) /\ held' = held
          /\ toSink' = Append(toSink, Head(toWindow))
        BY <1>4 DEF WindowBarrier
    <2>2. RowsIn(toWindow) = RowsIn(toWindow') \cup Head(toWindow).rows
        BY <1>0, <2>1, RowsTail
    <2>3. RowsIn(toSink') = RowsIn(toSink) \cup Head(toWindow).rows
        BY <1>0, <2>1, TailIndices, RowsAppend
    <2>4. InFlight' = InFlight
        BY <1>1, <2>1, <2>2, <2>3, SourcesRows, FlightMember
    <2> QED
        BY <1>1, <2>4 DEF FlowsIn, FlowsOut
<1> QED
    BY <1>2, <1>3, <1>4 DEF WindowSteps

\* The sink stage passes results on to the connector.
LEMMA FlowSink ==
    ASSUME TypeOK, SinkSend \/ SinkBarrier
    PROVE  FlowsIn /\ FlowsOut
<1>0. /\ toSink \in Seq(Message) /\ outbox \in Seq(Message)
      /\ SourcesStand /\ UNCHANGED <<hand, toWindow, held, failed, delivered>>
      /\ toSink # <<>> /\ toSink' = Tail(toSink)
    BY DEF TypeOK, SinkSend, SinkBarrier, sourceVars, unionVars, windowVars, SourcesStand
<1>1. /\ Head(toSink) \in Message
      /\ RowsIn(toSink) = RowsIn(toSink') \cup Head(toSink).rows
    BY <1>0, TailIndices, RowsTail
<1>2. \/ outbox' = Append(outbox, Head(toSink))
      \/ outbox' = outbox /\ Head(toSink).rows = {}
    BY <1>1, MessageParts DEF SinkSend, SinkBarrier
<1>3. RowsIn(outbox') = RowsIn(outbox) \cup Head(toSink).rows
    BY <1>0, <1>1, <1>2, RowsAppend
<1>4. InFlight' = InFlight
    BY <1>0, <1>1, <1>3, SourcesRows, FlightMember
<1> QED
    BY <1>0, <1>4 DEF FlowsIn, FlowsOut

\* A result leaves the job delivered, or is counted as failed.
LEMMA FlowOut ==
    ASSUME TypeOK, Deliver \/ DropResult
    PROVE  FlowsIn /\ FlowsOut
<1>0. /\ outbox \in Seq(Message) /\ failed \in Nat
      /\ SourcesStand /\ UNCHANGED <<hand, toWindow, held, toSink>>
      /\ outbox # <<>> /\ outbox' = Tail(outbox)
    <2>1. outbox \in Seq(Message) /\ failed \in Nat
        BY Constants DEF TypeOK
    <2>2. SourcesStand /\ UNCHANGED <<hand, toWindow, held, toSink>>
        BY DEF Deliver, DropResult, sourceVars, unionVars, windowVars, SourcesStand
    <2>3. outbox # <<>> /\ outbox' = Tail(outbox)
        BY DEF Deliver, DropResult
    <2> QED
        BY <2>1, <2>2, <2>3
<1>1. RowsIn(outbox) = RowsIn(outbox') \cup Head(outbox).rows
    BY <1>0, RowsTail
<1>2. FlowsIn
    BY <1>0, <1>1, SourcesRows, FlightMember DEF FlowsIn
<1>3. \/ failed' = failed /\ delivered' = delivered \cup Head(outbox).rows
      \/ failed' = failed + 1
    BY DEF Deliver, DropResult
<1>4. failed' = 0 => failed' = failed /\ delivered' = delivered \cup Head(outbox).rows
    BY <1>0, <1>3
<1>5. delivered' = delivered \cup Head(outbox).rows => InFlight \subseteq InFlight' \cup delivered'
    BY <1>0, <1>1, SourcesRows, FlightMember
<1> QED
    BY <1>2, <1>4, <1>5 DEF FlowsOut

\* The other steps move no row.
LEMMA FlowSame ==
    ASSUME SourcesStand,
           UNCHANGED <<hand, toWindow, held, toSink, outbox, failed, delivered>>
    PROVE  FlowsIn /\ FlowsOut
<1>1. InFlight' = InFlight
    BY SourcesRows, FlightMember
<1> QED
    BY <1>1 DEF FlowsIn, FlowsOut

-----------------------------------------------------------------------------
(* Types.                                                                  *)

TypeSource ==
    /\ cursor \in [Sources -> 0..Rows]
    /\ unsent \in [Sources -> 0..Batch]
    /\ cut \in [Sources -> Ids \cup {None}]
    /\ injecting \in [Sources -> Ids \cup {None}]
    /\ ingress \in [Sources -> Seq(Message)] /\ mail \in [Sources -> Seq(Message)]
    /\ \A s \in Sources : Len(ingress[s]) <= Cap /\ Len(mail[s]) <= Cap

TypeUnion ==
    /\ blocked \in SUBSET Sources
    /\ aligning \in Ids \cup {None}
    /\ checked \in BOOLEAN
    /\ completed \in Ids \cup {None}
    /\ hand \in [from : Sources \cup {None}, msg : Message]

TypeWindow ==
    /\ toWindow \in Seq(Message) /\ Len(toWindow) <= Cap
    /\ held \in SUBSET AllRows

TypeSink ==
    /\ toSink \in Seq(Message) /\ Len(toSink) <= Cap
    /\ flushing \in Ids \cup {None}
    /\ outbox \in Seq(Message) /\ Len(outbox) <= Cap
    /\ failed \in 0..MaxDrops /\ marked \in 0..MaxDrops

TypeInbox ==
    acks \in SUBSET Participants /\ refused \in BOOLEAN /\ frozen \in SUBSET AllRows

TypeCoord ==
    /\ active \in Ids \cup {None}
    /\ toCut \in SUBSET Sources
    /\ replies \in [Sources -> 0..Rows \cup {Waiting, Lost}]
    /\ phase \in {"idle", "aligning", "committing"}
    /\ nextId \in 1..MaxId + 1

TypeRest ==
    /\ committed \in [id : Ids \cup {None}, pos : [Sources -> 0..Rows],
                      held : SUBSET AllRows]
    /\ delivered \in SUBSET AllRows

TypeBounds ==
    faults \in 0..MaxFaults /\ drops \in 0..MaxDrops /\ crashes \in 0..MaxCrashes

\* The type invariant by component.
LEMMA TypeParts ==
    /\ TypeOK <=> /\ TypeSource /\ TypeUnion /\ TypeWindow /\ TypeSink
                  /\ TypeInbox /\ TypeCoord /\ TypeRest /\ TypeBounds
    /\ TypeOK' <=> /\ TypeSource' /\ TypeUnion' /\ TypeWindow' /\ TypeSink'
                   /\ TypeInbox' /\ TypeCoord' /\ TypeRest' /\ TypeBounds'
BY DEF TypeOK, TypeSource, TypeUnion, TypeWindow, TypeSink, TypeInbox, TypeCoord, TypeRest,
       TypeBounds

\* What stands still keeps its type.
LEMMA TypeStands ==
    /\ UNCHANGED sourceVars => (TypeSource' <=> TypeSource)
    /\ UNCHANGED unionVars => (TypeUnion' <=> TypeUnion)
    /\ UNCHANGED windowVars => (TypeWindow' <=> TypeWindow)
    /\ UNCHANGED sinkVars => (TypeSink' <=> TypeSink)
    /\ UNCHANGED inboxVars => (TypeInbox' <=> TypeInbox)
    /\ UNCHANGED coordVars => (TypeCoord' <=> TypeCoord)
    /\ UNCHANGED <<committed, delivered>> => (TypeRest' <=> TypeRest)
    /\ UNCHANGED boundVars => (TypeBounds' <=> TypeBounds)
<1>1. UNCHANGED sourceVars => (TypeSource' <=> TypeSource)
    BY DEF sourceVars, TypeSource
<1>2. UNCHANGED unionVars => (TypeUnion' <=> TypeUnion)
    BY DEF unionVars, TypeUnion
<1>3. UNCHANGED windowVars => (TypeWindow' <=> TypeWindow)
    BY DEF windowVars, TypeWindow
<1>4. UNCHANGED sinkVars => (TypeSink' <=> TypeSink)
    BY DEF sinkVars, TypeSink
<1>5. UNCHANGED inboxVars => (TypeInbox' <=> TypeInbox)
    BY DEF inboxVars, TypeInbox
<1>6. UNCHANGED coordVars => (TypeCoord' <=> TypeCoord)
    BY DEF coordVars, TypeCoord
<1>7. UNCHANGED <<committed, delivered>> => (TypeRest' <=> TypeRest)
    BY DEF TypeRest
<1>8. UNCHANGED boundVars => (TypeBounds' <=> TypeBounds)
    BY DEF boundVars, TypeBounds
<1> QED
    BY <1>1, <1>2, <1>3, <1>4, <1>5, <1>6, <1>7, <1>8

\* A channel with room takes a message, and one that is read has more room.
LEMMA Bounded ==
    ASSUME NEW q \in Seq(Message)
    PROVE  /\ Room(q) => \A m \in Message : /\ Append(q, m) \in Seq(Message)
                                            /\ Len(Append(q, m)) <= Cap
           /\ q # <<>> /\ Len(q) <= Cap => /\ Tail(q) \in Seq(Message) /\ Len(Tail(q)) <= Cap
                                           /\ Head(q) \in Message
<1>1. PICK n \in Nat, c \in Nat : n = Len(q) /\ c = Cap
    BY Constants
<1>2. ASSUME Room(q), NEW m \in Message
      PROVE  Append(q, m) \in Seq(Message) /\ Len(Append(q, m)) <= Cap
    <2>1. n < c
        BY <1>1, <1>2 DEF Room
    <2>2. Append(q, m) \in Seq(Message) /\ Len(Append(q, m)) = n + 1
        BY <1>1
    <2> QED
        BY <1>1, <2>1, <2>2
<1>3. ASSUME q # <<>>, Len(q) <= Cap
      PROVE  Tail(q) \in Seq(Message) /\ Len(Tail(q)) <= Cap /\ Head(q) \in Message
    <2>1. PICK k \in Nat : k = Len(Tail(q)) /\ k + 1 = n
        BY <1>1, <1>3, TailIndices
    <2> QED
        BY <1>1, <1>3, <2>1, TailIndices
<1> QED
    BY <1>2, <1>3

\* A fault is counted up to the bound.
LEMMA FaultTyped == TypeBounds /\ Fault => faults' \in 0..MaxFaults
BY Constants DEF Fault, TypeBounds

\* Only participants acknowledge.
LEMMA AckTyped ==
    ASSUME TypeInbox, NEW k, NEW p \in Participants, Ack(k, p)
    PROVE  acks' \in SUBSET Participants
BY DEF Ack, TypeInbox

\* A refusal is a flag.
LEMMA RefuseTyped == \A k : TypeInbox /\ Refuse(k) => refused' \in BOOLEAN
BY DEF Refuse, TypeInbox

\* A request that ends leaves an empty inbox.
LEMMA EndTyped ==
    ASSUME EndRequest
    PROVE  /\ TypeInbox' /\ active' \in Ids \cup {None} /\ toCut' \in SUBSET Sources
           /\ replies' \in [Sources -> 0..Rows \cup {Waiting, Lost}]
<1>1. NoReplies \in [Sources -> 0..Rows \cup {Waiting, Lost}]
    BY DEF NoReplies
<1> QED
    BY <1>1 DEF EndRequest, TypeInbox

\* The initial state has the types.
LEMMA TypeInit == Init => TypeOK
<1> SUFFICES ASSUME Init PROVE TypeOK
    OBVIOUS
<1>0. 0 \in 0..Rows /\ 0 \in 0..Batch /\ 0 \in 0..MaxDrops /\ 0 \in 0..MaxFaults
      /\ 0 \in 0..MaxCrashes /\ 1 \in 1..MaxId + 1 /\ 0 <= Cap
    BY Constants
<1>1. /\ Zero \in [Sources -> 0..Rows] /\ Zero \in [Sources -> 0..Batch]
      /\ Zero \in [Sources -> Ids \cup {None}]
    BY <1>0 DEF Zero, None
<1>2. /\ Empty \in [Sources -> Seq(Message)] /\ \A s \in Sources : Len(Empty[s]) <= Cap
      /\ Len(<<>>) <= Cap /\ <<>> \in Seq(Message)
    BY <1>0 DEF Empty
<1>3. NoHand \in [from : Sources \cup {None}, msg : Message]
    BY MessageParts DEF NoHand
<1>4. TypeSource
    BY <1>1, <1>2 DEF Init, TypeSource
<1>5. TypeUnion
    BY <1>3 DEF Init, TypeUnion
<1>6. TypeWindow /\ TypeSink
    BY <1>0, <1>2 DEF Init, TypeWindow, TypeSink
<1>7. TypeInbox
    BY DEF Init, TypeInbox
<1>8. TypeCoord
    BY <1>0 DEF Init, TypeCoord, NoReplies
<1>9. TypeRest /\ TypeBounds
    BY <1>0, <1>1 DEF Init, TypeRest, TypeBounds
<1> QED
    BY <1>4, <1>5, <1>6, <1>7, <1>8, <1>9, TypeParts

\* file_actor and live_source keep the types.
LEMMA TypeSourceStep ==
    ASSUME TypeOK, NEW s \in Sources, SourceSteps(s), unsent[s] <= cursor[s]
    PROVE  TypeOK'
<1>0. /\ TypeSource /\ TypeUnion /\ TypeWindow /\ TypeSink
      /\ TypeInbox /\ TypeCoord /\ TypeRest /\ TypeBounds
    BY TypeParts
<1>a. /\ cursor \in [Sources -> 0..Rows] /\ unsent \in [Sources -> 0..Batch]
      /\ cut \in [Sources -> Ids \cup {None}] /\ injecting \in [Sources -> Ids \cup {None}]
      /\ ingress \in [Sources -> Seq(Message)] /\ mail \in [Sources -> Seq(Message)]
      /\ ingress[s] \in Seq(Message) /\ mail[s] \in Seq(Message)
      /\ Len(ingress[s]) <= Cap /\ Len(mail[s]) <= Cap
      /\ replies \in [Sources -> 0..Rows \cup {Waiting, Lost}]
      /\ cursor[s] \in 0..Rows /\ unsent[s] \in 0..Batch
    BY <1>0 DEF TypeSource, TypeCoord
<1>b. UNCHANGED <<unionVars, windowVars, sinkVars, committed, delivered>>
    BY DEF SourceSteps, Poll, SendRow, TakeCut, InjectBarrier, InjectTimesOut, SourceForward
<1>c. TypeUnion' /\ TypeWindow' /\ TypeSink' /\ TypeRest'
    BY <1>0, <1>b, TypeStands
<1>1. CASE Poll(s)
    <2>1. PICK n \in 1..Batch : /\ cursor[s] + n <= Rows
                                /\ cursor' = [cursor EXCEPT ![s] = @ + n]
                                /\ unsent' = [unsent EXCEPT ![s] = n]
        BY <1>1 DEF Poll
    <2>2. cursor[s] + n \in 0..Rows /\ n \in 0..Batch
        BY <1>a, <2>1, Constants
    <2>3. cursor' \in [Sources -> 0..Rows] /\ unsent' \in [Sources -> 0..Batch]
        BY <1>a, <2>1, <2>2
    <2>4. UNCHANGED <<cut, injecting, ingress, mail>> /\ UNCHANGED inboxVars
          /\ UNCHANGED coordVars /\ UNCHANGED boundVars
        BY <1>1 DEF Poll
    <2>5. TypeSource'
        BY <1>0, <2>3, <2>4 DEF TypeSource
    <2> QED
        BY <1>0, <1>c, <2>4, <2>5, TypeStands, TypeParts
<1>2. CASE SendRow(s)
    <2>1. /\ unsent[s] > 0 /\ Room(ingress[s]) /\ unsent' = [unsent EXCEPT ![s] = @ - 1]
          /\ ingress' = [ingress EXCEPT ![s] = Append(@, Data({<<s, cursor[s] - unsent[s] + 1>>}))]
          /\ UNCHANGED <<cursor, cut, injecting, mail>> /\ UNCHANGED inboxVars
          /\ UNCHANGED coordVars /\ UNCHANGED boundVars
        BY <1>2 DEF SendRow
    <2>2. unsent[s] - 1 \in 0..Batch /\ cursor[s] - unsent[s] + 1 \in 1..Rows
        BY <1>a, <2>1, Constants
    <2>3. PICK m \in Message : m = Data({<<s, cursor[s] - unsent[s] + 1>>})
        BY <2>2, MessageParts DEF AllRows
    <2>4. Append(ingress[s], m) \in Seq(Message) /\ Len(Append(ingress[s], m)) <= Cap
        BY <1>a, <2>1, Bounded
    <2>5. ingress' = [ingress EXCEPT ![s] = Append(ingress[s], m)]
        BY <2>1, <2>3
    <2>6. unsent' \in [Sources -> 0..Batch] /\ ingress' \in [Sources -> Seq(Message)]
          /\ \A t \in Sources : Len(ingress'[t]) <= Cap
        BY <1>0, <1>a, <2>1, <2>2, <2>4, <2>5 DEF TypeSource
    <2>7. TypeSource'
        BY <1>0, <2>1, <2>6 DEF TypeSource
    <2> QED
        BY <1>0, <1>c, <2>1, <2>7, TypeStands, TypeParts
<1>3. CASE TakeCut(s)
    <2>1. /\ cut' = [cut EXCEPT ![s] = None]
          /\ injecting' = [injecting EXCEPT ![s] = IF cut[s] = active THEN cut[s] ELSE None]
          /\ UNCHANGED <<cursor, unsent, ingress, mail>> /\ UNCHANGED inboxVars
          /\ UNCHANGED coordVars /\ UNCHANGED boundVars
        BY <1>3 DEF TakeCut
    <2>2. cut' \in [Sources -> Ids \cup {None}] /\ injecting' \in [Sources -> Ids \cup {None}]
        BY <1>a, <2>1
    <2>3. TypeSource'
        BY <1>0, <2>1, <2>2 DEF TypeSource
    <2> QED
        BY <1>0, <1>c, <2>1, <2>3, TypeStands, TypeParts
<1>4. CASE InjectBarrier(s)
    <2>1. /\ injecting[s] # None /\ Room(ingress[s])
          /\ ingress' = [ingress EXCEPT ![s] = Append(@, Barrier(injecting[s]))]
          /\ replies' = IF injecting[s] = active THEN [replies EXCEPT ![s] = cursor[s]] ELSE replies
          /\ injecting' = [injecting EXCEPT ![s] = None]
          /\ UNCHANGED <<cursor, unsent, cut, mail>> /\ UNCHANGED inboxVars
          /\ UNCHANGED <<active, toCut, phase, nextId>> /\ UNCHANGED boundVars
        BY <1>4 DEF InjectBarrier
    <2>3. PICK m \in Message : m = Barrier(injecting[s])
        BY <1>a, <2>1, MessageParts
    <2>4. Append(ingress[s], m) \in Seq(Message) /\ Len(Append(ingress[s], m)) <= Cap
        BY <1>a, <2>1, Bounded
    <2>5. ingress' = [ingress EXCEPT ![s] = Append(ingress[s], m)]
        BY <2>1, <2>3
    <2>6. injecting' \in [Sources -> Ids \cup {None}] /\ ingress' \in [Sources -> Seq(Message)]
          /\ \A t \in Sources : Len(ingress'[t]) <= Cap
        BY <1>0, <1>a, <2>1, <2>4, <2>5 DEF TypeSource
    <2>7. TypeSource'
        BY <1>0, <2>1, <2>6 DEF TypeSource
    <2>8. replies' \in [Sources -> 0..Rows \cup {Waiting, Lost}]
        BY <1>a, <2>1
    <2>9. TypeCoord'
        BY <1>0, <2>1, <2>8 DEF TypeCoord
    <2> QED
        BY <1>0, <1>c, <2>1, <2>7, <2>9, TypeStands, TypeParts
<1>5. CASE InjectTimesOut(s)
    <2>1. /\ Fault
          /\ replies' = IF injecting[s] = active THEN [replies EXCEPT ![s] = Lost] ELSE replies
          /\ injecting' = [injecting EXCEPT ![s] = None]
          /\ UNCHANGED <<cursor, unsent, cut, ingress, mail>> /\ UNCHANGED inboxVars
          /\ UNCHANGED <<active, toCut, phase, nextId>> /\ UNCHANGED <<drops, crashes>>
        BY <1>5 DEF InjectTimesOut
    <2>2. injecting' \in [Sources -> Ids \cup {None}]
        BY <1>a, <2>1
    <2>3. TypeSource'
        BY <1>0, <2>1, <2>2 DEF TypeSource
    <2>4. replies' \in [Sources -> 0..Rows \cup {Waiting, Lost}]
        BY <1>a, <2>1
    <2>5. TypeCoord'
        BY <1>0, <2>1, <2>4 DEF TypeCoord
    <2>6. TypeBounds'
        BY <1>0, <2>1, FaultTyped DEF TypeBounds
    <2> QED
        BY <1>0, <1>c, <2>1, <2>3, <2>5, <2>6, TypeStands, TypeParts
<1>6. CASE SourceForward(s)
    <2>1. /\ ingress[s] # <<>> /\ Room(mail[s])
          /\ ingress' = [ingress EXCEPT ![s] = Tail(@)]
          /\ mail' = [mail EXCEPT ![s] = Append(@, Head(ingress[s]))]
          /\ Ack(Head(ingress[s]).barrier, s) \/ UNCHANGED acks
          /\ UNCHANGED <<cursor, unsent, cut, injecting, refused, frozen>>
          /\ UNCHANGED coordVars /\ UNCHANGED boundVars
        BY <1>6 DEF SourceForward
    <2>2. /\ Tail(ingress[s]) \in Seq(Message) /\ Len(Tail(ingress[s])) <= Cap
          /\ Head(ingress[s]) \in Message
        BY <1>a, <2>1, Bounded
    <2>3. PICK m \in Message : m = Head(ingress[s])
        BY <2>2
    <2>4. Append(mail[s], m) \in Seq(Message) /\ Len(Append(mail[s], m)) <= Cap
        BY <1>a, <2>1, Bounded
    <2>5. /\ mail' = [mail EXCEPT ![s] = Append(mail[s], m)]
          /\ ingress' = [ingress EXCEPT ![s] = Tail(ingress[s])]
        BY <2>1, <2>3
    <2>6. /\ mail' \in [Sources -> Seq(Message)] /\ ingress' \in [Sources -> Seq(Message)]
          /\ \A t \in Sources : Len(ingress'[t]) <= Cap /\ Len(mail'[t]) <= Cap
        BY <1>0, <1>a, <2>2, <2>4, <2>5 DEF TypeSource
    <2>7. TypeSource'
        BY <1>0, <2>1, <2>6 DEF TypeSource
    <2>8. TypeInbox'
        BY <1>0, <2>1, AckTyped, ParticipantNames DEF TypeInbox
    <2> QED
        BY <1>0, <1>c, <2>1, <2>7, <2>8, TypeStands, TypeParts
<1> QED
    BY <1>1, <1>2, <1>3, <1>4, <1>5, <1>6 DEF SourceSteps

\* The union keeps the types.
LEMMA TypeUnionStep ==
    ASSUME TypeOK, UnionSteps, hand # NoHand => hand.from \in Sources
    PROVE  TypeOK'
<1>0. /\ TypeSource /\ TypeUnion /\ TypeWindow /\ TypeSink
      /\ TypeInbox /\ TypeCoord /\ TypeRest /\ TypeBounds
    BY TypeParts
<1>a. /\ hand \in [from : Sources \cup {None}, msg : Message] /\ hand.msg \in Message
      /\ hand.from \in Sources \cup {None}
      /\ toWindow \in Seq(Message) /\ blocked \in SUBSET Sources
      /\ NoHand \in [from : Sources \cup {None}, msg : Message]
    BY <1>0, MessageParts DEF TypeUnion, TypeWindow, NoHand
<1>b. /\ UNCHANGED sinkVars /\ UNCHANGED inboxVars /\ UNCHANGED coordVars
      /\ UNCHANGED <<committed, delivered>> /\ UNCHANGED boundVars
    BY DEF UnionSteps, UnionAbandon, UnionPoll, UnionPending,
           UnionTake, UnionForward, UnionSkip, UnionBlock, UnionAlign
<1>c. TypeSink' /\ TypeInbox' /\ TypeCoord' /\ TypeRest' /\ TypeBounds'
    BY <1>0, <1>b, TypeStands
<1>1. CASE UnionAbandon
    <2>1. blocked' = {} /\ aligning' = None /\ UNCHANGED <<checked, completed, hand>>
          /\ UNCHANGED sourceVars /\ UNCHANGED windowVars
        BY <1>1 DEF UnionAbandon
    <2>2. TypeUnion'
        BY <1>0, <2>1 DEF TypeUnion
    <2> QED
        BY <1>0, <1>c, <2>1, <2>2, TypeStands, TypeParts
<1>2. ASSUME NEW s \in Sources, UnionTake(s) PROVE TypeOK'
    <2>1. /\ mail[s] # <<>> /\ hand' = [from |-> s, msg |-> Head(mail[s])]
          /\ mail' = [mail EXCEPT ![s] = Tail(@)]
          /\ UNCHANGED <<cursor, unsent, cut, injecting, ingress>>
          /\ checked' = FALSE /\ UNCHANGED <<blocked, aligning, completed>>
          /\ UNCHANGED windowVars
        BY <1>2 DEF UnionTake, Readable
    <2>2. mail \in [Sources -> Seq(Message)] /\ mail[s] \in Seq(Message) /\ Len(mail[s]) <= Cap
        BY <1>0 DEF TypeSource
    <2>3. /\ Tail(mail[s]) \in Seq(Message) /\ Len(Tail(mail[s])) <= Cap
          /\ Head(mail[s]) \in Message
        BY <2>1, <2>2, Bounded
    <2>4. mail' \in [Sources -> Seq(Message)] /\ \A t \in Sources : Len(mail'[t]) <= Cap
        BY <1>0, <2>1, <2>2, <2>3 DEF TypeSource
    <2>5. TypeSource'
        BY <1>0, <2>1, <2>4 DEF TypeSource
    <2>6. hand' \in [from : Sources \cup {None}, msg : Message]
        BY <2>1, <2>3
    <2>7. TypeUnion'
        BY <1>0, <2>1, <2>6 DEF TypeUnion
    <2> QED
        BY <1>0, <1>c, <2>1, <2>5, <2>7, TypeStands, TypeParts
<1>3. CASE UnionForward
    <2>1. /\ Room(toWindow) /\ toWindow' = Append(toWindow, hand.msg) /\ hand' = NoHand
          /\ UNCHANGED sourceVars /\ UNCHANGED <<blocked, aligning, checked, completed, held>>
        BY <1>3 DEF UnionForward
    <2>2. toWindow' \in Seq(Message) /\ Len(toWindow') <= Cap
        BY <1>a, <2>1, Bounded
    <2>3. TypeWindow' /\ TypeUnion'
        BY <1>0, <1>a, <2>1, <2>2 DEF TypeWindow, TypeUnion
    <2> QED
        BY <1>0, <1>c, <2>1, <2>3, TypeStands, TypeParts
<1>4. CASE UnionSkip
    <2>1. /\ hand' = NoHand /\ UNCHANGED sourceVars /\ UNCHANGED windowVars
          /\ UNCHANGED <<blocked, aligning, checked, completed>>
        BY <1>4 DEF UnionSkip
    <2>2. TypeUnion'
        BY <1>0, <1>a, <2>1 DEF TypeUnion
    <2> QED
        BY <1>0, <1>c, <2>1, <2>2, TypeStands, TypeParts
<1>5. CASE UnionBlock
    <2>1. /\ hand.msg.barrier # None /\ aligning' = hand.msg.barrier
          /\ blocked' = blocked \cup {hand.from} /\ hand' \in {hand, NoHand}
          /\ UNCHANGED sourceVars /\ UNCHANGED windowVars /\ UNCHANGED <<checked, completed>>
        BY <1>5 DEF UnionBlock, Arrived
    <2>2. hand.msg.barrier \in Ids \cup {None}
        BY <1>a, MessageParts
    <2>3. hand.from \in Sources
        BY <2>1, NoHandParts
    <2>4. TypeUnion'
        BY <1>0, <1>a, <2>1, <2>2, <2>3 DEF TypeUnion
    <2> QED
        BY <1>0, <1>c, <2>1, <2>4, TypeStands, TypeParts
<1>6. CASE UnionAlign
    <2>1. /\ hand.msg.barrier # None /\ completed' = hand.msg.barrier
          /\ Room(toWindow) /\ toWindow' = Append(toWindow, hand.msg)
          /\ aligning' = None /\ blocked' = {} /\ hand' = NoHand
          /\ UNCHANGED sourceVars /\ UNCHANGED <<held, checked>>
        BY <1>6 DEF UnionAlign
    <2>2. hand.msg.barrier \in Ids \cup {None}
        BY <1>a, MessageParts
    <2>3. toWindow' \in Seq(Message) /\ Len(toWindow') <= Cap
        BY <1>a, <2>1, Bounded
    <2>4. TypeWindow' /\ TypeUnion'
        BY <1>0, <1>a, <2>1, <2>2, <2>3 DEF TypeWindow, TypeUnion
    <2> QED
        BY <1>0, <1>c, <2>1, <2>4, TypeStands, TypeParts
<1>7. CASE UnionPoll \/ UnionPending
    <2>1. /\ checked' \in BOOLEAN /\ UNCHANGED <<blocked, aligning, completed, hand>>
          /\ UNCHANGED sourceVars /\ UNCHANGED windowVars
        BY <1>7 DEF UnionPoll, UnionPending
    <2>2. TypeUnion'
        BY <1>0, <2>1 DEF TypeUnion
    <2> QED
        BY <1>0, <1>c, <2>1, <2>2, TypeStands, TypeParts
<1> QED
    BY <1>1, <1>2, <1>3, <1>4, <1>5, <1>6, <1>7 DEF UnionSteps

\* The window stage keeps the types.
LEMMA TypeWindowStep ==
    ASSUME TypeOK, WindowSteps
    PROVE  TypeOK'
<1>0. /\ TypeSource /\ TypeUnion /\ TypeWindow /\ TypeSink
      /\ TypeInbox /\ TypeCoord /\ TypeRest /\ TypeBounds
    BY TypeParts
<1>a. /\ toWindow \in Seq(Message) /\ Len(toWindow) <= Cap /\ held \in SUBSET AllRows
      /\ toSink \in Seq(Message) /\ Len(toSink) <= Cap
    BY <1>0 DEF TypeWindow, TypeSink
<1>b. /\ UNCHANGED sourceVars /\ UNCHANGED unionVars /\ UNCHANGED coordVars
      /\ UNCHANGED <<committed, delivered>> /\ UNCHANGED <<flushing, outbox, failed, marked>>
    BY DEF WindowSteps, WindowAbsorb, WindowEmit, WindowBarrier, sinkVars
<1>c. TypeSource' /\ TypeUnion' /\ TypeCoord' /\ TypeRest'
    BY <1>0, <1>b, TypeStands
<1>1. CASE WindowAbsorb
    <2>1. /\ toWindow # <<>> /\ toWindow' = Tail(toWindow) /\ held' = held \cup Head(toWindow).rows
          /\ UNCHANGED sinkVars /\ UNCHANGED inboxVars /\ UNCHANGED boundVars
        BY <1>1 DEF WindowAbsorb
    <2>2. /\ toWindow' \in Seq(Message) /\ Len(toWindow') <= Cap
          /\ Head(toWindow) \in Message
        BY <1>a, <2>1, Bounded
    <2>3. held' \in SUBSET AllRows
        BY <1>a, <2>1, <2>2, MessageParts
    <2>4. TypeWindow'
        BY <2>2, <2>3 DEF TypeWindow
    <2> QED
        BY <1>0, <1>c, <2>1, <2>4, TypeStands, TypeParts
<1>2. CASE WindowEmit
    <2>1. /\ Room(toSink) /\ toSink' = Append(toSink, Data(held)) /\ held' = {}
          /\ UNCHANGED toWindow /\ UNCHANGED inboxVars /\ UNCHANGED boundVars
        BY <1>2 DEF WindowEmit
    <2>2. toSink' \in Seq(Message) /\ Len(toSink') <= Cap
        BY <1>a, <2>1, Bounded, MessageParts
    <2>3. TypeWindow' /\ TypeSink'
        BY <1>0, <1>b, <2>1, <2>2 DEF TypeWindow, TypeSink
    <2> QED
        BY <1>0, <1>c, <2>1, <2>3, TypeStands, TypeParts
<1>3. CASE WindowBarrier
    <2>1. /\ toWindow # <<>> /\ Room(toSink) /\ toWindow' = Tail(toWindow)
          /\ toSink' = Append(toSink, Head(toWindow)) /\ UNCHANGED held
          /\ UNCHANGED <<drops, crashes>>
          /\ \/ /\ Ack(Head(toWindow).barrier, Window)
                /\ frozen' = IF active = Head(toWindow).barrier THEN held ELSE frozen
                /\ UNCHANGED <<refused, faults>>
             \/ /\ Fault /\ Refuse(Head(toWindow).barrier) /\ UNCHANGED <<acks, frozen>>
        BY <1>3 DEF WindowBarrier
    <2>2. /\ toWindow' \in Seq(Message) /\ Len(toWindow') <= Cap
          /\ Head(toWindow) \in Message
        BY <1>a, <2>1, Bounded
    <2>3. toSink' \in Seq(Message) /\ Len(toSink') <= Cap
        BY <1>a, <2>1, <2>2, Bounded
    <2>4. TypeWindow' /\ TypeSink'
        BY <1>0, <1>a, <1>b, <2>1, <2>2, <2>3 DEF TypeWindow, TypeSink
    <2>5. TypeBounds'
        BY <1>0, <2>1, FaultTyped DEF TypeBounds
    <2>6. acks' \in SUBSET Participants
        BY <1>0, <2>1, AckTyped, ParticipantNames DEF TypeInbox
    <2>7. refused' \in BOOLEAN
        BY <1>0, <2>1, RefuseTyped DEF TypeInbox
    <2>8. frozen' \in SUBSET AllRows
        BY <1>0, <1>a, <2>1 DEF TypeInbox
    <2>9. TypeInbox'
        BY <2>6, <2>7, <2>8 DEF TypeInbox
    <2> QED
        BY <1>0, <1>c, <2>4, <2>5, <2>9, TypeParts
<1> QED
    BY <1>1, <1>2, <1>3 DEF WindowSteps

\* The sink stage and the connector keep the types.
LEMMA TypeSinkStep ==
    ASSUME TypeOK, SinkSteps \/ Deliver \/ DropResult, failed <= drops
    PROVE  TypeOK'
<1>0. /\ TypeSource /\ TypeUnion /\ TypeWindow /\ TypeSink
      /\ TypeInbox /\ TypeCoord /\ TypeRest /\ TypeBounds
    BY TypeParts
<1>a. /\ outbox \in Seq(Message) /\ Len(outbox) <= Cap
      /\ toSink \in Seq(Message) /\ Len(toSink) <= Cap
      /\ failed \in 0..MaxDrops /\ marked \in 0..MaxDrops /\ drops \in 0..MaxDrops
      /\ active \in Ids \cup {None}
    BY <1>0 DEF TypeSink, TypeBounds, TypeCoord
<1>b. /\ UNCHANGED sourceVars /\ UNCHANGED unionVars /\ UNCHANGED windowVars
      /\ UNCHANGED coordVars /\ UNCHANGED <<committed, frozen, crashes>>
    BY DEF SinkSteps, SinkSend, SinkBarrier, SinkAbandon, SinkFlushed, SinkTimesOut,
           Deliver, DropResult, inboxVars, boundVars
<1>c. TypeSource' /\ TypeUnion' /\ TypeWindow' /\ TypeCoord'
    BY <1>0, <1>b, TypeStands
<1>1. CASE SinkSend
    <2>1. /\ toSink # <<>> /\ Room(outbox) /\ toSink' = Tail(toSink)
          /\ outbox' = Append(outbox, Head(toSink)) /\ UNCHANGED <<flushing, failed, marked>>
          /\ UNCHANGED inboxVars /\ UNCHANGED <<committed, delivered>> /\ UNCHANGED boundVars
        BY <1>1 DEF SinkSend
    <2>2. toSink' \in Seq(Message) /\ Len(toSink') <= Cap /\ Head(toSink) \in Message
        BY <1>a, <2>1, Bounded
    <2>3. outbox' \in Seq(Message) /\ Len(outbox') <= Cap
        BY <1>a, <2>1, <2>2, Bounded
    <2>4. TypeSink'
        BY <1>0, <2>1, <2>2, <2>3 DEF TypeSink
    <2> QED
        BY <1>0, <1>c, <2>1, <2>4, TypeStands, TypeParts
<1>2. CASE SinkBarrier
    <2>1. /\ toSink # <<>> /\ toSink' = Tail(toSink)
          /\ flushing' = IF Head(toSink).barrier = active THEN active ELSE None
          /\ UNCHANGED <<outbox, failed, marked>>
          /\ UNCHANGED inboxVars /\ UNCHANGED <<committed, delivered>> /\ UNCHANGED boundVars
        BY <1>2 DEF SinkBarrier
    <2>2. toSink' \in Seq(Message) /\ Len(toSink') <= Cap
        BY <1>a, <2>1, Bounded
    <2>3. TypeSink'
        BY <1>0, <1>a, <2>1, <2>2 DEF TypeSink
    <2> QED
        BY <1>0, <1>c, <2>1, <2>3, TypeStands, TypeParts
<1>3. CASE SinkAbandon
    <2>1. /\ flushing' = None /\ UNCHANGED <<toSink, outbox, failed, marked>>
          /\ UNCHANGED inboxVars /\ UNCHANGED <<committed, delivered>> /\ UNCHANGED boundVars
        BY <1>3 DEF SinkAbandon
    <2>2. TypeSink'
        BY <1>0, <2>1 DEF TypeSink
    <2> QED
        BY <1>0, <1>c, <2>1, <2>2, TypeStands, TypeParts
<1>4. CASE SinkFlushed
    <2>1. /\ flushing' = None /\ UNCHANGED <<toSink, outbox, failed>>
          /\ marked' = failed \/ marked' = marked
          /\ Ack(flushing, Sink) \/ UNCHANGED acks
          /\ Refuse(flushing) \/ UNCHANGED refused
          /\ UNCHANGED <<committed, delivered>> /\ UNCHANGED boundVars
        BY <1>4 DEF SinkFlushed
    <2>2. TypeSink'
        BY <1>0, <1>a, <2>1 DEF TypeSink
    <2>3. acks' \in SUBSET Participants
        BY <1>0, <2>1, AckTyped, ParticipantNames DEF TypeInbox
    <2>4. refused' \in BOOLEAN
        BY <1>0, <2>1, RefuseTyped DEF TypeInbox
    <2>5. TypeInbox'
        BY <1>0, <1>b, <2>3, <2>4 DEF TypeInbox
    <2> QED
        BY <1>0, <1>c, <2>1, <2>2, <2>5, TypeStands, TypeParts
<1>5. CASE SinkTimesOut
    <2>1. /\ flushing' = None /\ UNCHANGED <<toSink, outbox, failed, marked>>
          /\ Fault /\ Refuse(flushing) /\ UNCHANGED acks
          /\ UNCHANGED <<committed, delivered>> /\ UNCHANGED drops
        BY <1>5 DEF SinkTimesOut
    <2>2. TypeSink'
        BY <1>0, <2>1 DEF TypeSink
    <2>3. refused' \in BOOLEAN
        BY <1>0, <2>1, RefuseTyped
    <2>4. TypeInbox'
        BY <1>0, <1>b, <2>1, <2>3 DEF TypeInbox
    <2>5. TypeBounds'
        BY <1>0, <1>b, <2>1, FaultTyped DEF TypeBounds
    <2> QED
        BY <1>0, <1>c, <2>1, <2>2, <2>4, <2>5, TypeStands, TypeParts
<1>6. CASE Deliver
    <2>1. /\ outbox # <<>> /\ outbox' = Tail(outbox)
          /\ delivered' = delivered \cup Head(outbox).rows
          /\ UNCHANGED <<toSink, flushing, failed, marked>>
          /\ UNCHANGED inboxVars /\ UNCHANGED boundVars
        BY <1>6 DEF Deliver
    <2>2. outbox' \in Seq(Message) /\ Len(outbox') <= Cap /\ Head(outbox) \in Message
        BY <1>a, <2>1, Bounded
    <2>3. TypeSink'
        BY <1>0, <2>1, <2>2 DEF TypeSink
    <2>4. delivered' \in SUBSET AllRows
        BY <1>0, <2>1, <2>2, MessageParts DEF TypeRest
    <2>5. TypeRest'
        BY <1>0, <1>b, <2>4 DEF TypeRest
    <2> QED
        BY <1>0, <1>c, <2>1, <2>3, <2>5, TypeStands, TypeParts
<1>7. CASE DropResult
    <2>1. /\ outbox # <<>> /\ outbox' = Tail(outbox) /\ failed' = failed + 1
          /\ drops < MaxDrops /\ drops' = drops + 1
          /\ UNCHANGED <<toSink, flushing, marked, faults, crashes>>
          /\ UNCHANGED inboxVars /\ UNCHANGED <<committed, delivered>>
        BY <1>7 DEF DropResult
    <2>2. outbox' \in Seq(Message) /\ Len(outbox') <= Cap
        BY <1>a, <2>1, Bounded
    <2>3. failed' \in 0..MaxDrops /\ drops' \in 0..MaxDrops
        BY <1>a, <2>1, Constants
    <2>4. TypeSink'
        BY <1>0, <2>1, <2>2, <2>3 DEF TypeSink
    <2>5. TypeBounds'
        BY <1>0, <2>1, <2>3 DEF TypeBounds
    <2> QED
        BY <1>0, <1>c, <2>1, <2>4, <2>5, TypeStands, TypeParts
<1> QED
    BY <1>1, <1>2, <1>3, <1>4, <1>5, <1>6, <1>7 DEF SinkSteps

\* coordinate() keeps the types.
LEMMA TypeCoordStep ==
    ASSUME TypeOK, Coordinate, IdsBegun,
           phase = "committing" => \A s \in Sources : Injected(s)
    PROVE  TypeOK'
<1>0. /\ TypeSource /\ TypeUnion /\ TypeWindow /\ TypeSink
      /\ TypeInbox /\ TypeCoord /\ TypeRest /\ TypeBounds
    BY TypeParts
<1>a. /\ nextId \in 1..MaxId + 1 /\ nextId \in Nat /\ active \in Ids \cup {None}
      /\ cut \in [Sources -> Ids \cup {None}] /\ toCut \in SUBSET Sources
      /\ replies \in [Sources -> 0..Rows \cup {Waiting, Lost}] /\ frozen \in SUBSET AllRows
    BY <1>0, Constants DEF TypeCoord, TypeSource, TypeInbox
<1>b. UNCHANGED unionVars /\ UNCHANGED windowVars /\ UNCHANGED sinkVars /\ UNCHANGED delivered
      /\ UNCHANGED <<drops, crashes>>
    BY DEF Coordinate, BeginCheckpoint, SendCut, CutFailed, Refused, Aligned, Committed,
           CommitFails, Timeout, boundVars
<1>c. TypeUnion' /\ TypeWindow' /\ TypeSink'
    BY <1>0, <1>b, TypeStands
<1>1. CASE BeginCheckpoint
    <2>1. /\ nextId <= MaxId /\ phase' = "aligning" /\ active' = nextId /\ nextId' = nextId + 1
          /\ toCut' = Sources /\ UNCHANGED sourceVars /\ UNCHANGED inboxVars
          /\ UNCHANGED <<replies>> /\ UNCHANGED <<committed, delivered>> /\ UNCHANGED boundVars
        BY <1>1 DEF BeginCheckpoint
    <2>2. active' \in Ids \cup {None} /\ nextId' \in 1..MaxId + 1
        BY <1>a, <2>1, Constants DEF Ids
    <2>3. TypeCoord'
        BY <1>0, <2>1, <2>2 DEF TypeCoord
    <2> QED
        BY <1>0, <1>c, <2>1, <2>3, TypeStands, TypeParts
<1>2. ASSUME NEW s \in Sources, SendCut(s) PROVE TypeOK'
    <2>1. /\ cut' = [cut EXCEPT ![s] = active] /\ toCut' = toCut \ {s}
          /\ UNCHANGED <<cursor, unsent, injecting, ingress, mail>>
          /\ UNCHANGED <<active, replies, phase, nextId>> /\ UNCHANGED inboxVars
          /\ UNCHANGED <<committed, delivered>> /\ UNCHANGED boundVars
        BY <1>2 DEF SendCut
    <2>2. cut' \in [Sources -> Ids \cup {None}] /\ toCut' \in SUBSET Sources
        BY <1>a, <2>1
    <2>3. TypeSource' /\ TypeCoord'
        BY <1>0, <2>1, <2>2 DEF TypeSource, TypeCoord
    <2> QED
        BY <1>0, <1>c, <2>1, <2>3, TypeStands, TypeParts
<1>3. CASE CutFailed \/ Refused \/ CommitFails \/ Timeout
    <2>1. /\ EndRequest /\ phase' = "idle" /\ UNCHANGED sourceVars /\ UNCHANGED nextId
          /\ UNCHANGED <<committed, delivered>> /\ (Fault \/ UNCHANGED faults)
        BY <1>3 DEF CutFailed, Refused, CommitFails, Timeout, boundVars
    <2>2. TypeInbox' /\ TypeCoord'
        BY <1>0, <2>1, EndTyped DEF TypeCoord
    <2>3. TypeBounds'
        BY <1>0, <1>b, <2>1, FaultTyped DEF TypeBounds
    <2> QED
        BY <1>0, <1>c, <2>1, <2>2, <2>3, TypeStands, TypeParts
<1>4. CASE Aligned
    <2>1. /\ phase' = "committing" /\ active' = None /\ acks' = {}
          /\ UNCHANGED <<refused, frozen, toCut, replies, nextId>> /\ UNCHANGED sourceVars
          /\ UNCHANGED <<committed, delivered>> /\ UNCHANGED boundVars
        BY <1>4 DEF Aligned
    <2>2. TypeInbox' /\ TypeCoord'
        BY <1>0, <2>1 DEF TypeInbox, TypeCoord
    <2> QED
        BY <1>0, <1>c, <2>1, <2>2, TypeStands, TypeParts
<1>5. CASE Committed
    <2>1. /\ phase = "committing"
          /\ committed' = [id |-> nextId - 1, pos |-> replies, held |-> frozen]
          /\ EndRequest /\ phase' = "idle" /\ UNCHANGED sourceVars /\ UNCHANGED nextId
          /\ UNCHANGED delivered /\ UNCHANGED boundVars
        BY <1>5 DEF Committed
    <2>2. TypeInbox' /\ TypeCoord'
        BY <1>0, <2>1, EndTyped DEF TypeCoord
    <2>3. nextId - 1 \in Ids \cup {None}
        BY <1>a, Constants DEF Ids, None
    <2>4. replies \in [Sources -> 0..Rows]
        BY <1>a, <2>1 DEF Injected
    <2>5. TypeRest'
        BY <1>0, <1>a, <2>1, <2>3, <2>4 DEF TypeRest
    <2> QED
        BY <1>0, <1>c, <2>1, <2>2, <2>5, TypeStands, TypeParts
<1> QED
    BY <1>1, <1>2, <1>3, <1>4, <1>5 DEF Coordinate

\* A restart keeps the types.
LEMMA TypeRestart ==
    ASSUME TypeOK, Restart, crashes' \in 0..MaxCrashes
    PROVE  TypeOK'
<1>0. /\ TypeRest /\ TypeBounds /\ TypeCoord
    BY TypeParts
<1>1. 0 \in 0..Rows /\ 0 \in 0..Batch /\ 0 \in 0..MaxDrops /\ 0 <= Cap
    BY Constants
<1>2. /\ Zero \in [Sources -> 0..Batch] /\ Zero \in [Sources -> Ids \cup {None}]
    BY <1>1 DEF Zero, None
<1>3. /\ Empty \in [Sources -> Seq(Message)] /\ \A s \in Sources : Len(Empty[s]) <= Cap
      /\ Len(<<>>) <= Cap /\ <<>> \in Seq(Message)
    BY <1>1 DEF Empty
<1>4. NoHand \in [from : Sources \cup {None}, msg : Message]
    BY MessageParts DEF NoHand
<1>5. /\ committed.pos \in [Sources -> 0..Rows] /\ committed.held \in SUBSET AllRows
      /\ committed.id \in Ids \cup {None}
    BY <1>0 DEF TypeRest
<1>6. TypeSource'
    BY <1>2, <1>3, <1>5 DEF Restart, SeekTo, TypeSource
<1>7. TypeUnion'
    BY <1>4 DEF Restart, TypeUnion
<1>8. TypeWindow' /\ TypeSink'
    BY <1>1, <1>3, <1>5 DEF Restart, TypeWindow, TypeSink
<1>9. nextId' \in 1..MaxId + 1
    <2>1. nextId' \in committed.id + 1..nextId
        BY DEF Restart
    <2> QED
        BY <1>0, <1>5, <2>1, IdIsNat, Constants DEF TypeCoord
<1>10. TypeInbox' /\ TypeCoord'
    <2>1. EndRequest /\ phase' = "idle"
        BY DEF Restart
    <2> QED
        BY <1>9, <2>1, EndTyped DEF TypeCoord
<1>11. TypeRest' /\ TypeBounds'
    <2>1. UNCHANGED <<committed, delivered, faults, drops>>
        BY DEF Restart
    <2> QED
        BY <1>0, <2>1 DEF TypeRest, TypeBounds
<1> QED
    BY <1>6, <1>7, <1>8, <1>10, <1>11, TypeParts

-----------------------------------------------------------------------------
(* Ids.                                                                    *)

\* A channel keeps ids below n when messages join and leave it.
LEMMA OlderMoves ==
    ASSUME NEW q \in Seq(Message), NEW n
    PROVE  /\ \A m \in Message : Older(q, n) /\ m.barrier < n => Older(Append(q, m), n)
           /\ q # <<>> /\ Older(q, n) => Older(Tail(q), n) /\ Head(q).barrier < n
           /\ Older(<<>>, n)
<1>1. ASSUME NEW m \in Message, Older(q, n), m.barrier < n PROVE Older(Append(q, m), n)
    BY <1>1, AppendIndices DEF Older
<1>2. ASSUME q # <<>>, Older(q, n) PROVE Older(Tail(q), n) /\ Head(q).barrier < n
    BY <1>2, TailIndices DEF Older
<1>3. Older(<<>>, n)
    BY DEF Older
<1> QED
    BY <1>1, <1>2, <1>3

\* An id below n is below what follows n.
LEMMA OlderLater ==
    ASSUME NEW q \in Seq(Message), NEW n \in Nat, Older(q, n)
    PROVE  Older(q, n + 1)
<1> SUFFICES ASSUME NEW i \in DOMAIN q PROVE q[i].barrier < n + 1
    BY DEF Older
<1>1. q[i].barrier \in Nat /\ q[i].barrier < n
    BY MessageParts, IdIsNat DEF Older
<1> QED
    BY <1>1

\* Ids below n are below the number after it.
LEMMA IdsLater ==
    ASSUME TypeOK, NEW n \in Nat, IdsBelow(n)
    PROVE  IdsBelow(n + 1)
<1>0. /\ TypeSource /\ TypeUnion /\ TypeWindow /\ TypeSink /\ TypeRest
    BY TypeParts
<1>1. ASSUME NEW s \in Sources PROVE IdsAtSource(s, n + 1)
    <2>1. /\ cut[s] \in Nat /\ injecting[s] \in Nat
          /\ ingress[s] \in Seq(Message) /\ mail[s] \in Seq(Message)
        BY <1>0, IdIsNat DEF TypeSource
    <2>2. /\ cut[s] < n /\ injecting[s] < n /\ Older(ingress[s], n) /\ Older(mail[s], n)
        BY DEF IdsBelow, IdsAtSource
    <2>3. Older(ingress[s], n + 1) /\ Older(mail[s], n + 1)
        BY <2>1, <2>2, OlderLater
    <2> QED
        BY <2>1, <2>2, <2>3 DEF IdsAtSource
<1>2. IdsAtUnion(n + 1)
    <2>1. hand.msg.barrier \in Nat /\ aligning \in Nat /\ completed \in Nat
        BY <1>0, IdIsNat, MessageParts DEF TypeUnion
    <2> QED
        BY <2>1 DEF IdsBelow, IdsAtUnion
<1>3. IdsBehind(n + 1)
    <2>1. flushing \in Nat /\ toWindow \in Seq(Message) /\ toSink \in Seq(Message)
        BY <1>0, IdIsNat DEF TypeSink, TypeWindow
    <2>2. flushing < n /\ Older(toWindow, n) /\ Older(toSink, n)
        BY DEF IdsBelow, IdsBehind
    <2>3. Older(toWindow, n + 1) /\ Older(toSink, n + 1)
        BY <2>1, <2>2, OlderLater
    <2> QED
        BY <2>1, <2>2, <2>3 DEF IdsBehind
<1>4. committed.id < n + 1
    <2>1. committed.id \in Nat
        BY <1>0, IdIsNat DEF TypeRest
    <2> QED
        BY <2>1 DEF IdsBelow
<1> QED
    BY <1>1, <1>2, <1>3, <1>4 DEF IdsBelow

\* What stands still keeps its ids.
LEMMA IdsStand ==
    ASSUME NEW n
    PROVE  /\ UNCHANGED sourceVars => \A s \in Sources : IdsAtSource(s, n)' <=> IdsAtSource(s, n)
           /\ UNCHANGED unionVars => (IdsAtUnion(n)' <=> IdsAtUnion(n))
           /\ UNCHANGED <<toWindow, toSink, flushing>> => (IdsBehind(n)' <=> IdsBehind(n))
<1>1. UNCHANGED sourceVars => \A s \in Sources : IdsAtSource(s, n)' <=> IdsAtSource(s, n)
    BY DEF sourceVars, IdsAtSource, Older
<1>2. UNCHANGED unionVars => (IdsAtUnion(n)' <=> IdsAtUnion(n))
    BY DEF unionVars, IdsAtUnion
<1>3. UNCHANGED <<toWindow, toSink, flushing>> => (IdsBehind(n)' <=> IdsBehind(n))
    BY DEF IdsBehind, Older
<1> QED
    BY <1>1, <1>2, <1>3

\* A source passes on ids it was given.
LEMMA IdsSourceStep ==
    ASSUME TypeOK, NEW s \in Sources, SourceSteps(s), NEW n, IdsBelow(n), None < n
    PROVE  IdsBelow(n)'
<1>0. /\ cut \in [Sources -> Ids \cup {None}] /\ injecting \in [Sources -> Ids \cup {None}]
      /\ ingress \in [Sources -> Seq(Message)] /\ mail \in [Sources -> Seq(Message)]
      /\ ingress[s] \in Seq(Message) /\ mail[s] \in Seq(Message)
    BY DEF TypeOK
<1>a. /\ \A t \in Sources : IdsAtSource(t, n)
      /\ cut[s] < n /\ injecting[s] < n /\ Older(ingress[s], n) /\ Older(mail[s], n)
    BY DEF IdsBelow, IdsAtSource
<1>b. UNCHANGED <<unionVars, windowVars, sinkVars, committed>>
    BY DEF SourceSteps, Poll, SendRow, TakeCut, InjectBarrier, InjectTimesOut, SourceForward
<1>c. IdsAtUnion(n)' /\ IdsBehind(n)' /\ committed'.id < n
    BY <1>b, IdsStand DEF IdsBelow, windowVars, sinkVars
<1>1. ASSUME NEW t \in Sources
      PROVE  cut'[t] < n /\ injecting'[t] < n
    <2>1. cut' = cut \/ cut' = [cut EXCEPT ![s] = None]
        BY DEF SourceSteps, Poll, SendRow, TakeCut, InjectBarrier, InjectTimesOut, SourceForward
    <2>2. PICK x : injecting' = injecting \/ (injecting' = [injecting EXCEPT ![s] = x] /\ x < n)
        BY <1>a DEF SourceSteps, Poll, SendRow, TakeCut, InjectBarrier, InjectTimesOut, SourceForward
    <2> QED
        BY <1>0, <1>a, <2>1, <2>2 DEF IdsAtSource
<1>2. ASSUME NEW t \in Sources
      PROVE  Older(ingress'[t], n) /\ Older(mail'[t], n)
    <2>1. CASE Poll(s) \/ TakeCut(s) \/ InjectTimesOut(s)
        BY <1>a, <2>1 DEF Poll, TakeCut, InjectTimesOut, IdsAtSource
    <2>2. CASE SendRow(s) \/ InjectBarrier(s)
        <3>1. PICK m : /\ ingress' = [ingress EXCEPT ![s] = Append(@, m)] /\ mail' = mail
                       /\ \/ m = Data({<<s, cursor[s] - unsent[s] + 1>>})
                          \/ m = Barrier(injecting[s])
            BY <2>2 DEF SendRow, InjectBarrier
        <3>2. m.barrier < n
            BY <1>a, <3>1 DEF Data, Barrier
        <3>3. \A i \in DOMAIN Append(ingress[s], m) : Append(ingress[s], m)[i].barrier < n
            BY <1>0, <1>a, <3>2 DEF Older
        <3>4. Older(Append(ingress[s], m), n)
            BY <3>3 DEF Older
        <3> QED
            BY <1>0, <1>a, <3>1, <3>4 DEF IdsAtSource
    <2>3. CASE SourceForward(s)
        <3>1. /\ ingress[s] # <<>> /\ ingress' = [ingress EXCEPT ![s] = Tail(@)]
              /\ mail' = [mail EXCEPT ![s] = Append(@, Head(ingress[s]))]
            BY <2>3 DEF SourceForward
        <3>2. Older(Tail(ingress[s]), n) /\ Head(ingress[s]).barrier < n
            BY <1>0, <1>a, <3>1, OlderMoves
        <3>3. Head(ingress[s]) \in Message
            BY <1>0, <3>1, TailIndices
        <3>4. Older(Append(mail[s], Head(ingress[s])), n)
            BY <1>0, <1>a, <3>2, <3>3, OlderMoves
        <3> QED
            BY <1>0, <1>a, <3>1, <3>2, <3>4 DEF IdsAtSource
    <2> QED
        BY <2>1, <2>2, <2>3 DEF SourceSteps
<1>3. ASSUME NEW t \in Sources PROVE IdsAtSource(t, n)'
    BY <1>1, <1>2 DEF IdsAtSource, Older
<1> QED
    BY <1>3, <1>c DEF IdsBelow

\* So does the union.
LEMMA IdsUnionStep ==
    ASSUME TypeOK, UnionSteps, NEW n, IdsBelow(n), None < n
    PROVE  IdsBelow(n)'
<1>0. /\ mail \in [Sources -> Seq(Message)] /\ toWindow \in Seq(Message) /\ hand.msg \in Message
    BY DEF TypeOK
<1>a. /\ \A t \in Sources : IdsAtSource(t, n)
      /\ hand.msg.barrier < n /\ aligning < n /\ completed < n
      /\ Older(toWindow, n) /\ Older(toSink, n) /\ flushing < n /\ committed.id < n
    BY DEF IdsBelow, IdsAtUnion, IdsBehind
<1>b. /\ UNCHANGED <<cursor, unsent, cut, injecting, ingress>> /\ UNCHANGED sinkVars
      /\ UNCHANGED committed
    BY DEF UnionSteps, UnionAbandon, UnionPoll, UnionPending,
           UnionTake, UnionForward, UnionSkip, UnionBlock, UnionAlign,
           sourceVars
<1>1. ASSUME NEW t \in Sources PROVE IdsAtSource(t, n)'
    <2>1. mail'[t] = mail[t] \/ (mail[t] # <<>> /\ mail'[t] = Tail(mail[t]))
        BY <1>0 DEF UnionSteps, UnionAbandon, UnionPoll, UnionPending,
                    UnionTake, UnionForward, UnionSkip, UnionBlock,
                    UnionAlign, sourceVars, Readable
    <2>2. mail[t] \in Seq(Message) /\ Older(mail[t], n)
        BY <1>0, <1>a DEF IdsAtSource
    <2>3. Older(mail'[t], n)
        BY <2>1, <2>2, OlderMoves
    <2> QED
        BY <1>a, <1>b, <2>3 DEF IdsAtSource, Older
<1>2. IdsAtUnion(n)'
    <2>1. /\ aligning' = aligning \/ aligning' = None \/ aligning' = hand.msg.barrier
          /\ completed' = completed \/ completed' = hand.msg.barrier
        BY DEF UnionSteps, UnionAbandon, UnionPoll, UnionPending,
               UnionTake, UnionForward, UnionSkip, UnionBlock, UnionAlign
    <2>2. \/ hand' = hand \/ hand' = NoHand
          \/ \E t \in Sources : mail[t] # <<>> /\ hand' = [from |-> t, msg |-> Head(mail[t])]
        BY DEF UnionSteps, UnionAbandon, UnionPoll, UnionPending,
               UnionTake, UnionForward, UnionSkip, UnionBlock,
               UnionAlign, Readable
    <2>3. ASSUME NEW t \in Sources, mail[t] # <<>>, hand' = [from |-> t, msg |-> Head(mail[t])]
          PROVE  hand'.msg.barrier < n
        <3>1. mail[t] \in Seq(Message) /\ Older(mail[t], n)
            BY <1>0, <1>a DEF IdsAtSource
        <3>2. Head(mail[t]).barrier < n
            BY <2>3, <3>1, OlderMoves
        <3> QED
            BY <2>3, <3>2
    <2>4. hand'.msg.barrier < n
        BY <1>a, <2>2, <2>3, NoHandParts
    <2> QED
        BY <1>a, <2>1, <2>4 DEF IdsAtUnion
<1>3. IdsBehind(n)'
    <2>1. toWindow' = toWindow \/ toWindow' = Append(toWindow, hand.msg)
        BY DEF UnionSteps, UnionAbandon, UnionPoll, UnionPending,
               UnionTake, UnionForward, UnionSkip, UnionBlock,
               UnionAlign, windowVars
    <2>2. Older(toWindow', n)
        BY <1>0, <1>a, <2>1, OlderMoves
    <2> QED
        BY <1>a, <1>b, <2>2 DEF IdsBehind, Older, sinkVars
<1> QED
    BY <1>a, <1>b, <1>1, <1>2, <1>3 DEF IdsBelow

\* So do the window and the sink; the sink waits for the active id.
LEMMA IdsBehindStep ==
    ASSUME TypeOK, WindowSteps \/ SinkSteps \/ Deliver \/ DropResult, NEW n, IdsBelow(n),
           None < n, active < n
    PROVE  IdsBelow(n)'
<1>0. /\ toSink \in Seq(Message) /\ toWindow \in Seq(Message)
      /\ \A R \in SUBSET AllRows : Data(R).barrier = None /\ Data(R) \in Message
      /\ held \in SUBSET AllRows
    BY MessageParts DEF TypeOK
<1>a. /\ \A t \in Sources : IdsAtSource(t, n)
      /\ Older(toWindow, n) /\ Older(toSink, n) /\ flushing < n /\ committed.id < n
      /\ IdsAtUnion(n)
    BY DEF IdsBelow, IdsBehind
<1>b. UNCHANGED sourceVars /\ UNCHANGED unionVars /\ UNCHANGED committed
    BY DEF WindowSteps, WindowAbsorb, WindowEmit, WindowBarrier, SinkSteps, SinkSend, SinkBarrier,
           SinkAbandon, SinkFlushed, SinkTimesOut, Deliver, DropResult
<1>c. (\A t \in Sources : IdsAtSource(t, n)') /\ IdsAtUnion(n)'
    BY <1>a, <1>b, IdsStand
<1>1. Older(toWindow', n)
    <2>1. toWindow' = toWindow \/ (toWindow # <<>> /\ toWindow' = Tail(toWindow))
        BY DEF WindowSteps, WindowAbsorb, WindowEmit, WindowBarrier, SinkSteps, SinkSend,
               SinkBarrier, SinkAbandon, SinkFlushed, SinkTimesOut, Deliver, DropResult, windowVars
    <2> QED
        BY <1>0, <1>a, <2>1, OlderMoves
<1>2. flushing' < n
    <2>1. flushing' \in {flushing, None, active}
        BY DEF WindowSteps, WindowAbsorb, WindowEmit, WindowBarrier, SinkSteps, SinkSend,
               SinkBarrier, SinkAbandon, SinkFlushed, SinkTimesOut, Deliver, DropResult, sinkVars
    <2> QED
        BY <1>a, <2>1
<1>3. Older(toSink', n)
    <2>1. \/ toSink' = toSink \/ (toSink # <<>> /\ toSink' = Tail(toSink))
          \/ toSink' = Append(toSink, Data(held))
          \/ toWindow # <<>> /\ toSink' = Append(toSink, Head(toWindow))
        BY DEF WindowSteps, WindowAbsorb, WindowEmit, WindowBarrier, SinkSteps, SinkSend,
               SinkBarrier, SinkAbandon, SinkFlushed, SinkTimesOut, Deliver, DropResult, sinkVars
    <2>2. Data(held).barrier < n /\ Data(held) \in Message
        BY <1>0
    <2>3. toWindow # <<>> => Head(toWindow).barrier < n /\ Head(toWindow) \in Message
        BY <1>0, <1>a, OlderMoves, TailIndices
    <2> QED
        BY <1>0, <1>a, <2>1, <2>2, <2>3, OlderMoves
<1>4. IdsBehind(n)'
    BY <1>1, <1>2, <1>3 DEF IdsBehind, Older
<1> QED
    BY <1>a, <1>b, <1>c, <1>4 DEF IdsBelow

\* The coordinator's steps other than a commit.
LEMMA IdsCoordStep ==
    ASSUME TypeOK, Coordinate, NEW n, IdsBelow(n), active < n, nextId - 1 < n
    PROVE  IdsBelow(n)'
<1>0. cut \in [Sources -> Ids \cup {None}]
    BY DEF TypeOK
<1>a. UNCHANGED <<injecting, ingress, mail>> /\ UNCHANGED unionVars
      /\ UNCHANGED <<toWindow, toSink, flushing>>
    BY DEF Coordinate, BeginCheckpoint, SendCut, CutFailed, Refused, Aligned, Committed,
           CommitFails, Timeout, windowVars, sinkVars, sourceVars
<1>1. ASSUME NEW s \in Sources PROVE IdsAtSource(s, n)'
    <2>1. cut'[s] = cut[s] \/ cut'[s] = active
        BY <1>0 DEF Coordinate, BeginCheckpoint, SendCut, CutFailed, Refused, Aligned, Committed,
               CommitFails, Timeout, sourceVars
    <2>2. IdsAtSource(s, n)
        BY DEF IdsBelow
    <2> QED
        BY <1>a, <2>1, <2>2 DEF IdsAtSource, Older
<1>2. IdsAtUnion(n)' /\ IdsBehind(n)'
    BY <1>a, IdsStand DEF IdsBelow
<1>3. committed'.id < n
    <2>1. committed' = committed \/ committed'.id = nextId - 1
        BY DEF Coordinate, BeginCheckpoint, SendCut, CutFailed, Refused, Aligned, Committed,
               CommitFails, Timeout
    <2> QED
        BY <2>1 DEF IdsBelow
<1> QED
    BY <1>1, <1>2, <1>3 DEF IdsBelow

\* An empty job holds no id.
LEMMA IdsEmpty ==
    ASSUME NEW n \in Nat, n > 0, cut = Zero, injecting = Zero, ingress = Empty, mail = Empty,
           hand = NoHand, aligning = None, completed = None, toWindow = <<>>, toSink = <<>>,
           flushing = None, committed.id < n
    PROVE  IdsBelow(n)
<1>1. None < n /\ Older(<<>>, n)
    BY DEF None, Older
<1>2. \A s \in Sources : IdsAtSource(s, n)
    BY <1>1 DEF IdsAtSource, Zero, Empty, None
<1>3. IdsAtUnion(n) /\ IdsBehind(n)
    BY <1>1, NoHandParts DEF IdsAtUnion, IdsBehind
<1> QED
    BY <1>2, <1>3 DEF IdsBelow

-----------------------------------------------------------------------------
(* The request and the union's registers.                                  *)

\* An ACK with an id reaches the inbox only while the coordinator waits.
LEMMA InboxChanges ==
    ASSUME TypeOK, RequestPhase,
           \/ \E s \in Sources : SourceSteps(s)
           \/ UnionSteps \/ WindowSteps \/ SinkSteps \/ Deliver \/ DropResult
    PROVE  /\ UNCHANGED <<active, toCut, phase, nextId, committed>>
           /\ active = None => UNCHANGED <<acks, refused, frozen, replies>>
<1>1. ASSUME NEW s \in Sources, SourceSteps(s)
      PROVE  /\ UNCHANGED <<active, toCut, phase, nextId, committed>>
             /\ active = None => UNCHANGED <<acks, refused, frozen, replies>>
    BY <1>1 DEF SourceSteps, Poll, SendRow, TakeCut, InjectBarrier, InjectTimesOut, SourceForward,
                Ack, inboxVars, coordVars
<1>2. CASE UnionSteps
    BY <1>2 DEF UnionSteps, UnionAbandon, UnionPoll, UnionPending,
                UnionTake, UnionForward, UnionSkip, UnionBlock,
                UnionAlign, inboxVars, coordVars
<1>3. CASE WindowSteps
    BY <1>3 DEF WindowSteps, WindowAbsorb, WindowEmit, WindowBarrier, Ack, Refuse, Fault,
                inboxVars, coordVars
<1>4. CASE SinkSteps
    <2>1. UNCHANGED <<active, toCut, phase, nextId, committed, replies, frozen>>
        BY <1>4 DEF SinkSteps, SinkSend, SinkBarrier, SinkAbandon, SinkFlushed, SinkTimesOut,
                    inboxVars, coordVars
    <2>2. ASSUME active = None PROVE UNCHANGED <<acks, refused>>
        <3>1. CASE SinkSend \/ SinkBarrier \/ SinkAbandon
            BY <3>1 DEF SinkSend, SinkBarrier, SinkAbandon, inboxVars
        <3>2. CASE SinkFlushed
            <4>1. /\ flushing # None /\ (Ack(flushing, Sink) \/ UNCHANGED acks)
                  /\ Refuse(flushing) \/ UNCHANGED refused
                BY <3>2 DEF SinkFlushed
            <4>2. UNCHANGED acks
                BY <2>2, <4>1 DEF Ack
            <4>3. refused' = refused
                <5>1. refused \in BOOLEAN
                    BY DEF TypeOK
                <5>2. Refuse(flushing) => refused' = (refused \/ FALSE)
                    BY <2>2, <4>1 DEF Refuse
                <5> QED
                    BY <4>1, <5>1, <5>2
            <4> QED
                BY <4>2, <4>3
        <3>3. CASE SinkTimesOut
            BY <2>2, <3>3 DEF SinkTimesOut
        <3> QED
            BY <1>4, <3>1, <3>2, <3>3 DEF SinkSteps
    <2> QED
        BY <2>1, <2>2
<1>5. CASE Deliver \/ DropResult
    BY <1>5 DEF Deliver, DropResult, inboxVars, coordVars
<1> QED
    BY <1>1, <1>2, <1>3, <1>4, <1>5

\* The steps of the job's tasks.
Tasks ==
    \/ \E s \in Sources : SourceSteps(s)
    \/ UnionSteps \/ WindowSteps \/ SinkSteps \/ Deliver \/ DropResult

\* A step is one of the tasks, of the coordinator, or a restart.
LEMMA NextParts == Next <=> Tasks \/ Coordinate \/ Crash \/ UnionFails
BY DEF Next, Tasks

\* The request lives exactly while the coordinator waits for it.
LEMMA RequestStep ==
    ASSUME TypeOK, RequestPhase, Tasks \/ Coordinate
    PROVE  RequestPhase'
<1>0. /\ nextId \in Nat /\ nextId # None /\ active \in Ids \cup {None}
    BY Constants DEF TypeOK, None
<1>1. CASE Tasks
    <2>1. /\ UNCHANGED <<active, toCut, phase, nextId, committed>>
          /\ active = None => UNCHANGED <<acks, refused, frozen, replies>>
        BY <1>1, InboxChanges DEF Tasks
    <2>2. phase # "aligning" => UNCHANGED <<acks, refused, frozen, replies>>
        BY <2>1 DEF RequestPhase
    <2> QED
        BY <2>1, <2>2 DEF RequestPhase
<1>2. CASE BeginCheckpoint
    BY <1>0, <1>2 DEF BeginCheckpoint, RequestPhase, inboxVars
<1>3. ASSUME NEW s \in Sources, SendCut(s) PROVE RequestPhase'
    BY <1>3 DEF SendCut, RequestPhase, inboxVars
<1>4. CASE CutFailed \/ Refused \/ CommitFails \/ Timeout \/ Committed
    BY <1>4 DEF CutFailed, Refused, CommitFails, Timeout, Committed, EndRequest, RequestPhase
<1>5. CASE Aligned
    BY <1>5 DEF Aligned, Answered, RequestPhase
<1> QED
    BY <1>1, <1>2, <1>3, <1>4, <1>5 DEF Coordinate

\* Each step keeps the union's registers consistent.
LEMMA RegistersStep ==
    ASSUME TypeOK, UnionRegisters, Tasks \/ Coordinate
    PROVE  UnionRegisters'
<1>1. ASSUME UNCHANGED <<blocked, aligning, completed, hand>> PROVE UnionRegisters'
    BY <1>1 DEF UnionRegisters, Sending
<1>2. ASSUME hand' = NoHand PROVE ~Sending'
    BY <1>2 DEF Sending
<1>3. CASE UnionSteps
    <2>1. CASE UnionAbandon
        BY <2>1, <1>2 DEF UnionAbandon, UnionRegisters
    <2>2. ASSUME NEW s \in Sources, UnionTake(s) PROVE UnionRegisters'
        <3>1. /\ hand'.from = s /\ s \notin blocked
              /\ UNCHANGED <<blocked, aligning, completed>>
            BY <2>2 DEF UnionTake, Readable
        <3> QED
            BY <3>1 DEF UnionRegisters, Sending
    <2>3. CASE UnionForward \/ UnionSkip
        <3>1. hand' = NoHand /\ UNCHANGED <<blocked, aligning, completed>>
            BY <2>3 DEF UnionForward, UnionSkip
        <3> QED
            BY <1>2, <3>1 DEF UnionRegisters
    <2>4. CASE UnionBlock
        <3>1. /\ hand.msg.barrier # None /\ aligning' = hand.msg.barrier
              /\ ~(hand.msg.barrier <= completed) /\ completed' = completed
              /\ hand' = IF blocked' = Sources THEN hand ELSE NoHand
            BY <2>4 DEF UnionBlock, Arrived, Stale
        <3>2. hand.msg.barrier \in Nat /\ completed \in Nat
            <4>1. hand.msg \in Message /\ completed \in Ids \cup {None}
                BY DEF TypeOK
            <4> QED
                BY <4>1, MessageParts, IdIsNat
        <3>3. completed' < aligning'
            BY <3>1, <3>2
        <3>4. hand' # NoHand => hand' = hand /\ blocked' = Sources
            BY <3>1
        <3>5. (hand # NoHand => hand.from \in Sources) /\ aligning' # None
            BY <3>1 DEF UnionRegisters
        <3> QED
            BY <3>1, <3>3, <3>4, <3>5 DEF UnionRegisters, Sending
    <2>5. CASE UnionAlign
        <3>1. hand' = NoHand /\ aligning' = None /\ blocked' = {}
            BY <2>5 DEF UnionAlign
        <3> QED
            BY <1>2, <3>1 DEF UnionRegisters
    <2>6. CASE UnionPoll \/ UnionPending
        BY <1>1, <2>6 DEF UnionPoll, UnionPending
    <2> QED
        BY <1>3, <2>1, <2>2, <2>3, <2>4, <2>5, <2>6 DEF UnionSteps
<1>4. CASE Tasks /\ ~UnionSteps
    <2>1. UNCHANGED unionVars
        BY <1>4 DEF Tasks, SourceSteps, Poll, SendRow, TakeCut, InjectBarrier, InjectTimesOut,
                    SourceForward, WindowSteps, WindowAbsorb, WindowEmit, WindowBarrier, SinkSteps,
                    SinkSend, SinkBarrier, SinkAbandon, SinkFlushed, SinkTimesOut, Deliver,
                    DropResult
    <2> QED
        BY <1>1, <2>1 DEF unionVars
<1>5. CASE Coordinate
    <2>1. UNCHANGED unionVars
        BY <1>5 DEF Coordinate, BeginCheckpoint, SendCut, CutFailed, Refused, Aligned, Committed,
                    CommitFails, Timeout
    <2> QED
        BY <1>1, <2>1 DEF unionVars
<1> QED
    BY <1>3, <1>4, <1>5

\* Every id stays that of an attempt that has begun.
LEMMA IdsStep ==
    ASSUME TypeOK, IdsBegun, RequestPhase, Tasks \/ Coordinate
    PROVE  IdsBegun'
<1>0. PICK n \in Nat : n = nextId /\ n >= 1
    BY Constants DEF TypeOK
<1>1. IdsBelow(n) /\ None < n /\ nextId - 1 < n
    BY <1>0 DEF IdsBegun, None
<1>2. active < n
    BY <1>0, <1>1 DEF RequestPhase, None
<1>3. CASE Tasks
    <2>1. nextId' = n
        BY <1>0, <1>3, InboxChanges DEF Tasks
    <2>2. IdsBelow(n)'
        BY <1>1, <1>2, <1>3, IdsSourceStep, IdsUnionStep, IdsBehindStep DEF Tasks
    <2> QED
        BY <2>1, <2>2 DEF IdsBegun, IdsBelow, IdsAtSource, IdsAtUnion, IdsBehind, Older
<1>4. CASE Coordinate
    <2>1. nextId' = n \/ nextId' = n + 1
        BY <1>0, <1>4 DEF Coordinate, BeginCheckpoint, SendCut, CutFailed, Refused, Aligned,
                          Committed, CommitFails, Timeout, coordVars
    <2>2. CASE nextId' = n
        <3>1. IdsBelow(n)'
            BY <1>1, <1>2, <1>4, IdsCoordStep
        <3> QED
            BY <2>2, <3>1 DEF IdsBegun, IdsBelow, IdsAtSource, IdsAtUnion, IdsBehind, Older
    <2>3. CASE nextId' = n + 1
        <3>1. PICK k \in Nat : k = n + 1
            BY <1>0
        <3>2. IdsBelow(k) /\ active < k /\ nextId - 1 < k
            <4>1. active \in Nat
                BY IdIsNat DEF TypeOK
            <4> QED
                BY <1>0, <1>1, <1>2, <3>1, <4>1, IdsLater
        <3>3. IdsBelow(k)'
            BY <1>4, <3>2, IdsCoordStep
        <3> QED
            BY <2>3, <3>1, <3>3 DEF IdsBegun, IdsBelow, IdsAtSource, IdsAtUnion, IdsBehind, Older
    <2> QED
        BY <2>1, <2>2, <2>3
<1> QED
    BY <1>3, <1>4

-----------------------------------------------------------------------------
(* How a step changes the line of a source.                                *)

Decides == UnionForward \/ UnionSkip \/ UnionBlock

\* A decision of the union takes the message in its hand off the line.
LEMMA DecidesHand ==
    ASSUME UnionRegisters, Decides
    PROVE  /\ hand # NoHand /\ hand.from \in Sources /\ hand.from \notin blocked
           /\ hand' = NoHand \/ (hand' = hand /\ hand.from \in blocked')
           /\ UNCHANGED sourceVars
<1>1. /\ hand # NoHand /\ UNCHANGED sourceVars
      /\ hand' = NoHand \/ (hand' = hand /\ hand.from \in blocked')
    BY NoHandParts DEF Decides, UnionForward, UnionSkip, UnionBlock, Arrived
<1>2. hand.from \notin blocked
    <2>1. CASE UnionForward
        <3>1. hand.msg.barrier = None
            BY <2>1 DEF UnionForward
        <3> QED
            BY <1>1, <3>1 DEF UnionRegisters, Sending
    <2> QED
        BY <2>1 DEF Decides, UnionSkip, UnionBlock, Arrived
<1> QED
    BY <1>1, <1>2 DEF UnionRegisters

\* The next row of a batch is a row of the file.
LEMMA RowTyped ==
    ASSUME TypeOK, NEW s \in Sources, unsent[s] > 0, unsent[s] <= cursor[s]
    PROVE  /\ cursor[s] - unsent[s] + 1 \in 1..Rows
           /\ {<<s, cursor[s] - unsent[s] + 1>>} \in SUBSET AllRows
           /\ Data({<<s, cursor[s] - unsent[s] + 1>>}) \in Message
<1>1. cursor[s] \in 0..Rows /\ unsent[s] \in 0..Batch
    BY DEF TypeOK
<1>2. cursor[s] - unsent[s] + 1 \in 1..Rows
    BY <1>1, Constants
<1>3. {<<s, cursor[s] - unsent[s] + 1>>} \in SUBSET AllRows
    BY <1>2 DEF AllRows
<1> QED
    BY <1>2, <1>3, MessageParts

\* A line stands still, gets a row or a barrier at its end, or loses its head
\* to a decision of the union.
LEMMA LineStep ==
    ASSUME TypeOK, UnionRegisters, Tasks \/ Coordinate, NEW t \in Sources,
           \A s \in Sources : unsent[s] <= cursor[s]
    PROVE  \/ Line(t)' = Line(t)
           \/ /\ SendRow(t)
              /\ Line(t)' = Append(Line(t), Data({<<t, cursor[t] - unsent[t] + 1>>}))
           \/ /\ InjectBarrier(t)
              /\ Line(t)' = Append(Line(t), Barrier(injecting[t]))
           \/ /\ Decides /\ hand # NoHand /\ hand.from = t
              /\ Line(t) # <<>> /\ Head(Line(t)) = hand.msg /\ Line(t)' = Tail(Line(t))
<1>1. ASSUME NEW s \in Sources, SendRow(s)
      PROVE  \/ Line(t)' = Line(t)
             \/ /\ SendRow(t)
                /\ Line(t)' = Append(Line(t), Data({<<t, cursor[t] - unsent[t] + 1>>}))
    <2>1. PICK m \in Message : m = Data({<<s, cursor[s] - unsent[s] + 1>>})
        BY <1>1, RowTyped DEF SendRow
    <2>2. ingress' = [ingress EXCEPT ![s] = Append(@, m)] /\ UNCHANGED <<mail, hand, blocked>>
        BY <1>1, <2>1 DEF SendRow, unionVars
    <2> QED
        BY <1>1, <2>1, <2>2, LineAppend
<1>2. ASSUME NEW s \in Sources, InjectBarrier(s)
      PROVE  \/ Line(t)' = Line(t)
             \/ /\ InjectBarrier(t)
                /\ Line(t)' = Append(Line(t), Barrier(injecting[t]))
    <2>1. injecting[s] \in Ids
        BY <1>2 DEF InjectBarrier, TypeOK
    <2>2. PICK m \in Message : m = Barrier(injecting[s])
        BY <2>1, MessageParts
    <2>3. ingress' = [ingress EXCEPT ![s] = Append(@, m)] /\ UNCHANGED <<mail, hand, blocked>>
        BY <1>2, <2>2 DEF InjectBarrier, unionVars
    <2> QED
        BY <1>2, <2>2, <2>3, LineAppend
<1>3. ASSUME NEW s \in Sources, SourceForward(s) \/ UnionTake(s) PROVE Line(t)' = Line(t)
    BY <1>3, LineForward, LineTake
<1>4. ASSUME NEW s \in Sources, Poll(s) \/ TakeCut(s) \/ InjectTimesOut(s)
      PROVE  Line(t)' = Line(t)
    BY <1>4, LineSame DEF Poll, TakeCut, InjectTimesOut, unionVars
<1>5. CASE UnionAbandon \/ UnionAlign
    BY <1>5, LineReleased DEF UnionAbandon, UnionAlign, sourceVars
<1>6. CASE Decides
    <2>1. /\ hand # NoHand /\ hand.from \in Sources /\ hand.from \notin blocked
          /\ hand' = NoHand \/ (hand' = hand /\ hand.from \in blocked')
          /\ UNCHANGED <<mail, ingress>>
        BY <1>6, DecidesHand DEF sourceVars
    <2> QED
        BY <1>6, <2>1, LineConsume
<1>7. CASE WindowSteps \/ SinkSteps \/ Deliver \/ DropResult
    <2>1. UNCHANGED <<hand, blocked, mail, ingress>>
        BY <1>7 DEF WindowSteps, WindowAbsorb, WindowEmit, WindowBarrier, SinkSteps,
                    SinkSend, SinkBarrier, SinkAbandon, SinkFlushed, SinkTimesOut, Deliver,
                    DropResult, sourceVars, unionVars
    <2> QED
        BY <2>1, LineSame
<1>8. CASE Coordinate
    <2>1. UNCHANGED <<hand, blocked, mail, ingress>>
        BY <1>8 DEF Coordinate, BeginCheckpoint, SendCut, CutFailed, Refused, Aligned, Committed,
                    CommitFails, Timeout, sourceVars, unionVars
    <2> QED
        BY <2>1, LineSame
<1>9. CASE UnionPoll \/ UnionPending
    BY <1>9, LineSame DEF UnionPoll, UnionPending, sourceVars
<1> QED
    BY <1>1, <1>2, <1>3, <1>4, <1>5, <1>6, <1>7, <1>8, <1>9
    DEF Tasks, SourceSteps, UnionSteps, Decides

\* A source has sent no more than it has read, and its line holds its rows.
LEMMA TakenStep ==
    ASSUME TypeOK, UnionRegisters, \A s \in Sources : Taken(s), Tasks \/ Coordinate,
           NEW t \in Sources
    PROVE  Taken(t)'
<1>0. /\ cursor \in [Sources -> 0..Rows] /\ unsent \in [Sources -> 0..Batch]
      /\ injecting \in [Sources -> Ids \cup {None}]
      /\ cursor[t] \in Nat /\ unsent[t] \in Nat
    <2>1. /\ cursor \in [Sources -> 0..Rows] /\ unsent \in [Sources -> 0..Batch]
          /\ injecting \in [Sources -> Ids \cup {None}]
        BY DEF TypeOK
    <2>2. cursor[t] \in 0..Rows /\ unsent[t] \in 0..Batch
        BY <2>1
    <2> QED
        BY <2>1, <2>2, Constants
<1>a. /\ \A s \in Sources : unsent[s] <= cursor[s]
      /\ unsent[t] <= cursor[t] /\ (injecting[t] # None => unsent[t] = 0)
      /\ \A r \in RowsIn(Line(t)) : r[1] = t
    BY DEF Taken
<1>1. unsent'[t] <= cursor'[t] /\ (injecting'[t] # None => unsent'[t] = 0)
    <2>1. CASE UNCHANGED <<cursor, unsent, injecting>>
        BY <1>a, <2>1
    <2>2. ASSUME NEW s \in Sources, Poll(s)
          PROVE  unsent'[t] <= cursor'[t] /\ (injecting'[t] # None => unsent'[t] = 0)
        <3>1. PICK n \in 1..Batch : /\ cursor' = [cursor EXCEPT ![s] = @ + n]
                                    /\ unsent' = [unsent EXCEPT ![s] = n]
                                    /\ injecting' = injecting /\ injecting[s] = None
            BY <2>2 DEF Poll, Idle
        <3>2. n \in Nat
            BY <3>1, Constants
        <3> QED
            BY <1>0, <1>a, <3>1, <3>2
    <2>3. ASSUME NEW s \in Sources, SendRow(s)
          PROVE  unsent'[t] <= cursor'[t] /\ (injecting'[t] # None => unsent'[t] = 0)
        <3>1. /\ unsent' = [unsent EXCEPT ![s] = @ - 1] /\ unsent[s] > 0
              /\ cursor' = cursor /\ injecting' = injecting
            BY <2>3 DEF SendRow
        <3> QED
            BY <1>0, <1>a, <3>1
    <2>4. ASSUME NEW s \in Sources, TakeCut(s) \/ InjectBarrier(s) \/ InjectTimesOut(s)
          PROVE  unsent'[t] <= cursor'[t] /\ (injecting'[t] # None => unsent'[t] = 0)
        <3>1. /\ cursor' = cursor /\ unsent' = unsent
              /\ \E x : injecting' = [injecting EXCEPT ![s] = x] /\ (x = None \/ unsent[s] = 0)
            BY <2>4 DEF TakeCut, InjectBarrier, InjectTimesOut, Idle
        <3> QED
            BY <1>0, <1>a, <3>1
    <2>5. CASE Tasks
        <3>1. ASSUME NEW s \in Sources, SourceForward(s) PROVE UNCHANGED <<cursor, unsent, injecting>>
            BY <3>1 DEF SourceForward
        <3>2. CASE UnionSteps
            BY <2>1, <3>2 DEF UnionSteps, UnionAbandon, UnionPoll, UnionPending,
                    UnionTake, UnionForward, UnionSkip,
                    UnionBlock, UnionAlign, sourceVars
        <3>3. CASE WindowSteps \/ SinkSteps \/ Deliver \/ DropResult
            BY <2>1, <3>3 DEF WindowSteps, WindowAbsorb, WindowEmit, WindowBarrier, SinkSteps,
                    SinkSend, SinkBarrier, SinkAbandon, SinkFlushed, SinkTimesOut, Deliver,
                    DropResult, sourceVars
        <3> QED
            BY <2>1, <2>2, <2>3, <2>4, <2>5, <3>1, <3>2, <3>3 DEF Tasks, SourceSteps
    <2>6. CASE Coordinate
        BY <2>1, <2>6 DEF Coordinate, BeginCheckpoint, SendCut, CutFailed, Refused, Aligned,
                    Committed, CommitFails, Timeout, sourceVars
    <2> QED
        BY <2>5, <2>6
<1>2. \A r \in RowsIn(Line(t)') : r[1] = t
    <2>0. Line(t) \in Seq(Message)
        BY LineTyped
    <2>1. ASSUME NEW q, q = Line(t)' PROVE \A r \in RowsIn(q) : r[1] = t
        <3>1. CASE q = Line(t)
            BY <1>a, <3>1
        <3>2. ASSUME SendRow(t), q = Append(Line(t), Data({<<t, cursor[t] - unsent[t] + 1>>}))
              PROVE  \A r \in RowsIn(q) : r[1] = t
            <4>1. PICK x : x = cursor[t] - unsent[t] + 1
                OBVIOUS
            <4>2. Data({<<t, x>>}) \in Message /\ Data({<<t, x>>}).rows = {<<t, x>>}
                BY <1>a, <3>2, <4>1, RowTyped, MessageParts DEF SendRow
            <4>3. RowsIn(q) = RowsIn(Line(t)) \cup {<<t, x>>}
                BY <2>0, <3>2, <4>1, <4>2, RowsAppend
            <4> QED
                BY <1>a, <4>3
        <3>3. ASSUME InjectBarrier(t), q = Append(Line(t), Barrier(injecting[t]))
              PROVE  \A r \in RowsIn(q) : r[1] = t
            <4>1. Barrier(injecting[t]) \in Message /\ Barrier(injecting[t]).rows = {}
                BY <1>0, <3>3, MessageParts DEF InjectBarrier
            <4>2. RowsIn(q) = RowsIn(Line(t)) \cup {}
                BY <2>0, <3>3, <4>1, RowsAppend
            <4> QED
                BY <1>a, <4>2
        <3>4. ASSUME Line(t) # <<>>, q = Tail(Line(t)) PROVE \A r \in RowsIn(q) : r[1] = t
            BY <1>a, <2>0, <3>4, RowsTail
        <3> QED
            BY <1>a, <2>1, <3>1, <3>2, <3>3, <3>4, LineStep
    <2> QED
        BY <2>1
<1> QED
    BY <1>1, <1>2 DEF Taken, RowsIn

-----------------------------------------------------------------------------
(* How a step changes what is under way and what was delivered.            *)

\* Rows under way come from the files and end outside.
Flow ==
    /\ delivered \subseteq delivered'
    /\ \A s \in Sources : cursor[s] <= cursor'[s]
    /\ \A r \in InFlight' :
          r \in InFlight \/ (r \in AllRows /\ cursor[r[1]] < r[2] /\ r[2] <= cursor'[r[1]])
    /\ failed' = 0 =>
          /\ failed = 0 /\ InFlight \subseteq InFlight' \cup delivered'
          /\ \A r \in AllRows : cursor[r[1]] < r[2] /\ r[2] <= cursor'[r[1]] => r \in InFlight'

\* A step that reads nothing only moves rows.
LEMMA FlowStill ==
    ASSUME TypeOK, FlowsIn, FlowsOut, UNCHANGED cursor, delivered \subseteq delivered'
    PROVE  Flow
<1>0. cursor \in [Sources -> 0..Rows] /\ \A s \in Sources : cursor[s] \in Nat
    BY Constants DEF TypeOK
<1>1. \A s \in Sources : cursor[s] <= cursor'[s]
    BY <1>0
<1>2. \A r \in AllRows : ~(cursor[r[1]] < r[2] /\ r[2] <= cursor'[r[1]])
    <2> TAKE r \in AllRows
    <2>1. r[1] \in Sources /\ r[2] \in Nat
        BY RowParts, Constants
    <2> QED
        BY <1>0, <2>1
<1> QED
    BY <1>1, <1>2 DEF Flow, FlowsIn, FlowsOut

\* take_file_batch brings the rows it read under way.
LEMMA FlowPoll ==
    ASSUME TypeOK, NEW s \in Sources, Poll(s)
    PROVE  Flow
<1>0. cursor \in [Sources -> 0..Rows] /\ unsent \in [Sources -> 0..Batch]
      /\ \A t \in Sources : cursor[t] \in Nat
    <2>1. cursor \in [Sources -> 0..Rows] /\ unsent \in [Sources -> 0..Batch]
        BY DEF TypeOK
    <2> QED
        BY <2>1, Constants
<1>1. PICK n \in 1..Batch : /\ cursor[s] + n <= Rows
                            /\ cursor' = [cursor EXCEPT ![s] = @ + n]
                            /\ unsent' = [unsent EXCEPT ![s] = n]
    BY DEF Poll
<1>a. PICK c \in Nat : c = cursor[s]
    BY <1>0
<1>b. n \in Nat /\ n >= 1 /\ unsent[s] = 0 /\ c + n <= Rows
      /\ cursor'[s] = c + n /\ unsent'[s] = n
    BY <1>0, <1>1, <1>a, Constants DEF Poll, Idle
<1>2. UNCHANGED <<ingress, mail, hand, toWindow, held, toSink, outbox, failed, delivered>>
    BY DEF Poll, unionVars, windowVars, sinkVars
<1>3. \A t \in Sources : t # s => Unsent(t)' = Unsent(t)
    <2> SUFFICES ASSUME NEW t \in Sources, t # s PROVE Unsent(t)' = Unsent(t)
        OBVIOUS
    <2>1. cursor'[t] = cursor[t] /\ unsent'[t] = unsent[t]
        BY <1>0, <1>1
    <2> QED
        BY <2>1 DEF Unsent
<1>4. Unsent(s) = {}
    BY <1>a, <1>b DEF Unsent
<1>5. Unsent(s)' = {<<s, k>> : k \in c + 1..c + n}
    <2>1. c + n - n + 1 = c + 1
        BY <1>a, <1>b
    <2> QED
        BY <1>b, <2>1 DEF Unsent
<1>6. ASSUME NEW k \in c + 1..c + n
      PROVE  /\ <<s, k>> \in AllRows /\ <<s, k>>[1] = s /\ <<s, k>>[2] = k
             /\ c < k /\ k <= c + n
    BY <1>a, <1>b, Constants DEF AllRows
<1>7. \A r \in InFlight' :
          r \in InFlight \/ (r \in AllRows /\ cursor[r[1]] < r[2] /\ r[2] <= cursor'[r[1]])
    <2> SUFFICES ASSUME NEW r \in InFlight', r \notin InFlight
                 PROVE  r \in AllRows /\ cursor[r[1]] < r[2] /\ r[2] <= cursor'[r[1]]
        OBVIOUS
    <2>1. r \in Unsent(s)'
        BY <1>2, <1>3, FlightMember
    <2>2. PICK k \in c + 1..c + n : r = <<s, k>>
        BY <1>5, <2>1
    <2> QED
        BY <1>a, <1>b, <1>6, <2>2
<1>8. InFlight \subseteq InFlight'
    <2> SUFFICES ASSUME NEW r \in InFlight PROVE r \in InFlight'
        OBVIOUS
    <2>1. ASSUME NEW t \in Sources, r \in Unsent(t) PROVE r \in InFlight'
        <3>1. t # s
            BY <1>4, <2>1
        <3>2. r \in Unsent(t)'
            BY <1>3, <2>1, <3>1
        <3> QED
            BY <3>2, FlightMember
    <2>2. ~(\E t \in Sources : r \in Unsent(t)) => r \in InFlight'
        BY <1>2, FlightMember
    <2> QED
        BY <2>1, <2>2
<1>9. ASSUME NEW r \in AllRows, cursor[r[1]] < r[2], r[2] <= cursor'[r[1]]
      PROVE  r \in InFlight'
    <2>0. r[1] \in Sources /\ r[2] \in Nat /\ r = <<r[1], r[2]>>
        BY RowParts, Constants
    <2>1. r[1] = s
        <3>1. ASSUME r[1] # s PROVE FALSE
            <4>1. cursor'[r[1]] = cursor[r[1]] /\ cursor[r[1]] \in Nat
                BY <1>0, <1>1, <2>0, <3>1
            <4> QED
                BY <1>9, <2>0, <4>1
        <3> QED
            BY <3>1
    <2>2. r[2] \in c + 1..c + n
        BY <1>9, <1>a, <1>b, <2>0, <2>1
    <2>3. r \in Unsent(s)'
        BY <1>5, <2>0, <2>1, <2>2
    <2> QED
        BY <2>3, FlightMember
<1>10. \A t \in Sources : cursor[t] <= cursor'[t]
    <2> TAKE t \in Sources
    <2>1. cursor'[t] = cursor[t] \/ (t = s /\ cursor'[t] = c + n)
        BY <1>0, <1>1, <1>b
    <2> QED
        BY <1>0, <1>a, <1>b, <2>1
<1> QED
    BY <1>2, <1>7, <1>8, <1>9, <1>10 DEF Flow

\* Every step of a running job moves rows from the files to the outside.
LEMMA FlowStep ==
    ASSUME TypeOK, \A s \in Sources : Taken(s), Tasks \/ Coordinate
    PROVE  Flow
<1>1. ASSUME NEW s \in Sources, Poll(s) PROVE Flow
    BY <1>1, FlowPoll
<1>2. ASSUME NEW s \in Sources, SendRow(s) \/ InjectBarrier(s) \/ SourceForward(s) \/ UnionTake(s)
      PROVE  Flow
    <2>1. FlowsIn /\ FlowsOut
        BY <1>2, FlowSource, FlowInject, FlowForward, FlowTake DEF Taken
    <2>2. UNCHANGED <<cursor, delivered>>
        BY <1>2 DEF SendRow, InjectBarrier, SourceForward, UnionTake
    <2> QED
        BY <2>1, <2>2, FlowStill
<1>3. ASSUME NEW s \in Sources, TakeCut(s) \/ InjectTimesOut(s) PROVE Flow
    <2>1. /\ SourcesStand
          /\ UNCHANGED <<hand, toWindow, held, toSink, outbox, failed, delivered>>
        BY <1>3 DEF TakeCut, InjectTimesOut, SourcesStand, unionVars, windowVars, sinkVars
    <2> QED
        BY <2>1, FlowSame, FlowStill DEF SourcesStand
<1>4. CASE Decides \/ UnionAlign
    <2>1. UNCHANGED <<cursor, delivered>>
        BY <1>4 DEF Decides, UnionForward, UnionSkip, UnionBlock, UnionAlign, sourceVars
    <2> QED
        BY <1>4, <2>1, FlowUnion, FlowStill DEF Decides
<1>5. CASE WindowSteps
    <2>1. UNCHANGED <<cursor, delivered>>
        BY <1>5 DEF WindowSteps, WindowAbsorb, WindowEmit, WindowBarrier, sourceVars
    <2> QED
        BY <1>5, <2>1, FlowWindow, FlowStill
<1>6. CASE SinkSend \/ SinkBarrier
    <2>1. UNCHANGED <<cursor, delivered>>
        BY <1>6 DEF SinkSend, SinkBarrier, sourceVars
    <2> QED
        BY <1>6, <2>1, FlowSink, FlowStill
<1>7. CASE Deliver \/ DropResult
    <2>1. UNCHANGED cursor /\ delivered \subseteq delivered'
        BY <1>7 DEF Deliver, DropResult, sourceVars
    <2> QED
        BY <1>7, <2>1, FlowOut, FlowStill
<1>8. CASE UnionAbandon \/ UnionPoll \/ UnionPending \/ SinkAbandon \/ SinkFlushed \/ SinkTimesOut
    <2>1. /\ SourcesStand
          /\ UNCHANGED <<hand, toWindow, held, toSink, outbox, failed, delivered>>
        BY <1>8 DEF UnionAbandon, UnionPoll, UnionPending, SinkAbandon, SinkFlushed,
                    SinkTimesOut, SourcesStand, sourceVars, unionVars, windowVars, sinkVars
    <2> QED
        BY <2>1, FlowSame, FlowStill DEF SourcesStand
<1>9. CASE Coordinate
    <2>1. /\ SourcesStand
          /\ UNCHANGED <<hand, toWindow, held, toSink, outbox, failed, delivered>>
        BY <1>9 DEF Coordinate, BeginCheckpoint, SendCut, CutFailed, Refused, Aligned, Committed,
                    CommitFails, Timeout, SourcesStand, sourceVars, unionVars, windowVars, sinkVars
    <2> QED
        BY <2>1, FlowSame, FlowStill DEF SourcesStand
<1> QED
    BY <1>1, <1>2, <1>3, <1>4, <1>5, <1>6, <1>7, <1>8, <1>9
    DEF Tasks, SourceSteps, UnionSteps, SinkSteps, Decides

\* What is under way are rows of the files.
LEMMA FlightTyped ==
    ASSUME TypeOK, \A s \in Sources : Taken(s)
    PROVE  InFlight \subseteq AllRows
<1> SUFFICES ASSUME NEW r \in InFlight PROVE r \in AllRows
    OBVIOUS
<1>0. /\ \A s \in Sources : ingress[s] \in Seq(Message) /\ mail[s] \in Seq(Message)
      /\ toWindow \in Seq(Message) /\ toSink \in Seq(Message) /\ outbox \in Seq(Message)
      /\ held \in SUBSET AllRows /\ hand.msg \in Message
    BY DEF TypeOK
<1>1. ASSUME NEW s \in Sources, r \in Unsent(s) PROVE r \in AllRows
    <2>1. PICK k \in cursor[s] - unsent[s] + 1..cursor[s] : r = <<s, k>>
        BY <1>1 DEF Unsent
    <2>2. cursor[s] \in 0..Rows /\ unsent[s] \in 0..Batch /\ unsent[s] <= cursor[s]
        BY DEF TypeOK, Taken
    <2>3. k \in 1..Rows
        BY <2>1, <2>2, Constants
    <2> QED
        BY <2>1, <2>3 DEF AllRows
<1>2. ASSUME NEW s \in Sources, r \in RowsIn(ingress[s]) \/ r \in RowsIn(mail[s])
      PROVE  r \in AllRows
    BY <1>0, <1>2, RowsInChannel
<1>3. r \in RowsIn(toWindow) \/ r \in RowsIn(toSink) \/ r \in RowsIn(outbox) => r \in AllRows
    BY <1>0, RowsInChannel
<1>4. r \in hand.msg.rows \/ r \in held => r \in AllRows
    BY <1>0, MessageParts
<1> QED
    BY <1>1, <1>2, <1>3, <1>4, FlightMember

\* No row that was read is lost unless a result was dropped.
LEMMA AccountedStep ==
    ASSUME TypeOK, TypeOK', \A s \in Sources : Taken(s), Accounted, Tasks \/ Coordinate
    PROVE  Accounted'
<1>0. /\ Flow /\ InFlight \subseteq AllRows
      /\ \A s \in Sources : cursor[s] \in Nat /\ cursor'[s] \in Nat
    <2>1. cursor \in [Sources -> 0..Rows] /\ cursor' \in [Sources -> 0..Rows]
        BY DEF TypeOK
    <2> QED
        BY <2>1, FlowStep, FlightTyped, Constants
<1>a. \A r \in AllRows : r[1] \in Sources /\ r[2] \in Nat
    BY RowParts, Constants
<1>1. ASSUME NEW r \in InFlight' PROVE r[2] <= cursor'[r[1]]
    <2>1. CASE r \in InFlight
        <3>1. r[2] <= cursor[r[1]] /\ r[1] \in Sources /\ r[2] \in Nat
            BY <1>0, <1>a, <2>1 DEF Accounted
        <3>2. cursor[r[1]] <= cursor'[r[1]]
            BY <1>0, <3>1 DEF Flow
        <3> QED
            BY <1>0, <3>1, <3>2
    <2> QED
        BY <1>0, <1>1, <2>1 DEF Flow
<1>2. marked' = 0
    <2>1. marked' = marked \/ (failed = marked /\ marked' = failed)
        <3>1. CASE Tasks
            BY <3>1 DEF Tasks, SourceSteps, Poll, SendRow, TakeCut, InjectBarrier, InjectTimesOut,
                SourceForward, UnionSteps, UnionAbandon, UnionPoll, UnionPending,
                UnionTake, UnionForward, UnionSkip,
                UnionBlock, UnionAlign, WindowSteps, WindowAbsorb, WindowEmit, WindowBarrier,
                SinkSteps, SinkSend, SinkBarrier, SinkAbandon, SinkFlushed, SinkTimesOut, Deliver,
                DropResult, sinkVars
        <3>2. CASE Coordinate
            BY <3>2 DEF Coordinate, BeginCheckpoint, SendCut, CutFailed, Refused, Aligned, Committed,
                CommitFails, Timeout, sinkVars
        <3> QED
            BY <3>1, <3>2
    <2> QED
        BY <2>1 DEF Accounted
<1>3. failed' <= drops'
    <2>0. failed \in Nat /\ drops \in Nat /\ failed <= drops
        BY Constants DEF TypeOK, Accounted
    <2>1. UNCHANGED <<failed, drops>> \/ (failed' = failed + 1 /\ drops' = drops + 1)
        <3>1. CASE Tasks
            BY <3>1 DEF Tasks, SourceSteps, Poll, SendRow, TakeCut, InjectBarrier, InjectTimesOut,
                SourceForward, UnionSteps, UnionAbandon, UnionPoll, UnionPending,
                UnionTake, UnionForward, UnionSkip,
                UnionBlock, UnionAlign, WindowSteps, WindowAbsorb, WindowEmit, WindowBarrier,
                SinkSteps, SinkSend, SinkBarrier, SinkAbandon, SinkFlushed, SinkTimesOut, Deliver,
                DropResult, sinkVars, boundVars
        <3>2. CASE Coordinate
            BY <3>2 DEF Coordinate, BeginCheckpoint, SendCut, CutFailed, Refused, Aligned, Committed,
                CommitFails, Timeout, sinkVars, boundVars
        <3> QED
            BY <3>1, <3>2
    <2> QED
        BY <2>0, <2>1
<1>4. ASSUME failed' = 0, NEW r \in AllRows, r[2] <= cursor'[r[1]]
      PROVE  r \in InFlight' \cup delivered'
    <2>1. CASE r[2] <= cursor[r[1]]
        <3>1. r \in InFlight \cup delivered
            BY <1>0, <1>4, <2>1 DEF Flow, Accounted
        <3> QED
            BY <1>0, <1>4, <3>1 DEF Flow
    <2>2. CASE cursor[r[1]] < r[2]
        BY <1>0, <1>4, <2>2 DEF Flow
    <2>3. r[2] \in Nat /\ cursor[r[1]] \in Nat
        BY <1>0, <1>a
    <2>4. r[2] <= cursor[r[1]] \/ cursor[r[1]] < r[2]
        BY <2>3
    <2> QED
        BY <2>1, <2>2, <2>4
<1> QED
    BY <1>1, <1>2, <1>3, <1>4 DEF Accounted

\* What can be restarted from stays so.
LEMMA SafeStep ==
    ASSUME TypeOK, TypeOK', \A s \in Sources : Taken(s), Tasks \/ Coordinate,
           NEW pos \in [Sources -> 0..Rows], NEW h, Safe(pos, h)
    PROVE  Safe(pos, h)'
<1>0. /\ Flow
      /\ \A s \in Sources : cursor[s] \in Nat /\ cursor'[s] \in Nat /\ pos[s] \in Nat
    <2>1. cursor \in [Sources -> 0..Rows] /\ cursor' \in [Sources -> 0..Rows]
        BY DEF TypeOK
    <2> QED
        BY <2>1, FlowStep, Constants
<1>1. ASSUME NEW s \in Sources PROVE pos[s] <= cursor'[s]
    <2>1. pos[s] <= cursor[s] /\ cursor[s] <= cursor'[s]
        BY <1>0 DEF Safe, Flow
    <2> QED
        BY <1>0, <2>1
<1>2. h \subseteq Before(pos) /\ Before(pos) \subseteq delivered' \cup h
    BY <1>0 DEF Safe, Flow
<1>3. ASSUME NEW r \in InFlight', r \in Before(pos) PROVE r \in h
    <2>1. CASE r \in InFlight
        BY <1>3, <2>1 DEF Safe
    <2>2. CASE r \notin InFlight
        <3>1. r \in AllRows /\ cursor[r[1]] < r[2] /\ r[2] <= pos[r[1]]
            BY <1>0, <1>3, <2>2 DEF Flow, Before
        <3>2. r[1] \in Sources /\ r[2] \in Nat
            BY <3>1, RowParts, Constants
        <3>3. pos[r[1]] <= cursor[r[1]]
            BY <3>2 DEF Safe
        <3> QED
            BY <1>0, <3>1, <3>2, <3>3
    <2> QED
        BY <2>1, <2>2
<1> QED
    BY <1>1, <1>2, <1>3 DEF Safe, Before

-----------------------------------------------------------------------------
(* The start of a job.                                                     *)

\* A job that has just been started from the committed snapshot.
Fresh ==
    /\ cursor = committed.pos /\ held = committed.held
    /\ unsent = Zero /\ cut = Zero /\ injecting = Zero
    /\ ingress = Empty /\ mail = Empty
    /\ blocked = {} /\ aligning = None /\ completed = None /\ hand = NoHand
    /\ toWindow = <<>> /\ toSink = <<>> /\ flushing = None /\ outbox = <<>>
    /\ failed = 0 /\ marked = 0
    /\ active = None /\ toCut = {} /\ replies = NoReplies
    /\ acks = {} /\ refused = FALSE
    /\ phase = "idle"

Restartable ==
    /\ committed.id < nextId
    /\ committed.held \subseteq Before(committed.pos)
    /\ Before(committed.pos) \subseteq delivered \cup committed.held

\* A job started from a snapshot that can be restarted from satisfies the
\* invariant.
LEMMA FreshInvariant == TypeOK /\ Fresh /\ Restartable => GraphInv
<1> SUFFICES ASSUME TypeOK, Fresh, Restartable PROVE GraphInv
    OBVIOUS
<1>0. /\ nextId \in Nat /\ nextId > 0 /\ drops \in Nat
      /\ \A s \in Sources : cursor[s] \in Nat
    BY Constants DEF TypeOK
<1>1. IdsBegun
    BY <1>0, IdsEmpty DEF IdsBegun, Fresh, Restartable
<1>2. RequestPhase
    BY DEF RequestPhase, Fresh
<1>3. UnionRegisters
    BY DEF UnionRegisters, Sending, Fresh
<1>4. ASSUME NEW s \in Sources
      PROVE  /\ Unsent(s) = {} /\ RowsIn(ingress[s]) = {} /\ RowsIn(mail[s]) = {}
             /\ unsent[s] = 0 /\ injecting[s] = None
    <2>1. unsent[s] = 0 /\ injecting[s] = None /\ ingress[s] = <<>> /\ mail[s] = <<>>
        BY DEF Fresh, Zero, Empty, None
    <2>2. Unsent(s) = {}
        BY <1>0, <2>1 DEF Unsent
    <2> QED
        BY <2>1, <2>2, RowsNone
<1>5. ASSUME NEW s \in Sources PROVE Taken(s)
    <2>1. HandOf(s) = <<>>
        BY DEF HandOf, Fresh
    <2>2. RowsIn(Line(s)) = {}
        BY <1>4, <2>1, LineRows, RowsNone
    <2> QED
        BY <1>0, <1>4, <2>2 DEF Taken
<1>6. \A r : r \in InFlight <=> r \in committed.held
    <2>1. /\ RowsIn(toWindow) = {} /\ RowsIn(toSink) = {} /\ RowsIn(outbox) = {}
          /\ hand.msg.rows = {} /\ held = committed.held
        BY RowsNone, NoHandParts DEF Fresh
    <2> QED
        BY <1>4, <2>1, FlightMember
<1>7. Accounted
    <2>1. \A r \in InFlight : r[2] <= cursor[r[1]]
        BY <1>6 DEF Restartable, Before, Fresh
    <2>2. \A r \in AllRows : r[2] <= cursor[r[1]] => r \in InFlight \cup delivered
        BY <1>6 DEF Restartable, Before, Fresh
    <2>3. marked = 0 /\ failed <= drops
        BY <1>0 DEF Fresh
    <2> QED
        BY <2>1, <2>2, <2>3 DEF Accounted
<1>8. Safe(committed.pos, committed.held)
    <2>1. \A s \in Sources : committed.pos[s] <= cursor[s]
        BY <1>0 DEF Fresh
    <2> QED
        BY <1>6, <2>1 DEF Safe, Restartable
<1>9. Attempt /\ phase # "committing"
    BY DEF Attempt, Fresh
<1> QED
    BY <1>1, <1>2, <1>3, <1>5, <1>7, <1>8, <1>9 DEF GraphInv

\* So does the first start, from nothing.
LEMMA InitInvariant == Init => GraphInv
<1> SUFFICES ASSUME Init PROVE GraphInv
    OBVIOUS
<1>1. TypeOK
    BY TypeInit
<1>2. Fresh
    BY DEF Init, Fresh
<1>3. Restartable
    <2>1. committed.pos = Zero /\ committed.held = {} /\ committed.id = 0 /\ nextId = 1
        BY DEF Init, None
    <2>2. Before(Zero) = {}
        <3>1. ASSUME NEW r \in AllRows PROVE ~(r[2] <= Zero[r[1]])
            <4>1. r[1] \in Sources /\ r[2] \in Nat /\ r[2] >= 1
                BY RowParts, Constants
            <4>2. Zero[r[1]] = 0
                BY <4>1 DEF Zero
            <4> QED
                BY <4>1, <4>2
        <3> QED
            BY <3>1 DEF Before
    <2> QED
        BY <2>1, <2>2 DEF Restartable
<1> QED
    BY <1>1, <1>2, <1>3, FreshInvariant

\* A restart reads on from the last committed snapshot.
LEMMA CrashInvariant ==
    ASSUME GraphInv, Crash \/ UnionFails
    PROVE  GraphInv'
<1>0. Restart /\ crashes' \in 0..MaxCrashes
    <2>1. crashes \in 0..MaxCrashes
        BY DEF GraphInv, TypeOK
    <2>2. CASE Crash
        BY <2>1, <2>2, Constants DEF Crash
    <2>3. CASE UnionFails
        BY <2>1, <2>3 DEF UnionFails
    <2> QED
        BY <2>2, <2>3
<1>1. TypeOK'
    BY <1>0, TypeRestart DEF GraphInv
<1>2. Fresh'
    BY <1>0 DEF Restart, EndRequest, SeekTo, Fresh
<1>3. Restartable'
    <2>1. UNCHANGED <<committed, delivered>> /\ nextId' \in committed.id + 1..nextId
        BY <1>0 DEF Restart
    <2>2. committed.id \in Nat /\ nextId \in Nat
        BY IdIsNat, Constants DEF GraphInv, TypeOK
    <2>3. committed.id < nextId'
        BY <2>1, <2>2
    <2>4. Safe(committed.pos, committed.held)
        BY DEF GraphInv
    <2> QED
        BY <2>1, <2>3, <2>4 DEF Safe, Restartable, Before
<1>4. (TypeOK /\ Fresh /\ Restartable => GraphInv)'
    BY FreshInvariant, PTL
<1> QED
    BY <1>1, <1>2, <1>3, <1>4

-----------------------------------------------------------------------------
(* The active attempt: what its parts say together.                        *)

\* The parts of the invariant while an attempt is active.
LEMMA ActiveId ==
    ASSUME GraphInv, active # None
    PROVE  /\ active \in Ids /\ active \in Nat /\ completed \in Nat
           /\ completed <= active /\ ~(active <= completed /\ completed # active)
           /\ Attempt /\ UnionRegisters /\ TypeOK /\ (\A s \in Sources : Taken(s))
           /\ \A s \in Sources : Asking(s) /\ Dividing(s)
           /\ NotAligned /\ Passing /\ Unfrozen /\ Freezing
<1>1. /\ active \in Ids /\ active \in Nat /\ completed \in Nat /\ nextId \in Nat
    BY IdIsNat, Constants DEF GraphInv, TypeOK
<1>2. active = nextId - 1 /\ completed < nextId
    BY DEF GraphInv, RequestPhase, IdsBegun, IdsBelow, IdsAtUnion
<1>3. Attempt /\ UnionRegisters /\ TypeOK /\ (\A s \in Sources : Taken(s))
    BY DEF GraphInv
<1> QED
    BY <1>1, <1>2, <1>3 DEF Attempt

\* Behind an aligned union every source has answered and no barrier is left
\* in front of it.
LEMMA AllDone ==
    ASSUME GraphInv, active # None, completed = active
    PROVE  \A s \in Sources : Done(s) /\ Injected(s) /\ ~Has(Line(s), active)
<1> SUFFICES ASSUME NEW s \in Sources PROVE Done(s) /\ Injected(s) /\ ~Has(Line(s), active)
    OBVIOUS
<1>1. Done(s)
    BY DEF Done
<1>2. Asking(s) /\ Dividing(s)
    BY ActiveId
<1> QED
    BY <1>1, <1>2 DEF Asking, Dividing

\* What the stages behind the union know of the attempt they know from its
\* barrier.
LEMMA Downstream ==
    ASSUME GraphInv, active # None
    PROVE  /\ \/ Has(toWindow, active) \/ Has(toSink, active) \/ flushing = active
              \/ Window \in acks \/ Sink \in acks
              => completed = active
           /\ Window \in acks => ~Has(toWindow, active)
BY ActiveId DEF NotAligned, Passing

\* An answer is given once.
LEMMA ReplyStep ==
    ASSUME GraphInv, active # None, Tasks, NEW t \in Sources
    PROVE  /\ UNCHANGED <<active, toCut>>
           /\ Injected(t) => replies'[t] = replies[t]
           /\ Injected(t)' /\ ~Injected(t) =>
                 InjectBarrier(t) /\ injecting[t] = active /\ replies'[t] = cursor[t]
           /\ ~(\E s \in Sources : SourceSteps(s)) => replies' = replies
           /\ replies'[t] = replies[t] \/ (injecting[t] = active /\ injecting'[t] = None)
<1>0. /\ replies \in [Sources -> 0..Rows \cup {Waiting, Lost}] /\ RequestPhase
      /\ injecting \in [Sources -> Ids \cup {None}]
    BY DEF GraphInv, TypeOK
<1>a. ~(Waiting \in 0..Rows) /\ ~(Lost \in 0..Rows)
    BY Constants DEF Waiting, Lost
<1>b. UNCHANGED <<active, toCut>>
    BY <1>0, ActiveId, InboxChanges DEF Tasks
<1>c. \A s \in Sources : injecting[s] = active => replies[s] = Waiting
    BY ActiveId DEF Asking
<1>d. ASSUME UNCHANGED replies
      PROVE  /\ Injected(t) => replies'[t] = replies[t]
             /\ ~(Injected(t)' /\ ~Injected(t)) /\ replies'[t] = replies[t]
    BY <1>d DEF Injected
<1>1. ASSUME NEW s \in Sources, InjectBarrier(s)
      PROVE  /\ Injected(t) => replies'[t] = replies[t]
             /\ Injected(t)' /\ ~Injected(t) =>
                 InjectBarrier(t) /\ injecting[t] = active /\ replies'[t] = cursor[t]
             /\ replies'[t] = replies[t] \/ (injecting[t] = active /\ injecting'[t] = None)
    <2>1. /\ replies' = IF injecting[s] = active THEN [replies EXCEPT ![s] = cursor[s]] ELSE replies
          /\ injecting' = [injecting EXCEPT ![s] = None]
        BY <1>1 DEF InjectBarrier
    <2>2. CASE injecting[s] = active /\ t = s
        BY <1>0, <1>1, <1>a, <1>c, <2>1, <2>2 DEF Injected
    <2>3. CASE injecting[s] # active \/ t # s
        <3>1. replies'[t] = replies[t]
            BY <1>0, <2>1, <2>3
        <3> QED
            BY <3>1 DEF Injected
    <2> QED
        BY <2>2, <2>3
<1>2. ASSUME NEW s \in Sources, InjectTimesOut(s)
      PROVE  /\ Injected(t) => replies'[t] = replies[t]
             /\ ~(Injected(t)' /\ ~Injected(t))
             /\ replies'[t] = replies[t] \/ (injecting[t] = active /\ injecting'[t] = None)
    <2>1. /\ replies' = IF injecting[s] = active THEN [replies EXCEPT ![s] = Lost] ELSE replies
          /\ injecting' = [injecting EXCEPT ![s] = None]
        BY <1>2 DEF InjectTimesOut
    <2>2. CASE injecting[s] = active /\ t = s
        BY <1>0, <1>a, <1>c, <2>1, <2>2 DEF Injected
    <2>3. CASE injecting[s] # active \/ t # s
        <3>1. replies'[t] = replies[t]
            BY <1>0, <2>1, <2>3
        <3> QED
            BY <3>1 DEF Injected
    <2> QED
        BY <2>2, <2>3
<1>3. ASSUME NEW s \in Sources, Poll(s) \/ SendRow(s) \/ TakeCut(s) \/ SourceForward(s)
      PROVE  UNCHANGED replies
    BY <1>3 DEF Poll, SendRow, TakeCut, SourceForward, coordVars
<1>4. ASSUME ~(\E s \in Sources : SourceSteps(s)) PROVE UNCHANGED replies
    BY <1>4 DEF Tasks, UnionSteps, UnionAbandon, UnionPoll, UnionPending,
    UnionTake, UnionForward, UnionSkip,
                UnionBlock, UnionAlign, WindowSteps, WindowAbsorb, WindowEmit, WindowBarrier,
                SinkSteps, SinkSend, SinkBarrier, SinkAbandon, SinkFlushed, SinkTimesOut, Deliver,
                DropResult, coordVars
<1>5. ASSUME NEW s \in Sources, SourceSteps(s)
      PROVE  /\ Injected(t) => replies'[t] = replies[t]
             /\ Injected(t)' /\ ~Injected(t) =>
                 InjectBarrier(t) /\ injecting[t] = active /\ replies'[t] = cursor[t]
             /\ replies'[t] = replies[t] \/ (injecting[t] = active /\ injecting'[t] = None)
    BY <1>d, <1>1, <1>2, <1>3, <1>5 DEF SourceSteps
<1> QED
    BY <1>b, <1>d, <1>4, <1>5

\* So the rows before an answer stay the same.
LEMMA BeforeStep ==
    ASSUME GraphInv, active # None, Tasks
    PROVE  /\ (\A s \in Sources : Injected(s)) => replies' = replies
           /\ \A r \in AllRows :
                 /\ Injected(r[1]) =>
                       Injected(r[1])' /\ (r \in Before(replies') <=> r \in Before(replies))
                 /\ r[2] <= cursor[r[1]] /\ (Injected(r[1]) => r \in Before(replies)) =>
                       (Injected(r[1])' => r \in Before(replies'))
<1>0. /\ replies \in [Sources -> 0..Rows \cup {Waiting, Lost}]
      /\ replies' \in [Sources -> 0..Rows \cup {Waiting, Lost}]
    <2>0. replies \in [Sources -> 0..Rows \cup {Waiting, Lost}]
          /\ cursor \in [Sources -> 0..Rows]
        BY DEF GraphInv, TypeOK
    <2>1. \/ replies' = replies
          \/ \E s \in Sources : replies' = [replies EXCEPT ![s] = cursor[s]]
          \/ \E s \in Sources : replies' = [replies EXCEPT ![s] = Lost]
        BY DEF Tasks, SourceSteps, Poll, SendRow, TakeCut, InjectBarrier, InjectTimesOut,
                SourceForward, UnionSteps, UnionAbandon, UnionPoll, UnionPending,
                UnionTake, UnionForward, UnionSkip,
                UnionBlock, UnionAlign, WindowSteps, WindowAbsorb, WindowEmit, WindowBarrier,
                SinkSteps, SinkSend, SinkBarrier, SinkAbandon, SinkFlushed, SinkTimesOut, Deliver,
                DropResult, coordVars
    <2> QED
        BY <2>0, <2>1
<1>1. ASSUME \A s \in Sources : Injected(s) PROVE replies' = replies
    <2>1. \A s \in Sources : replies'[s] = replies[s]
        BY <1>1, ReplyStep
    <2> QED
        BY <1>0, <2>1
<1>2. ASSUME NEW r \in AllRows, Injected(r[1])
      PROVE  Injected(r[1])' /\ (r \in Before(replies') <=> r \in Before(replies))
    <2>1. r[1] \in Sources
        BY RowParts
    <2>2. replies'[r[1]] = replies[r[1]]
        BY <1>2, <2>1, ReplyStep
    <2> QED
        BY <1>2, <2>2 DEF Injected, Before
<1>3. ASSUME NEW r \in AllRows, r[2] <= cursor[r[1]], Injected(r[1]) => r \in Before(replies),
             Injected(r[1])'
      PROVE  r \in Before(replies')
    <2>1. r[1] \in Sources
        BY RowParts
    <2>2. CASE Injected(r[1])
        BY <1>2, <1>3, <2>2
    <2>3. CASE ~Injected(r[1])
        <3>1. replies'[r[1]] = cursor[r[1]]
            BY <1>3, <2>1, <2>3, ReplyStep
        <3> QED
            BY <1>3, <3>1 DEF Before
    <2> QED
        BY <2>2, <2>3
<1> QED
    BY <1>1, <1>2, <1>3

\* What the union decides about the message in its hand.
LEMMA DecisionFacts ==
    ASSUME GraphInv, active # None, Decides
    PROVE  /\ UnionForward => hand.msg.barrier = None /\ hand.msg.barrier # active
           /\ UnionSkip => hand.msg.barrier # active
           /\ UnionBlock => /\ hand.msg.barrier = active /\ completed # active
                            /\ aligning \in {None, active}
                            /\ blocked # {} => aligning = active
<1>0. /\ hand # NoHand /\ hand.from \in Sources /\ hand.from \notin blocked
      /\ hand' = NoHand \/ (hand' = hand /\ hand.from \in blocked')
      /\ UNCHANGED <<mail, ingress>>
    BY DecidesHand, ActiveId DEF sourceVars
<1>1. Line(hand.from) # <<>> /\ Head(Line(hand.from)) = hand.msg
    BY <1>0, LineConsume, ActiveId
<1>2. ASSUME hand.msg.barrier = active PROVE ~Done(hand.from)
    <2>1. Line(hand.from) \in Seq(Message)
        BY <1>0, LineTyped, ActiveId
    <2>2. Has(Line(hand.from), active)
        BY <1>1, <1>2, <2>1, HasTail
    <2> QED
        BY <1>0, <2>2, ActiveId DEF Dividing
<1>3. UnionForward => hand.msg.barrier = None /\ hand.msg.barrier # active
    BY DEF UnionForward
<1>4. ASSUME UnionSkip, hand.msg.barrier = active PROVE FALSE
    <2>1. active <= completed
        BY <1>4 DEF UnionSkip, Stale
    <2>2. completed = active
        BY <2>1, ActiveId
    <2> QED
        BY <1>2, <1>4, <2>2 DEF Done
<1>5. ASSUME UnionBlock
      PROVE  /\ hand.msg.barrier = active /\ completed # active
             /\ aligning \in {None, active} /\ (blocked # {} => aligning = active)
    <2>1. /\ hand.msg.barrier = active /\ aligning \in {None, active}
        BY <1>5 DEF UnionBlock, Stale, Conflict
    <2>2. completed # active
        BY <1>2, <2>1 DEF Done
    <2>3. aligning = None => blocked = {}
        BY ActiveId DEF UnionRegisters
    <2> QED
        BY <2>1, <2>2, <2>3
<1> QED
    BY <1>3, <1>4, <1>5

\* When the barrier leaves the union all inputs are blocked for it; it is of
\* the active attempt, or of one that was abandoned while there was no room.
LEMMA AlignFacts ==
    ASSUME GraphInv, active # None, UnionAlign
    PROVE  /\ hand.msg.barrier = aligning /\ hand.msg.rows = {} /\ blocked = Sources
           /\ completed # active /\ completed' = aligning /\ aligning' = None
<1>1. Sending /\ completed' = hand.msg.barrier /\ aligning' = None
    BY NoHandParts DEF UnionAlign, Sending
<1>2. /\ hand.msg.barrier = aligning /\ aligning # None /\ hand.msg.rows = {}
      /\ blocked = Sources
    BY <1>1, ActiveId, SendingBarrier
<1>3. aligning \in Nat /\ completed \in Nat /\ nextId \in Nat /\ active = nextId - 1
    BY IdIsNat, Constants DEF GraphInv, TypeOK, RequestPhase
<1>4. aligning < nextId /\ completed < aligning
    BY <1>2 DEF GraphInv, IdsBegun, IdsBelow, IdsAtUnion, UnionRegisters
<1>5. completed # active
    BY <1>3, <1>4
<1> QED
    BY <1>1, <1>2, <1>5

\* Which inputs are done.
LEMMA DoneStep ==
    ASSUME GraphInv, active # None, Tasks, NEW t \in Sources
    PROVE  /\ ~UnionBlock => (Done(t)' <=> Done(t))
           /\ ~UnionAlign => completed' = completed
           /\ UnionBlock => (Done(t)' <=> Done(t) \/ t = hand.from)
<1>0. UNCHANGED active
    BY InboxChanges DEF GraphInv, Tasks
<1>1. ASSUME ~UnionSteps PROVE UNCHANGED <<blocked, aligning, completed>>
    <2>1. ASSUME NEW s \in Sources, SourceSteps(s) PROVE UNCHANGED <<blocked, aligning, completed>>
        BY <2>1 DEF SourceSteps, Poll, SendRow, TakeCut, InjectBarrier, InjectTimesOut,
                    SourceForward, unionVars
    <2>2. CASE WindowSteps
        BY <2>2 DEF WindowSteps, WindowAbsorb, WindowEmit, WindowBarrier, unionVars
    <2>3. CASE SinkSteps \/ Deliver \/ DropResult
        BY <2>3 DEF SinkSteps, SinkSend, SinkBarrier, SinkAbandon, SinkFlushed, SinkTimesOut,
                    Deliver, DropResult, unionVars
    <2> QED
        BY <1>1, <2>1, <2>2, <2>3 DEF Tasks
<1>2. ASSUME NEW s \in Sources, UnionTake(s) PROVE UNCHANGED <<blocked, aligning, completed>>
    BY <1>2 DEF UnionTake
<1>3. CASE UnionForward \/ UnionSkip
    <2>1. ~UnionBlock /\ ~UnionAlign
        BY <1>3 DEF UnionForward, UnionSkip, UnionBlock, UnionAlign, Arrived
    <2>2. UNCHANGED <<blocked, aligning, completed>>
        BY <1>3 DEF UnionForward, UnionSkip
    <2> QED
        BY <1>0, <2>1, <2>2 DEF Done
<1>4. CASE UnionAbandon
    <2>1. ~UnionBlock /\ ~UnionAlign
        BY <1>4, NoHandParts DEF UnionAbandon, UnionBlock, UnionAlign, Arrived
    <2>2. aligning # active /\ aligning' = None /\ completed' = completed
        BY <1>4 DEF UnionAbandon, Abandoned
    <2> QED
        BY <1>0, <2>1, <2>2 DEF Done
<1>5. CASE UnionBlock
    <2>1. /\ aligning' = active /\ blocked' = blocked \cup {hand.from} /\ UNCHANGED completed
          /\ aligning \in {None, active} /\ (blocked # {} => aligning = active)
        BY <1>5, DecisionFacts DEF UnionBlock, Decides
    <2>2. Done(t)' <=> Done(t) \/ t = hand.from
        BY <1>0, <2>1 DEF Done
    <2>3. ~UnionAlign
        BY <1>5 DEF UnionBlock, UnionAlign, Arrived
    <2> QED
        BY <1>5, <2>1, <2>2, <2>3
<1>6. CASE UnionAlign
    <2>1. /\ completed' = aligning /\ completed # active /\ blocked = Sources
          /\ aligning' = None
        BY <1>6, AlignFacts
    <2>2. Done(t)' <=> Done(t)
        BY <1>0, <2>1 DEF Done
    <2>3. ~UnionBlock
        BY <1>6 DEF UnionBlock, UnionAlign, Arrived
    <2> QED
        BY <1>6, <2>1, <2>2, <2>3
<1>7. ASSUME UNCHANGED <<blocked, aligning, completed>>
      PROVE  (Done(t)' <=> Done(t)) /\ completed' = completed
    BY <1>0, <1>7 DEF Done
<1>8. ~UnionSteps => ~UnionBlock /\ ~UnionAlign
    BY DEF UnionSteps
<1>9. ASSUME UnionPoll \/ UnionPending PROVE UNCHANGED <<blocked, aligning, completed>>
    BY <1>9 DEF UnionPoll, UnionPending
<1>10. ASSUME UNCHANGED <<blocked, aligning, completed>>, UnionBlock PROVE FALSE
    BY <1>10 DEF UnionBlock, Arrived
<1> QED
    BY <1>1, <1>2, <1>3, <1>4, <1>5, <1>6, <1>7, <1>8, <1>9, <1>10 DEF UnionSteps

-----------------------------------------------------------------------------
(* The sources and the union.                                              *)

\* How a Cut becomes a barrier.
LEMMA CutStep ==
    ASSUME GraphInv, active # None, Tasks, NEW t \in Sources
    PROVE  /\ cut'[t] = cut[t] \/ cut'[t] = None
           /\ injecting'[t] = active =>
                 injecting[t] = active \/ (cut[t] = active /\ cut'[t] = None)
<1>0. cut \in [Sources -> Ids \cup {None}] /\ injecting \in [Sources -> Ids \cup {None}]
    BY DEF GraphInv, TypeOK
<1>1. ASSUME NEW s \in Sources, TakeCut(s)
      PROVE  /\ cut'[t] = cut[t] \/ cut'[t] = None
             /\ injecting'[t] = active =>
                   injecting[t] = active \/ (cut[t] = active /\ cut'[t] = None)
    BY <1>0, <1>1 DEF TakeCut
<1>2. ASSUME NEW s \in Sources, InjectBarrier(s) \/ InjectTimesOut(s)
      PROVE  cut'[t] = cut[t] /\ (injecting'[t] = injecting[t] \/ injecting'[t] = None)
    BY <1>0, <1>2 DEF InjectBarrier, InjectTimesOut
<1>3. ASSUME NEW s \in Sources, Poll(s) \/ SendRow(s) \/ SourceForward(s)
      PROVE  UNCHANGED <<cut, injecting>>
    BY <1>3 DEF Poll, SendRow, SourceForward
<1>4. ASSUME ~(\E s \in Sources : SourceSteps(s)) PROVE UNCHANGED <<cut, injecting>>
    BY <1>4 DEF Tasks, UnionSteps, UnionAbandon, UnionPoll, UnionPending,
    UnionTake, UnionForward, UnionSkip,
                UnionBlock, UnionAlign, WindowSteps, WindowAbsorb, WindowEmit, WindowBarrier,
                SinkSteps, SinkSend, SinkBarrier, SinkAbandon, SinkFlushed, SinkTimesOut, Deliver,
                DropResult, sourceVars
<1>5. ASSUME UNCHANGED <<cut, injecting>>
      PROVE  /\ cut'[t] = cut[t] \/ cut'[t] = None
             /\ injecting'[t] = active =>
                   injecting[t] = active \/ (cut[t] = active /\ cut'[t] = None)
    BY <1>5
<1>6. ASSUME NEW s \in Sources, SourceSteps(s)
      PROVE  /\ cut'[t] = cut[t] \/ cut'[t] = None
             /\ injecting'[t] = active =>
                   injecting[t] = active \/ (cut[t] = active /\ cut'[t] = None)
    BY <1>1, <1>2, <1>3, <1>5, <1>6 DEF SourceSteps
<1> QED
    BY <1>4, <1>5, <1>6

\* How the active barrier comes onto the line of a source and leaves it.
LEMMA HasStep ==
    ASSUME GraphInv, active # None, Tasks, NEW t \in Sources, NEW q, q = Line(t)'
    PROVE  /\ Once(q, active)
           /\ Has(q, active) =>
                 Has(Line(t), active) \/ (InjectBarrier(t) /\ injecting[t] = active)
           /\ InjectBarrier(t) /\ injecting[t] = active =>
                 Has(q, active) /\ ~Injected(t) /\ ~Done(t) /\ Injected(t)'
           /\ Decides /\ hand.from = t /\ hand.msg.barrier = active =>
                 Has(Line(t), active) /\ ~Has(q, active)
           /\ ~(Decides /\ hand.from = t /\ hand.msg.barrier = active) =>
                 (Has(Line(t), active) => Has(q, active))
<1>0. /\ Line(t) \in Seq(Message) /\ Once(Line(t), active) /\ active \in Ids
      /\ \A s \in Sources : unsent[s] <= cursor[s]
      /\ cursor[t] \in 0..Rows /\ replies \in [Sources -> 0..Rows \cup {Waiting, Lost}]
      /\ injecting[t] \in Ids \cup {None}
    BY ActiveId, LineTyped DEF Dividing, Taken, TypeOK
<1>1. CASE q = Line(t) /\ ~InjectBarrier(t) /\ ~(Decides /\ hand.from = t)
    BY <1>0, <1>1
<1>2. CASE SendRow(t) /\ q = Append(Line(t), Data({<<t, cursor[t] - unsent[t] + 1>>}))
    <2>1. PICK m \in Message : m = Data({<<t, cursor[t] - unsent[t] + 1>>}) /\ m.barrier = None
        BY <1>0, <1>2, ActiveId, RowTyped, MessageParts DEF SendRow
    <2>2. q = Append(Line(t), m) /\ m.barrier # active
        BY <1>2, <2>1
    <2>3. (Has(q, active) <=> Has(Line(t), active)) /\ Once(q, active)
        BY <1>0, <2>2, HasAppend
    <2>4. ~(InjectBarrier(t) /\ injecting[t] = active) /\ ~Decides
        <3>1. ~InjectBarrier(t)
            BY <1>2, ActiveId DEF SendRow, InjectBarrier, Taken
        <3>2. ~Decides
            <4>1. Decides => UNCHANGED sourceVars
                BY DecidesHand, ActiveId
            <4>2. unsent'[t] # unsent[t]
                <5>1. unsent' = [unsent EXCEPT ![t] = @ - 1] /\ unsent \in [Sources -> 0..Batch]
                    BY <1>2, ActiveId DEF SendRow, TypeOK
                <5> QED
                    BY <5>1, Constants
            <4> QED
                BY <4>1, <4>2 DEF sourceVars
        <3> QED
            BY <3>1, <3>2
    <2> QED
        BY <2>3, <2>4
<1>3. CASE InjectBarrier(t) /\ q = Append(Line(t), Barrier(injecting[t]))
    <2>1. PICK m \in Message : m = Barrier(injecting[t]) /\ m.barrier = injecting[t]
        BY <1>0, <1>3, MessageParts DEF InjectBarrier
    <2>2. Has(q, active) <=> Has(Line(t), active) \/ injecting[t] = active
        BY <1>0, <1>3, <2>1, HasAppend
    <2>3. ASSUME injecting[t] = active
          PROVE  ~Injected(t) /\ ~Done(t) /\ ~Has(Line(t), active) /\ Injected(t)'
        <3>1. replies[t] = Waiting
            BY <2>3, ActiveId DEF Asking
        <3>2. ~Injected(t)
            BY <3>1, Constants DEF Injected, Waiting
        <3>3. replies'[t] = cursor[t]
            BY <1>0, <1>3, <2>3 DEF InjectBarrier
        <3> QED
            BY <1>0, <3>2, <3>3, ActiveId DEF Asking, Injected
    <2>4. Once(q, active)
        BY <1>0, <1>3, <2>1, <2>3, HasAppend
    <2>5. ~Decides
        <3>1. Decides => UNCHANGED sourceVars
            BY DecidesHand, ActiveId
        <3>2. injecting'[t] # injecting[t]
            <4>1. /\ injecting' = [injecting EXCEPT ![t] = None] /\ injecting[t] # None
                  /\ injecting \in [Sources -> Ids \cup {None}]
                BY <1>3, ActiveId DEF InjectBarrier, TypeOK
            <4> QED
                BY <4>1
        <3> QED
            BY <3>1, <3>2 DEF sourceVars
    <2> QED
        BY <1>3, <2>2, <2>3, <2>4, <2>5
<1>4. CASE /\ Decides /\ hand.from = t /\ Line(t) # <<>> /\ Head(Line(t)) = hand.msg
           /\ q = Tail(Line(t)) /\ ~InjectBarrier(t)
    <2>1. /\ Has(Line(t), active) <=> Has(q, active) \/ hand.msg.barrier = active
          /\ Once(q, active) /\ (hand.msg.barrier = active => ~Has(q, active))
        BY <1>0, <1>4, HasTail
    <2> QED
        BY <1>4, <2>1
<1>5. Decides => ~InjectBarrier(t)
    <2>1. Decides => UNCHANGED sourceVars
        BY DecidesHand, ActiveId
    <2>2. InjectBarrier(t) => injecting'[t] # injecting[t]
        <3>1. InjectBarrier(t) =>
                  /\ injecting' = [injecting EXCEPT ![t] = None] /\ injecting[t] # None
            BY DEF InjectBarrier
        <3>2. injecting \in [Sources -> Ids \cup {None}]
            BY ActiveId DEF TypeOK
        <3> QED
            BY <3>1, <3>2
    <2> QED
        BY <2>1, <2>2 DEF sourceVars
<1>6. InjectBarrier(t) => q = Append(Line(t), Barrier(injecting[t]))
    <2> SUFFICES ASSUME InjectBarrier(t) PROVE q = Append(Line(t), Barrier(injecting[t]))
        OBVIOUS
    <2>1. PICK m \in Message : m = Barrier(injecting[t])
        BY <1>0, MessageParts DEF InjectBarrier
    <2>2. ingress' = [ingress EXCEPT ![t] = Append(@, m)] /\ UNCHANGED <<mail, hand, blocked>>
        BY <2>1 DEF InjectBarrier, unionVars
    <2> QED
        BY <2>1, <2>2, LineAppend, ActiveId
<1>7. Decides /\ hand.from = t =>
          Line(t) # <<>> /\ Head(Line(t)) = hand.msg /\ q = Tail(Line(t))
    <2>1. Decides => /\ hand # NoHand /\ hand.from \in Sources /\ hand.from \notin blocked
                     /\ hand' = NoHand \/ (hand' = hand /\ hand.from \in blocked')
                     /\ UNCHANGED <<mail, ingress>>
        BY DecidesHand, ActiveId DEF sourceVars
    <2> QED
        BY <2>1, LineConsume, ActiveId
<1> QED
    BY <1>0, <1>1, <1>2, <1>3, <1>4, <1>5, <1>6, <1>7, LineStep, ActiveId

\* A source is asked once and answers once.
LEMMA AskingStep ==
    ASSUME GraphInv, active # None, Tasks, NEW t \in Sources
    PROVE  Asking(t)'
<1>0. /\ Asking(t) /\ Dividing(t) /\ active' = active /\ toCut' = toCut
    BY ActiveId, ReplyStep
<1>1. t \in toCut' \/ cut'[t] = active' \/ injecting'[t] = active' => replies'[t] = Waiting
    BY <1>0, ReplyStep, CutStep DEF Asking
<1>2. t \in toCut' => cut'[t] # active' /\ injecting'[t] # active'
    BY <1>0, CutStep DEF Asking
<1>3. cut'[t] = active' => injecting'[t] # active'
    BY <1>0, CutStep DEF Asking
<1>4. PICK q : q = Line(t)'
    OBVIOUS
<1>5. ASSUME ~Injected(t)' PROVE ~Has(q, active) /\ ~Done(t)'
    <2>1. ~Injected(t)
        BY <1>5, ReplyStep DEF Injected
    <2>2. ~Has(Line(t), active) /\ ~Done(t)
        BY <1>0, <2>1 DEF Asking
    <2>3. ~Has(q, active)
        BY <1>4, <1>5, <2>2, HasStep
    <2>4. ~(Decides /\ hand.from = t /\ hand.msg.barrier = active)
        BY <1>4, <2>2, HasStep
    <2>5. ~Done(t)'
        BY <2>2, <2>4, DoneStep, DecisionFacts DEF Decides
    <2> QED
        BY <2>3, <2>5
<1> QED
    BY <1>0, <1>1, <1>2, <1>3, <1>4, <1>5 DEF Asking, Has

\* Only the rows in a channel matter to how a barrier divides it.
LEMMA PartedSame ==
    ASSUME NEW q \in Seq(Message), NEW k, NEW B, NEW C, Parted(q, k, B),
           \A r \in RowsIn(q) : r \in B <=> r \in C
    PROVE  Parted(q, k, C)
<1> SUFFICES ASSUME NEW j \in DOMAIN q, NEW r \in q[j].rows
             PROVE  r \in C <=> Behind(q, j, k)
    BY DEF Parted
<1>1. r \in RowsIn(q)
    BY RowsInChannel
<1>2. r \in B <=> Behind(q, j, k)
    BY DEF Parted
<1> QED
    BY <1>1, <1>2

\* The rows that were sent only become more.
LEMMA SentStep ==
    ASSUME GraphInv, active # None, Tasks, NEW t \in Sources, NEW x \in Int,
           x <= cursor[t] - unsent[t]
    PROVE  x <= cursor'[t] - unsent'[t]
<1>0. cursor \in [Sources -> 0..Rows] /\ unsent \in [Sources -> 0..Batch]
      /\ cursor[t] \in Nat /\ unsent[t] \in Nat
    <2>1. cursor \in [Sources -> 0..Rows] /\ unsent \in [Sources -> 0..Batch]
        BY ActiveId DEF TypeOK
    <2> QED
        BY <2>1, Constants
<1>1. ASSUME NEW s \in Sources, Poll(s) PROVE x <= cursor'[t] - unsent'[t]
    <2>1. PICK n \in 1..Batch : /\ cursor' = [cursor EXCEPT ![s] = @ + n]
                                /\ unsent' = [unsent EXCEPT ![s] = n] /\ unsent[s] = 0
        BY <1>1 DEF Poll, Idle
    <2>2. n \in Nat
        BY <2>1, Constants
    <2>3. CASE t = s
        <3>1. cursor'[t] = cursor[t] + n /\ unsent'[t] = n /\ unsent[t] = 0
            BY <1>0, <2>1, <2>3
        <3> QED
            BY <1>0, <2>2, <3>1
    <2>4. CASE t # s
        BY <1>0, <2>1, <2>4
    <2> QED
        BY <2>3, <2>4
<1>2. ASSUME NEW s \in Sources, SendRow(s) PROVE x <= cursor'[t] - unsent'[t]
    <2>1. unsent' = [unsent EXCEPT ![s] = @ - 1] /\ cursor' = cursor
        BY <1>2 DEF SendRow
    <2>2. unsent'[t] = unsent[t] \/ unsent'[t] = unsent[t] - 1
        BY <1>0, <2>1
    <2> QED
        BY <1>0, <2>1, <2>2
<1>3. ASSUME NEW s \in Sources, TakeCut(s) \/ InjectBarrier(s) \/ InjectTimesOut(s) \/ SourceForward(s)
      PROVE  UNCHANGED <<cursor, unsent>>
    BY <1>3 DEF TakeCut, InjectBarrier, InjectTimesOut, SourceForward
<1>4. ASSUME ~(\E s \in Sources : SourceSteps(s)) PROVE UNCHANGED <<cursor, unsent>>
    BY <1>4 DEF Tasks, UnionSteps, UnionAbandon, UnionPoll, UnionPending,
    UnionTake, UnionForward, UnionSkip,
                UnionBlock, UnionAlign, WindowSteps, WindowAbsorb, WindowEmit, WindowBarrier,
                SinkSteps, SinkSend, SinkBarrier, SinkAbandon, SinkFlushed, SinkTimesOut, Deliver,
                DropResult, sourceVars
<1>5. ASSUME UNCHANGED <<cursor, unsent>> PROVE x <= cursor'[t] - unsent'[t]
    BY <1>5
<1> QED
    BY <1>1, <1>2, <1>3, <1>4, <1>5 DEF SourceSteps

\* A row that is sent after the answer is not before it.
LEMMA DividingStep ==
    ASSUME GraphInv, active # None, Tasks, NEW t \in Sources
    PROVE  Dividing(t)'
<1>0. /\ Asking(t) /\ Dividing(t) /\ Taken(t) /\ active' = active /\ TypeOK /\ UnionRegisters
      /\ Line(t) \in Seq(Message) /\ \A s \in Sources : unsent[s] <= cursor[s]
    BY ActiveId, ReplyStep, LineTyped DEF Taken
<1>a. /\ cursor[t] \in Nat /\ unsent[t] \in Nat /\ cursor[t] \in 0..Rows
      /\ replies \in [Sources -> 0..Rows \cup {Waiting, Lost}]
      /\ replies[t] \in Int
    <2>1. /\ cursor \in [Sources -> 0..Rows] /\ unsent \in [Sources -> 0..Batch]
          /\ replies \in [Sources -> 0..Rows \cup {Waiting, Lost}]
        BY <1>0 DEF TypeOK
    <2>2. \A x \in 0..Rows \cup {Waiting, Lost} : x \in Int
        BY Constants DEF Waiting, Lost
    <2>3. /\ cursor[t] \in 0..Rows /\ unsent[t] \in 0..Batch
          /\ replies[t] \in 0..Rows \cup {Waiting, Lost}
        BY <2>1
    <2>4. replies[t] \in Int
        BY <2>2, <2>3
    <2>5. cursor[t] \in Nat /\ unsent[t] \in Nat
        BY <2>3, Constants
    <2> QED
        BY <2>1, <2>3, <2>4, <2>5
<1>b. \A r \in RowsIn(Line(t)) : r \in AllRows /\ r[1] = t /\ r[2] <= cursor[t]
    <2> SUFFICES ASSUME NEW r \in RowsIn(Line(t))
                 PROVE  r \in AllRows /\ r[1] = t /\ r[2] <= cursor[t]
        OBVIOUS
    <2>1. r \in AllRows /\ r[1] = t
        BY <1>0, RowsInChannel DEF Taken
    <2>3. r \in InFlight
        BY <1>0, FlightParts
    <2>4. r[2] <= cursor[r[1]]
        BY <2>3 DEF GraphInv, Accounted
    <2> QED
        BY <2>1, <2>4
<1>1. PICK q : q = Line(t)'
    OBVIOUS
<1>2. Once(q, active)
    BY <1>1, HasStep
<1>3. Has(q, active) => ~Done(t)'
    <2> SUFFICES ASSUME Has(q, active), Done(t)' PROVE FALSE
        OBVIOUS
    <2>1. ~Done(t)
        BY <1>0, <1>1, HasStep DEF Dividing
    <2>2. UnionBlock /\ t = hand.from
        BY <2>1, DoneStep
    <2>3. Decides /\ hand.msg.barrier = active
        BY <2>2, DecisionFacts DEF Decides
    <2> QED
        BY <1>1, <2>2, <2>3, HasStep
<1>4. CASE Injected(t)
    <2>1. /\ replies'[t] = replies[t] /\ replies[t] \in 0..Rows
        BY <1>4, ReplyStep DEF Injected
    <2>2. replies'[t] <= cursor'[t] - unsent'[t]
        BY <1>0, <1>4, <1>a, <2>1, SentStep DEF Dividing
    <2>3. Has(q, active) \/ Done(t)'
        <3>1. CASE Done(t)
            BY <3>1, DoneStep
        <3>2. CASE Has(Line(t), active)
            <4>1. CASE Decides /\ hand.from = t /\ hand.msg.barrier = active
                <5>1. UnionBlock
                    BY <4>1, DecisionFacts DEF Decides
                <5> QED
                    BY <4>1, <5>1, DoneStep
            <4> QED
                BY <1>1, <3>2, <4>1, HasStep
        <3> QED
            BY <1>0, <1>4, <3>1, <3>2 DEF Dividing
    <2>4. Parted(Line(t), active, Before(replies'))
        <3>1. \A r \in RowsIn(Line(t)) : r \in Before(replies) <=> r \in Before(replies')
            BY <1>4, <1>b, BeforeStep
        <3>2. Parted(Line(t), active, Before(replies))
            BY <1>0, <1>4 DEF Dividing
        <3> QED
            BY <1>0, <3>1, <3>2, PartedSame
    <2>5. Parted(q, active, Before(replies'))
        <3>1. CASE q = Line(t)
            BY <2>4, <3>1
        <3>2. CASE SendRow(t) /\ q = Append(Line(t), Data({<<t, cursor[t] - unsent[t] + 1>>}))
            <4>1. PICK x \in 1..Rows : x = cursor[t] - unsent[t] + 1
                BY <1>0, <3>2, RowTyped DEF SendRow
            <4>2. PICK m \in Message : m = Data({<<t, x>>}) /\ m.barrier = None /\ m.rows = {<<t, x>>}
                BY <1>0, <3>2, <4>1, RowTyped, MessageParts DEF SendRow
            <4>3. replies'[t] < x
                <5>1. replies[t] <= cursor[t] - unsent[t]
                    BY <1>0, <1>4 DEF Dividing
                <5> QED
                    BY <1>a, <2>1, <4>1, <5>1, Constants
            <4>4. <<t, x>> \notin Before(replies')
                <5>1. ~(x <= replies'[t])
                    BY <1>a, <2>1, <4>1, <4>3, Constants
                <5> QED
                    BY <5>1 DEF Before
            <4>5. q = Append(Line(t), m) /\ m.barrier # active /\ \A r \in m.rows : r \notin Before(replies')
                BY <3>2, <4>1, <4>2, <4>4
            <4> QED
                BY <1>0, <2>4, <4>5, PartedAppend
        <3>3. CASE InjectBarrier(t) /\ q = Append(Line(t), Barrier(injecting[t]))
            <4>1. injecting[t] # active
                BY <1>1, <1>4, <3>3, HasStep
            <4>2. PICK m \in Message : m = Barrier(injecting[t]) /\ m.barrier = injecting[t] /\ m.rows = {}
                <5>1. injecting[t] \in Ids
                    BY <1>0, <3>3 DEF InjectBarrier, TypeOK
                <5> QED
                    BY <5>1, MessageParts
            <4>3. q = Append(Line(t), m) /\ m.barrier # active /\ \A r \in m.rows : r \notin Before(replies')
                BY <3>3, <4>1, <4>2
            <4> QED
                BY <1>0, <2>4, <4>3, PartedAppend
        <3>4. CASE Line(t) # <<>> /\ q = Tail(Line(t))
            BY <1>0, <2>4, <3>4, PartedTail
        <3> QED
            BY <1>0, <1>1, <3>1, <3>2, <3>3, <3>4, LineStep
    <2> QED
        BY <1>0, <1>1, <1>2, <1>3, <2>2, <2>3, <2>5
        DEF Dividing, Has, Once, Parted, Behind, Before
<1>5. CASE ~Injected(t) /\ Injected(t)'
    <2>1. InjectBarrier(t) /\ injecting[t] = active /\ replies'[t] = cursor[t]
        BY <1>5, ReplyStep
    <2>2. UNCHANGED <<cursor, unsent>> /\ unsent[t] = 0
        BY <1>0, <2>1 DEF InjectBarrier, Taken
    <2>3. replies'[t] <= cursor'[t] - unsent'[t]
        BY <1>a, <2>1, <2>2
    <2>4. Has(q, active)
        BY <1>1, <2>1, HasStep
    <2>5. PICK m \in Message : m = Barrier(active) /\ m.barrier = active /\ m.rows = {}
        BY ActiveId, MessageParts
    <2>6. q = Append(Line(t), m)
        <3>1. ingress' = [ingress EXCEPT ![t] = Append(@, m)] /\ UNCHANGED <<mail, hand, blocked>>
            BY <2>1, <2>5 DEF InjectBarrier, unionVars
        <3> QED
            BY <1>0, <1>1, <3>1, LineAppend
    <2>7. \A r \in RowsIn(Line(t)) : r \in Before(replies')
        BY <1>b, <2>1 DEF Before
    <2>8. Parted(q, active, Before(replies'))
        BY <1>0, <2>5, <2>6, <2>7, PartedAppend
    <2> QED
        BY <1>0, <1>1, <1>2, <1>3, <2>3, <2>4, <2>8
        DEF Dividing, Has, Once, Parted, Behind, Before
<1>6. CASE ~Injected(t) /\ ~Injected(t)'
    BY <1>0, <1>1, <1>2, <1>3, <1>6 DEF Dividing, Has, Once
<1>7. Injected(t) => Injected(t)'
    BY ReplyStep DEF Injected
<1> QED
    BY <1>4, <1>5, <1>6

-----------------------------------------------------------------------------
(* The stages behind the union.                                            *)

Rear == NotAligned /\ Passing /\ Unfrozen /\ Freezing

\* What the window has received was read.
LEMMA RearTyped ==
    ASSUME GraphInv, active # None
    PROVE  /\ Rear
           /\ toWindow \in Seq(Message) /\ toSink \in Seq(Message) /\ outbox \in Seq(Message)
           /\ held \in SUBSET AllRows /\ hand.msg \in Message
           /\ \A r : r \in RowsIn(toWindow) \/ r \in held =>
                        r \in AllRows /\ r[2] <= cursor[r[1]]
           /\ Window # Sink
<1>1. /\ toWindow \in Seq(Message) /\ toSink \in Seq(Message) /\ outbox \in Seq(Message)
      /\ held \in SUBSET AllRows /\ hand.msg \in Message
    BY ActiveId DEF TypeOK
<1>2. ASSUME NEW r, r \in RowsIn(toWindow) \/ r \in held
      PROVE  r \in AllRows /\ r[2] <= cursor[r[1]]
    <2>1. r \in InFlight
        BY <1>2, FlightMember
    <2>2. r \in AllRows
        BY <1>1, <1>2, RowsInChannel
    <2> QED
        BY <2>1, <2>2 DEF GraphInv, Accounted
<1> QED
    BY <1>1, <1>2, ActiveId, ParticipantNames DEF Rear

\* A step that leaves the stages behind the union alone.
LEMMA RearStands ==
    ASSUME GraphInv, active # None, Tasks,
           UNCHANGED <<toWindow, held, toSink, flushing, outbox, delivered, completed>>,
           UNCHANGED <<refused, frozen>>,
           Window \in acks' <=> Window \in acks, Sink \in acks' <=> Sink \in acks
    PROVE  Rear'
<1>0. active' = active /\ Rear
    BY ReplyStep, RearTyped, InboxChanges DEF GraphInv, Tasks
<1>1. completed = active => replies' = replies
    BY AllDone, BeforeStep
<1>2. ASSUME NEW r, r \in RowsIn(toWindow) \/ r \in held, Injected(r[1]) => r \in Before(replies)
      PROVE  Injected(r[1])' => r \in Before(replies')
    BY <1>2, RearTyped, BeforeStep
<1>3. NotAligned'
    BY <1>0, <1>2 DEF NotAligned, Rear
<1>4. Passing'
    BY <1>0, <1>1 DEF Passing, Rear
<1>5. Unfrozen'
    BY <1>0, <1>2 DEF Unfrozen, Rear
<1>6. Freezing'
    <2>1. Window \in acks => replies' = replies
        BY <1>1, Downstream
    <2> QED
        BY <1>0, <2>1 DEF Freezing, Rear
<1> QED
    BY <1>3, <1>4, <1>5, <1>6 DEF Rear

\* The sources change nothing behind the union.
LEMMA RearSource ==
    ASSUME GraphInv, active # None, NEW s \in Sources, SourceSteps(s)
    PROVE  Rear'
<1>0. Tasks
    BY DEF Tasks
<1>1. UNCHANGED <<unionVars, windowVars, sinkVars, delivered, refused, frozen>>
    BY DEF SourceSteps, Poll, SendRow, TakeCut, InjectBarrier, InjectTimesOut, SourceForward,
           inboxVars
<1>2. acks' = acks \/ acks' = acks \cup {s}
    BY DEF SourceSteps, Poll, SendRow, TakeCut, InjectBarrier, InjectTimesOut, SourceForward,
           inboxVars, Ack
<1>3. (Window \in acks' <=> Window \in acks) /\ (Sink \in acks' <=> Sink \in acks)
    BY <1>2, ParticipantNames
<1> QED
    BY <1>0, <1>1, <1>3, RearStands DEF unionVars, windowVars, sinkVars

\* A row that the union forwards is before its source's answer unless the
\* union is aligned.
LEMMA ForwardedRow ==
    ASSUME GraphInv, active # None, UnionForward, NEW r \in hand.msg.rows
    PROVE  /\ completed # active => (Injected(r[1]) => r \in Before(replies))
           /\ completed = active => r \notin Before(replies)
<1>0. /\ Decides /\ hand # NoHand /\ hand.from \in Sources /\ hand.from \notin blocked
      /\ hand' = NoHand \/ (hand' = hand /\ hand.from \in blocked')
      /\ UNCHANGED <<mail, ingress>>
    BY DecidesHand, ActiveId DEF Decides, sourceVars
<1>1. PICK t \in Sources : t = hand.from
    BY <1>0
<1>2. Line(t) # <<>> /\ Head(Line(t)) = hand.msg /\ Line(t) \in Seq(Message)
    BY <1>0, <1>1, LineConsume, LineTyped, ActiveId
<1>3. r[1] = t
    <2>1. r \in RowsIn(Line(t))
        BY <1>2, RowsTail
    <2> QED
        BY <2>1, ActiveId DEF Taken
<1>4. hand.msg.barrier # active
    BY <1>0, DecisionFacts
<1>5. Has(Line(t), active) <=> Has(Tail(Line(t)), active)
    BY <1>2, <1>4, HasTail
<1>6. Injected(t) => (r \in Before(replies) <=> Has(Tail(Line(t)), active))
    <2>1. Injected(t) => Parted(Line(t), active, Before(replies))
        BY ActiveId DEF Dividing
    <2> QED
        BY <1>2, <2>1, PartedTail
<1>7. ASSUME completed # active, Injected(t) PROVE Has(Line(t), active)
    <2>1. ~Done(t)
        BY <1>0, <1>1, <1>7 DEF Done
    <2> QED
        BY <1>7, <2>1, ActiveId DEF Dividing
<1>8. ASSUME completed = active PROVE Injected(t) /\ ~Has(Line(t), active)
    BY <1>8, AllDone
<1> QED
    BY <1>3, <1>5, <1>6, <1>7, <1>8

\* The barrier leaves the union behind exactly the rows before the answers.
LEMMA RearUnion ==
    ASSUME GraphInv, active # None, UnionSteps
    PROVE  Rear'
<1>0. /\ Tasks /\ Rear /\ active' = active /\ replies' = replies
      /\ UNCHANGED <<held, toSink, flushing, outbox, delivered, acks, refused, frozen>>
    <2>1. Tasks
        BY DEF Tasks
    <2>2. UNCHANGED <<replies, held, toSink, flushing, outbox, delivered, acks, refused, frozen>>
        BY DEF UnionSteps, UnionAbandon, UnionPoll, UnionPending,
               UnionTake, UnionForward, UnionSkip, UnionBlock,
               UnionAlign, windowVars, sinkVars, inboxVars, coordVars
    <2>3. active' = active
        BY DEF UnionSteps, UnionAbandon, UnionPoll, UnionPending,
               UnionTake, UnionForward, UnionSkip, UnionBlock,
               UnionAlign, coordVars
    <2> QED
        BY <2>1, <2>2, <2>3, RearTyped
<1>a. toWindow \in Seq(Message) /\ hand.msg \in Message
    BY RearTyped
<1>1. ASSUME ~UnionForward, ~UnionAlign PROVE Rear'
    <2>1. UNCHANGED <<toWindow, completed>>
        BY <1>1 DEF UnionSteps, UnionAbandon, UnionPoll, UnionPending, UnionTake, UnionSkip,
                    UnionBlock, windowVars
    <2> QED
        BY <1>0, <2>1, RearStands
<1>2. CASE UnionForward
    <2>1. toWindow' = Append(toWindow, hand.msg) /\ completed' = completed
        BY <1>2 DEF UnionForward
    <2>2. hand.msg.barrier # active
        BY <1>2, DecisionFacts DEF Decides
    <2>3. /\ Has(toWindow', active) <=> Has(toWindow, active)
          /\ Once(toWindow, active) => Once(toWindow', active)
        BY <1>a, <2>1, <2>2, HasAppend
    <2>4. RowsIn(toWindow') = RowsIn(toWindow) \cup hand.msg.rows
        BY <1>a, <2>1, RowsAppend
    <2>5. \A r : Injected(r[1])' <=> Injected(r[1])
        BY <1>0 DEF Injected
    <2>7. NotAligned'
        BY <1>0, <1>2, <2>1, <2>3, <2>4, <2>5, ForwardedRow DEF Rear, NotAligned
    <2>8. completed = active => Parted(toWindow', active, Before(replies))
        <3>1. completed = active => Parted(toWindow, active, Before(replies))
            BY <1>0 DEF Rear, Passing
        <3>2. completed = active => \A r \in hand.msg.rows : r \notin Before(replies)
            BY <1>2, ForwardedRow
        <3> QED
            BY <1>a, <2>1, <2>2, <3>1, <3>2, PartedAppend
    <2>9. Passing'
        BY <1>0, <2>1, <2>3, <2>8 DEF Rear, Passing
    <2>10. Unfrozen'
        BY <1>0, <2>1, <2>3, <2>5 DEF Rear, Unfrozen
    <2>11. Freezing'
        BY <1>0 DEF Rear, Freezing
    <2> QED
        BY <2>7, <2>9, <2>10, <2>11 DEF Rear
<1>b. UnionAlign => /\ toWindow' = Append(toWindow, hand.msg) /\ completed # active
                    /\ hand.msg.rows = {} /\ completed' = hand.msg.barrier
                    /\ hand.msg.barrier = aligning /\ blocked = Sources
    BY AlignFacts DEF UnionAlign
<1>3. CASE UnionAlign /\ hand.msg.barrier # active
    <2>1. /\ toWindow' = Append(toWindow, hand.msg) /\ completed' # active /\ completed # active
          /\ RowsIn(toWindow') = RowsIn(toWindow) \cup {}
        BY <1>3, <1>a, <1>b, RowsAppend
    <2>2. /\ Has(toWindow', active) <=> Has(toWindow, active)
          /\ Once(toWindow, active) => Once(toWindow', active)
        BY <1>3, <1>a, <2>1, HasAppend
    <2>3. NotAligned'
        BY <1>0, <2>1, <2>2 DEF Rear, NotAligned, Injected
    <2>4. Passing'
        BY <1>0, <2>1, <2>2 DEF Rear, Passing
    <2>5. Unfrozen'
        BY <1>0, <2>1 DEF Rear, Unfrozen, Injected
    <2>6. Freezing'
        BY <1>0 DEF Rear, Freezing
    <2> QED
        BY <2>3, <2>4, <2>5, <2>6 DEF Rear
<1>4. CASE UnionAlign /\ hand.msg.barrier = active
    <2>1. toWindow' = Append(toWindow, hand.msg)
        BY <1>4, <1>b
    <2>2. hand.msg.barrier = active /\ completed # active /\ hand.msg.rows = {}
        BY <1>4, <1>b
    <2>3. completed' = active /\ \A t \in Sources : Done(t)
        BY <1>4, <1>b DEF Done
    <2>4. \A t \in Sources : Injected(t)
        <3> SUFFICES ASSUME NEW t \in Sources PROVE Injected(t)
            OBVIOUS
        <3> QED
            BY <2>3, ActiveId DEF Asking
    <2>5. /\ ~Has(toWindow, active) /\ ~Has(toSink, active) /\ flushing # active
          /\ Window \notin acks /\ Sink \notin acks
          /\ \A r \in RowsIn(toWindow) : Injected(r[1]) => r \in Before(replies)
        BY <1>0, <2>2 DEF Rear, NotAligned
    <2>6. \A r \in RowsIn(toWindow) : r \in Before(replies)
        BY <2>4, <2>5, RearTyped, RowParts
    <2>7. Once(toWindow', active) /\ Parted(toWindow', active, Before(replies))
        BY <1>0, <1>a, <2>1, <2>2, <2>5, <2>6, HasAppend, PartedAppend DEF Rear, Passing
    <2>8. NotAligned' /\ Freezing'
        BY <1>0, <2>3, <2>5 DEF NotAligned, Freezing
    <2>9. Passing'
        BY <1>0, <2>3, <2>5, <2>7 DEF Rear, Passing
    <2>10. Unfrozen'
        BY <1>0, <2>2 DEF Rear, Unfrozen, Injected
    <2> QED
        BY <2>8, <2>9, <2>10 DEF Rear
<1> QED
    BY <1>1, <1>2, <1>3, <1>4

\* The window freezes what it holds when the barrier reaches it.
LEMMA RearWindow ==
    ASSUME GraphInv, active # None, WindowSteps
    PROVE  Rear'
<1>0. /\ Rear /\ active' = active /\ replies' = replies
      /\ UNCHANGED <<completed, flushing, outbox, delivered>>
    <2>1. UNCHANGED <<active, replies, completed, flushing, outbox, delivered>>
        BY DEF WindowSteps, WindowAbsorb, WindowEmit, WindowBarrier, unionVars, sinkVars, coordVars
    <2> QED
        BY <2>1, RearTyped
<1>a. toWindow \in Seq(Message) /\ toSink \in Seq(Message) /\ held \in SUBSET AllRows
    BY RearTyped
<1>b. \A r : Injected(r[1])' <=> Injected(r[1])
    BY <1>0 DEF Injected
<1>c. Window \in acks => completed = active /\ ~Has(toWindow, active)
    BY Downstream
<1>1. CASE WindowAbsorb
    <2>1. /\ toWindow # <<>> /\ Head(toWindow).barrier = None /\ toWindow' = Tail(toWindow)
          /\ held' = held \cup Head(toWindow).rows
          /\ UNCHANGED <<toSink, acks, refused, frozen>>
        BY <1>1 DEF WindowAbsorb, sinkVars, inboxVars
    <2>2. /\ Has(toWindow', active) <=> Has(toWindow, active)
          /\ Once(toWindow, active) => Once(toWindow', active)
        BY <1>a, <2>1, HasTail
    <2>3. RowsIn(toWindow) = RowsIn(toWindow') \cup Head(toWindow).rows
        BY <1>a, <2>1, RowsTail
    <2>4. completed = active =>
              /\ Parted(toWindow', active, Before(replies))
              /\ \A r \in Head(toWindow).rows : r \in Before(replies) <=> Has(toWindow', active)
        <3>1. completed = active => Parted(toWindow, active, Before(replies))
            BY <1>0 DEF Rear, Passing
        <3> QED
            BY <1>a, <2>1, <3>1, PartedTail
    <2>5. NotAligned'
        BY <1>0, <1>b, <2>1, <2>2, <2>3 DEF Rear, NotAligned
    <2>6. Passing'
        BY <1>0, <2>1, <2>2, <2>4 DEF Rear, Passing
    <2>7. Unfrozen'
        <3>1. ASSUME completed # active \/ Has(toWindow, active), NEW r \in held', Injected(r[1])
              PROVE  r \in Before(replies)
            <4>1. CASE r \in held
                BY <1>0, <3>1, <4>1 DEF Rear, Unfrozen
            <4>2. CASE r \in Head(toWindow).rows
                <5>1. completed # active => r \in Before(replies)
                    BY <1>0, <2>3, <3>1, <4>2 DEF Rear, NotAligned
                <5>2. completed = active => r \in Before(replies)
                    BY <2>2, <2>4, <3>1, <4>2
                <5> QED
                    BY <5>1, <5>2
            <4> QED
                BY <2>1, <3>1, <4>1, <4>2
        <3> QED
            BY <1>0, <1>b, <2>2, <3>1 DEF Unfrozen
    <2>8. Freezing'
        <3>1. Window \in acks => \A r \in Head(toWindow).rows : r \notin Before(replies)
            BY <1>c, <2>2, <2>4
        <3>2. Window \in acks /\ ~refused => held' \cap Before(replies) \subseteq frozen
            BY <1>0, <2>1, <3>1 DEF Rear, Freezing
        <3> QED
            BY <1>0, <2>1, <3>2 DEF Rear, Freezing
    <2> QED
        BY <2>5, <2>6, <2>7, <2>8 DEF Rear
<1>2. CASE WindowEmit
    <2>1. /\ toSink' = Append(toSink, Data(held)) /\ held' = {}
          /\ UNCHANGED <<toWindow, acks, refused, frozen>>
        BY <1>2 DEF WindowEmit, inboxVars
    <2>2. PICK m \in Message : m = Data(held) /\ m.barrier = None /\ m.rows = held
        BY <1>a, MessageParts
    <2>3. toSink' = Append(toSink, m) /\ m.barrier # active
        BY <2>1, <2>2
    <2>4. /\ Has(toSink', active) <=> Has(toSink, active)
          /\ Once(toSink, active) => Once(toSink', active)
        BY <1>a, <2>3, HasAppend
    <2>5. NotAligned' /\ Passing' /\ Unfrozen'
        BY <1>0, <1>b, <2>1, <2>4 DEF Rear, NotAligned, Passing, Unfrozen
    <2>6. Window \in acks /\ ~refused => Covered(toSink', active, Before(replies), frozen)
        <3>1. Window \in acks /\ ~refused =>
                 /\ Covered(toSink, active, Before(replies), frozen)
                 /\ \A r \in m.rows : r \in Before(replies) => r \in frozen
            BY <1>0, <2>2 DEF Rear, Freezing
        <3> QED
            BY <1>a, <2>3, <3>1, CoveredAppend
    <2>7. Freezing'
        BY <1>0, <2>1, <2>4, <2>6 DEF Rear, Freezing
    <2> QED
        BY <2>5, <2>7 DEF Rear
<1>3. CASE WindowBarrier
    <2>1. /\ toWindow # <<>> /\ Head(toWindow).barrier # None /\ toWindow' = Tail(toWindow)
          /\ toSink' = Append(toSink, Head(toWindow)) /\ UNCHANGED held
          /\ \/ /\ Ack(Head(toWindow).barrier, Window)
                /\ frozen' = IF active = Head(toWindow).barrier THEN held ELSE frozen
                /\ UNCHANGED refused
             \/ /\ active = Head(toWindow).barrier /\ Refuse(active) /\ UNCHANGED <<acks, frozen>>
        BY <1>3 DEF WindowBarrier
    <2>2. PICK m \in Message : m = Head(toWindow) /\ m.rows = {}
        BY <1>a, <2>1, TailIndices, MessageParts
    <2>3. /\ Has(toWindow, active) <=> Has(toWindow', active) \/ m.barrier = active
          /\ Once(toWindow, active) => Once(toWindow', active)
          /\ Once(toWindow, active) /\ m.barrier = active => ~Has(toWindow', active)
        BY <1>a, <2>1, <2>2, HasTail
    <2>4. /\ Has(toSink', active) <=> Has(toSink, active) \/ m.barrier = active
          /\ Once(toSink, active) /\ (m.barrier = active => ~Has(toSink, active))
                => Once(toSink', active)
        BY <1>a, <2>1, <2>2, HasAppend
    <2>5. RowsIn(toWindow') = RowsIn(toWindow)
        BY <1>a, <2>1, <2>2, RowsTail
    <2>6. completed = active => Parted(toWindow', active, Before(replies))
        <3>1. completed = active => Parted(toWindow, active, Before(replies))
            BY <1>0 DEF Rear, Passing
        <3> QED
            BY <1>a, <2>1, <3>1, PartedTail
    <2>7. CASE m.barrier # active
        <3>1. UNCHANGED <<acks, frozen, refused>>
            BY <2>1, <2>2, <2>7 DEF Ack
        <3>2. Window \in acks /\ ~refused => Covered(toSink', active, Before(replies), frozen)
            <4>1. Window \in acks /\ ~refused => Covered(toSink, active, Before(replies), frozen)
                BY <1>0 DEF Rear, Freezing
            <4> QED
                BY <1>a, <2>1, <2>2, <4>1, CoveredAppend
        <3>3. NotAligned'
            BY <1>0, <1>b, <2>3, <2>4, <2>5, <2>7, <3>1 DEF Rear, NotAligned
        <3>4. Passing'
            BY <1>0, <2>3, <2>4, <2>6, <2>7, <3>1 DEF Rear, Passing
        <3>5. Unfrozen'
            BY <1>0, <1>b, <2>1, <2>3, <2>7 DEF Rear, Unfrozen
        <3>6. Freezing'
            BY <1>0, <2>1, <2>4, <2>7, <3>1, <3>2 DEF Rear, Freezing
        <3> QED
            BY <3>3, <3>4, <3>5, <3>6 DEF Rear
    <2>8. CASE m.barrier = active
        <3>1. Has(toWindow, active) /\ completed = active
            BY <2>3, <2>8, Downstream
        <3>2. /\ ~Has(toWindow', active) /\ Has(toSink', active) /\ Once(toSink', active)
              /\ ~Has(toSink, active) /\ flushing # active
              /\ Window \notin acks /\ Sink \notin acks
            BY <1>0, <2>3, <2>4, <2>8, <3>1 DEF Rear, Passing
        <3>3. Sink \notin acks'
            BY <2>1, <3>2, RearTyped DEF Ack
        <3>4. NotAligned' /\ Unfrozen'
            BY <1>0, <3>1, <3>2 DEF NotAligned, Unfrozen
        <3>5. Passing'
            BY <1>0, <2>3, <2>6, <3>2, <3>3 DEF Rear, Passing
        <3>6. CASE Ack(active, Window) /\ frozen' = held /\ UNCHANGED refused
            <4>1. held \subseteq Before(replies)
                <5>1. \A r \in held : Injected(r[1])
                    BY <1>a, <3>1, AllDone, RowParts
                <5> QED
                    BY <1>0, <3>1, <5>1 DEF Rear, Unfrozen
            <4>2. Covered(toSink', active, Before(replies), held)
                BY <1>a, <2>1, <2>2, <2>8, CoveredAppend
            <4> QED
                BY <1>0, <2>1, <3>2, <3>3, <3>4, <3>5, <3>6, <4>1, <4>2 DEF Freezing, Rear
        <3>7. CASE Refuse(active)
            <4>1. refused'
                BY <3>7 DEF Refuse
            <4> QED
                BY <3>4, <3>5, <4>1 DEF Freezing, Rear
        <3> QED
            BY <2>1, <2>2, <2>8, <3>6, <3>7
    <2> QED
        BY <2>7, <2>8
<1> QED
    BY <1>1, <1>2, <1>3 DEF WindowSteps

\* When the sink has flushed, what is before the cut was delivered or frozen.
LEMMA FlushedRows ==
    ASSUME GraphInv, active # None, flushing = active, outbox = <<>>, failed = marked,
           Window \in acks, ~refused
    PROVE  Before(replies) \subseteq delivered \cup frozen
<1> SUFFICES ASSUME NEW r \in Before(replies), r \notin delivered PROVE r \in frozen
    OBVIOUS
<1>0. /\ completed = active /\ ~Has(toWindow, active) /\ Passing /\ Freezing
      /\ toWindow \in Seq(Message) /\ toSink \in Seq(Message)
    BY ActiveId, Downstream, RearTyped
<1>1. /\ Parted(toWindow, active, Before(replies)) /\ ~Has(toSink, active)
    BY <1>0 DEF Passing
<1>2. /\ held \cap Before(replies) \subseteq frozen
      /\ Covered(toSink, active, Before(replies), frozen)
    BY <1>0 DEF Freezing
<1>3. r \in AllRows /\ r[2] <= replies[r[1]] /\ r[1] \in Sources /\ r[2] \in Nat
    BY RowParts, Constants DEF Before
<1>4. ASSUME NEW s \in Sources
      PROVE  /\ Injected(s) /\ ~Has(Line(s), active) /\ Parted(Line(s), active, Before(replies))
             /\ replies[s] <= cursor[s] - unsent[s] /\ replies[s] \in Nat
             /\ cursor[s] \in Nat /\ unsent[s] \in Nat /\ Line(s) \in Seq(Message)
    <2>1. Injected(s) /\ ~Has(Line(s), active)
        BY <1>0, AllDone
    <2>2. replies[s] \in Nat
        BY <2>1, Constants DEF Injected
    <2>3. cursor[s] \in 0..Rows /\ unsent[s] \in 0..Batch
        BY ActiveId DEF TypeOK
    <2>4. cursor[s] \in Nat /\ unsent[s] \in Nat
        BY <2>3, Constants
    <2>5. Parted(Line(s), active, Before(replies)) /\ replies[s] <= cursor[s] - unsent[s]
        BY <2>1, ActiveId DEF Dividing
    <2> QED
        BY <2>1, <2>2, <2>4, <2>5, LineTyped, ActiveId
<1>5. r \in InFlight
    <2>1. failed = 0
        BY DEF GraphInv, Accounted
    <2>2. r[2] <= cursor[r[1]]
        BY <1>3, <1>4
    <2> QED
        BY <1>3, <2>1, <2>2 DEF GraphInv, Accounted
<1>6. ASSUME NEW s \in Sources, r \in Unsent(s) PROVE FALSE
    <2>1. PICK n \in cursor[s] - unsent[s] + 1..cursor[s] : r = <<s, n>>
        BY <1>6 DEF Unsent
    <2>2. n <= replies[s] /\ n > cursor[s] - unsent[s] /\ n \in Int
        BY <1>3, <1>4, <2>1
    <2> QED
        BY <1>4, <2>2
<1>7. ASSUME NEW s \in Sources, r \in RowsIn(Line(s)) PROVE FALSE
    BY <1>4, <1>7, PartedRows
<1>8. r \notin RowsIn(toWindow)
    BY <1>0, <1>1, PartedRows
<1>9. r \in RowsIn(toSink) => r \in frozen
    BY <1>0, <1>1, <1>2, CoveredRows
<1>10. r \notin RowsIn(outbox)
    BY RowsNone
<1> QED
    BY <1>2, <1>5, <1>6, <1>7, <1>8, <1>9, <1>10, FlightParts, ActiveId

\* The sink acknowledges after everything in front of the barrier is out.
LEMMA RearSink ==
    ASSUME GraphInv, active # None, SinkSteps
    PROVE  Rear'
<1>0. /\ Rear /\ active' = active /\ replies' = replies
      /\ UNCHANGED <<completed, toWindow, held, frozen, delivered>>
    <2>1. UNCHANGED <<active, replies, completed, toWindow, held, frozen, delivered>>
        BY DEF SinkSteps, SinkSend, SinkBarrier, SinkAbandon, SinkFlushed, SinkTimesOut, unionVars,
               windowVars, inboxVars, coordVars
    <2> QED
        BY <2>1, RearTyped
<1>a. toSink \in Seq(Message) /\ outbox \in Seq(Message)
    BY RearTyped
<1>b. Unfrozen'
    BY <1>0 DEF Rear, Unfrozen, Injected
<1>c. \A r : Injected(r[1])' <=> Injected(r[1])
    BY <1>0 DEF Injected
<1>1. CASE SinkSend
    <2>1. /\ flushing = None /\ toSink # <<>> /\ Head(toSink).barrier = None
          /\ toSink' = Tail(toSink) /\ outbox' = Append(outbox, Head(toSink))
          /\ UNCHANGED <<flushing, acks, refused>>
        BY <1>1 DEF SinkSend, inboxVars
    <2>2. Head(toSink) \in Message
        BY <1>a, <2>1, TailIndices
    <2>3. /\ Has(toSink', active) <=> Has(toSink, active)
          /\ Once(toSink, active) => Once(toSink', active)
        BY <1>a, <2>1, HasTail
    <2>4. RowsIn(outbox') = RowsIn(outbox) \cup Head(toSink).rows
        BY <1>a, <2>1, <2>2, RowsAppend
    <2>5. NotAligned' /\ Passing'
        BY <1>0, <1>c, <2>1, <2>3 DEF Rear, NotAligned, Passing
    <2>6. Window \in acks /\ ~refused =>
             /\ Covered(toSink', active, Before(replies), frozen)
             /\ \A r \in Head(toSink).rows :
                   r \in Before(replies) => r \in frozen \/ Has(toSink', active)
        <3>1. Window \in acks /\ ~refused => Covered(toSink, active, Before(replies), frozen)
            BY <1>0 DEF Rear, Freezing
        <3> QED
            BY <1>a, <2>1, <3>1, CoveredTail
    <2>7. Window \in acks /\ ~refused =>
             RowsIn(outbox') \cap Before(replies) \subseteq frozen \/ Has(toSink', active)
        <3>1. Window \in acks /\ ~refused =>
                 RowsIn(outbox) \cap Before(replies) \subseteq frozen \/ Has(toSink', active)
            BY <1>0, <2>1, <2>3 DEF Rear, Freezing
        <3> QED
            BY <2>4, <2>6, <3>1
    <2>8. Freezing'
        BY <1>0, <2>1, <2>6, <2>7 DEF Rear, Freezing
    <2> QED
        BY <1>b, <2>5, <2>8 DEF Rear
<1>2. CASE SinkBarrier
    <2>1. /\ flushing = None /\ toSink # <<>> /\ toSink' = Tail(toSink)
          /\ flushing' = IF Head(toSink).barrier = active THEN active ELSE None
          /\ UNCHANGED <<outbox, acks, refused>>
        BY <1>2 DEF SinkBarrier, inboxVars
    <2>2. /\ Has(toSink, active) <=> Has(toSink', active) \/ Head(toSink).barrier = active
          /\ Once(toSink, active) => Once(toSink', active)
          /\ Once(toSink, active) /\ Head(toSink).barrier = active => ~Has(toSink', active)
        BY <1>a, <2>1, HasTail
    <2>3. Has(toSink, active) <=> Has(toSink', active) \/ flushing' = active
        BY <2>1, <2>2
    <2>4. Once(toSink', active) /\ (flushing' = active => ~Has(toSink', active))
        BY <1>0, <2>1, <2>2 DEF Rear, Passing
    <2>5. NotAligned'
        BY <1>0, <1>c, <2>1, <2>3 DEF Rear, NotAligned
    <2>6. Passing'
        BY <1>0, <2>1, <2>3, <2>4 DEF Rear, Passing
    <2>7. Window \in acks /\ ~refused => Covered(toSink', active, Before(replies), frozen)
        <3>1. Window \in acks /\ ~refused => Covered(toSink, active, Before(replies), frozen)
            BY <1>0 DEF Rear, Freezing
        <3> QED
            BY <1>a, <2>1, <3>1, CoveredTail
    <2>8. Freezing'
        BY <1>0, <2>1, <2>3, <2>7 DEF Rear, Freezing
    <2> QED
        BY <1>b, <2>5, <2>6, <2>8 DEF Rear
<1>3. CASE SinkAbandon
    <2>1. /\ flushing # active /\ flushing' = None
          /\ UNCHANGED <<toSink, outbox, acks, refused>>
        BY <1>3 DEF SinkAbandon, inboxVars
    <2> QED
        BY <1>0, <1>b, <1>c, <2>1 DEF Rear, NotAligned, Passing, Freezing
<1>4. CASE SinkFlushed
    <2>1. /\ flushing # None /\ flushing' = None /\ UNCHANGED <<toSink, outbox>>
          /\ \/ failed = marked /\ Ack(flushing, Sink) /\ UNCHANGED refused
             \/ Refuse(flushing) /\ UNCHANGED acks
        BY <1>4 DEF SinkFlushed
    <2>2. outbox = <<>>
        <3>1. Len(outbox) = 0
            BY <1>4 DEF SinkFlushed, Pending
        <3> QED
            BY <1>a, <3>1
    <2>3. RowsIn(outbox') = {}
        BY <2>1, <2>2, RowsNone
    <2>4. CASE flushing # active
        <3>1. UNCHANGED <<acks, refused>>
            <4>1. refused \in BOOLEAN
                BY ActiveId DEF TypeOK
            <4>2. Refuse(flushing) => refused' = (refused \/ FALSE)
                BY <2>4 DEF Refuse
            <4> QED
                BY <2>1, <2>4, <4>1, <4>2 DEF Ack
        <3> QED
            BY <1>0, <1>b, <1>c, <2>1, <2>4, <3>1 DEF Rear, NotAligned, Passing, Freezing
    <2>5. CASE flushing = active
        <3>1. /\ completed = active /\ ~Has(toWindow, active) /\ ~Has(toSink, active)
            BY <1>0, <2>5, Downstream DEF Rear, Passing
        <3>2. NotAligned' /\ Passing'
            BY <1>0, <2>1, <3>1 DEF Rear, NotAligned, Passing
        <3>3. CASE failed = marked /\ Ack(flushing, Sink) /\ UNCHANGED refused
            <4>1. acks' = acks \cup {Sink}
                BY <2>5, <3>3 DEF Ack
            <4>2. Window \in acks' => Window \in acks
                BY <4>1, RearTyped
            <4>3. Window \in acks /\ ~refused => Before(replies) \subseteq delivered \cup frozen
                BY <2>2, <2>5, <3>3, FlushedRows
            <4>4. Freezing'
                BY <1>0, <2>1, <2>3, <3>3, <4>2, <4>3 DEF Rear, Freezing
            <4> QED
                BY <1>b, <3>2, <4>4 DEF Rear
        <3>4. CASE Refuse(flushing)
            <4>1. refused'
                BY <2>5, <3>4 DEF Refuse
            <4> QED
                BY <1>b, <3>2, <4>1 DEF Rear, Freezing
        <3> QED
            BY <2>1, <3>3, <3>4
    <2> QED
        BY <2>4, <2>5
<1>5. CASE SinkTimesOut
    <2>1. /\ flushing = active /\ flushing' = None /\ Refuse(flushing)
          /\ UNCHANGED <<toSink, outbox, acks>>
        BY <1>5 DEF SinkTimesOut
    <2>2. refused'
        BY <2>1 DEF Refuse
    <2>3. NotAligned' /\ Passing'
        BY <1>0, <1>c, <2>1 DEF Rear, NotAligned, Passing
    <2> QED
        BY <1>b, <2>2, <2>3 DEF Rear, Freezing
<1> QED
    BY <1>1, <1>2, <1>3, <1>4, <1>5 DEF SinkSteps

\* Deliveries only take from the outbox.
LEMMA RearOut ==
    ASSUME GraphInv, active # None, Deliver \/ DropResult
    PROVE  Rear'
<1>0. /\ Rear /\ UNCHANGED <<active, replies, completed, toWindow, held, toSink, flushing>>
      /\ UNCHANGED <<acks, refused, frozen>> /\ delivered \subseteq delivered'
      /\ outbox # <<>> /\ outbox' = Tail(outbox)
    <2>1. /\ UNCHANGED <<active, replies, completed, toWindow, held, toSink, flushing>>
          /\ UNCHANGED <<acks, refused, frozen>> /\ delivered \subseteq delivered'
          /\ outbox # <<>> /\ outbox' = Tail(outbox)
        BY DEF Deliver, DropResult, unionVars, windowVars, inboxVars, coordVars
    <2> QED
        BY <2>1, RearTyped
<1>1. RowsIn(outbox') \subseteq RowsIn(outbox)
    BY <1>0, RowsTail, RearTyped
<1>2. NotAligned' /\ Passing' /\ Unfrozen'
    BY <1>0 DEF Rear, NotAligned, Passing, Unfrozen, Injected
<1>3. Freezing'
    BY <1>0, <1>1 DEF Rear, Freezing
<1> QED
    BY <1>2, <1>3 DEF Rear

-----------------------------------------------------------------------------
(* The coordinator.                                                        *)

\* The tasks carry the attempt on.
LEMMA AttemptTask ==
    ASSUME GraphInv, active # None, Tasks
    PROVE  Attempt'
<1>1. Rear'
    BY RearSource, RearUnion, RearWindow, RearSink, RearOut DEF Tasks
<1>2. \A s \in Sources : Asking(s)' /\ Dividing(s)'
    BY AskingStep, DividingStep
<1> QED
    BY <1>1, <1>2 DEF Attempt, Rear

\* The first of the sources that are still to be asked is one of them.
LEMMA LeastIsMember ==
    ASSUME NEW S \in SUBSET Nat, S # {}
    PROVE  Min(S) \in S
<1>1. PICK x \in S : \A y \in S : ~ (<<y, x>> \in OpToRel(<, Nat))
    BY NatLessThanWellFounded, WFMin
<1>2. \A y \in S : ~ (y < x)
    BY <1>1 DEF OpToRel
<1>3. \A y \in S : x <= y
    BY <1>2
<1> QED
    BY <1>3 DEF Min

\* No channel holds an id that has not been given out.
LEMMA NotYet ==
    ASSUME NEW q \in Seq(Message), NEW n \in Nat, Older(q, n)
    PROVE  ~Has(q, n) /\ Once(q, n)
<1>1. \A i \in DOMAIN q : q[i].barrier # n
    <2> TAKE i \in DOMAIN q
    <2>1. q[i].barrier \in Nat /\ q[i].barrier < n
        BY MessageParts, IdIsNat DEF Older
    <2> QED
        BY <2>1
<1> QED
    BY <1>1 DEF Has, Once

\* Two channels of ids below n make one.
LEMMA OlderJoin ==
    ASSUME NEW p \in Seq(Message), NEW q \in Seq(Message), NEW n, Older(p, n), Older(q, n)
    PROVE  Older(p \o q, n) /\ p \o q \in Seq(Message)
<1>1. PICK a \in Nat, b \in Nat : a = Len(p) /\ b = Len(q)
    OBVIOUS
<1>2. ASSUME NEW i \in DOMAIN (p \o q) PROVE (p \o q)[i].barrier < n
    <2>1. i \in 1..a + b /\ (i \in 1..a \/ i \in a + 1..a + b)
        BY <1>1, <1>2, JoinIndices
    <2>2. CASE i \in 1..a
        BY <1>1, <2>2, JoinIndices DEF Older
    <2>3. CASE i \in a + 1..a + b
        <3>1. PICK j : j = i - a /\ j \in 1..b /\ (p \o q)[i] = q[j] /\ DOMAIN q = 1..b
            BY <1>1, <2>3, JoinIndices
        <3> QED
            BY <3>1 DEF Older
    <2> QED
        BY <2>1, <2>2, <2>3
<1> QED
    BY <1>2 DEF Older

\* An attempt begins with nothing known of it anywhere.
LEMMA AttemptBegin ==
    ASSUME GraphInv, BeginCheckpoint
    PROVE  Attempt'
<1>0. PICK n \in Nat : n = nextId /\ n # None
    BY Constants DEF GraphInv, TypeOK, None
<1>1. /\ active' = n /\ toCut' = Sources /\ replies' = replies
      /\ UNCHANGED sourceVars /\ UNCHANGED unionVars /\ UNCHANGED windowVars /\ UNCHANGED sinkVars
      /\ UNCHANGED inboxVars
    BY <1>0 DEF BeginCheckpoint
<1>2. replies = NoReplies /\ acks = {} /\ IdsBelow(n) /\ TypeOK
    BY <1>0 DEF BeginCheckpoint, GraphInv, RequestPhase, IdsBegun
<1>3. \A s \in Sources : replies'[s] = Waiting /\ ~Injected(s)'
    BY <1>1, <1>2, Constants DEF NoReplies, Injected, Waiting
<1>4. /\ toWindow \in Seq(Message) /\ toSink \in Seq(Message) /\ held \in SUBSET AllRows
      /\ \A s \in Sources : /\ cut[s] \in Nat /\ injecting[s] \in Nat
                            /\ ingress[s] \in Seq(Message) /\ mail[s] \in Seq(Message)
      /\ hand.msg \in Message /\ flushing \in Nat /\ aligning \in Nat /\ completed \in Nat
    BY <1>2, IdIsNat DEF TypeOK
<1>5. /\ ~Has(toWindow, n) /\ ~Has(toSink, n) /\ Once(toWindow, n) /\ Once(toSink, n)
    BY <1>2, <1>4, NotYet DEF IdsBelow, IdsBehind
<1>6. flushing # n /\ aligning # n /\ completed # n
    BY <1>2, <1>4 DEF IdsBelow, IdsBehind, IdsAtUnion
<1>7. ASSUME NEW s \in Sources PROVE ~Has(Line(s), n) /\ Once(Line(s), n)
    <2>1. Older(ingress[s], n) /\ Older(mail[s], n)
        BY <1>2 DEF IdsBelow, IdsAtSource
    <2>2. HandOf(s) \in Seq(Message) /\ Older(HandOf(s), n)
        <3>1. HandOf(s) \in Seq(Message)
            BY <1>2, LineTyped
        <3>2. hand.msg.barrier < n
            BY <1>2 DEF IdsBelow, IdsAtUnion
        <3>3. HandOf(s) = <<hand.msg>> \/ HandOf(s) = <<>>
            BY DEF HandOf
        <3>4. \A i \in DOMAIN HandOf(s) : HandOf(s)[i].barrier < n
            BY <3>2, <3>3
        <3> QED
            BY <3>1, <3>4 DEF Older
    <2>3. Older(HandOf(s) \o mail[s], n) /\ HandOf(s) \o mail[s] \in Seq(Message)
        BY <1>4, <2>1, <2>2, OlderJoin
    <2>4. Older(Line(s), n) /\ Line(s) \in Seq(Message)
        BY <1>4, <2>1, <2>3, OlderJoin DEF Line
    <2> QED
        BY <2>4, NotYet
<1>8. ASSUME NEW s \in Sources PROVE Asking(s)' /\ Dividing(s)'
    <2>1. Line(s)' = Line(s)
        BY <1>1, LineSame DEF sourceVars, unionVars
    <2>2. ~Has(Line(s)', n) /\ Once(Line(s)', n)
        BY <1>7, <2>1
    <2>3. cut'[s] # n /\ injecting'[s] # n
        <3>1. cut[s] < n /\ injecting[s] < n
            BY <1>2 DEF IdsBelow, IdsAtSource
        <3> QED
            BY <1>1, <1>4, <3>1 DEF sourceVars
    <2>4. ~Done(s)'
        BY <1>1, <1>6 DEF Done, unionVars
    <2>5. Asking(s)'
        BY <1>1, <1>3, <2>2, <2>3, <2>4 DEF Asking
    <2>6. Dividing(s)'
        BY <1>1, <1>3, <2>2, <2>4 DEF Dividing
    <2> QED
        BY <2>5, <2>6
<1>9. UNCHANGED <<toWindow, toSink, held, flushing, completed, acks>>
    BY <1>1 DEF unionVars, windowVars, sinkVars, inboxVars
<1>10. \A r : r \in RowsIn(toWindow) \/ r \in held => ~Injected(r[1])'
    BY <1>3, <1>4, RowsInChannel, RowParts
<1>11. NotAligned'
    BY <1>1, <1>2, <1>5, <1>6, <1>9, <1>10 DEF NotAligned
<1>12. Passing'
    BY <1>1, <1>2, <1>5, <1>6, <1>9 DEF Passing
<1>13. Unfrozen' /\ Freezing'
    BY <1>2, <1>9, <1>10 DEF Unfrozen, Freezing
<1> QED
    BY <1>8, <1>11, <1>12, <1>13 DEF Attempt

\* Sending a Cut is the only thing a source has heard of the attempt.
LEMMA AttemptCut ==
    ASSUME GraphInv, NEW s \in Sources, SendCut(s)
    PROVE  Attempt'
<1>0. /\ active # None /\ toCut # {} /\ toCut \in SUBSET Sources /\ cut \in [Sources -> Ids \cup {None}]
      /\ phase = "aligning"
    BY DEF SendCut, GraphInv, RequestPhase, TypeOK
<1>1. /\ s = Min(toCut) /\ cut' = [cut EXCEPT ![s] = active] /\ toCut' = toCut \ {s}
      /\ UNCHANGED <<cursor, unsent, injecting, ingress, mail, active, replies, delivered>>
      /\ UNCHANGED unionVars /\ UNCHANGED windowVars /\ UNCHANGED sinkVars /\ UNCHANGED inboxVars
    BY DEF SendCut
<1>2. s \in toCut
    BY <1>0, <1>1, SourceIsNat, LeastIsMember
<1>3. ASSUME NEW t \in Sources PROVE Asking(t)' /\ Dividing(t)'
    <2>0. Asking(t) /\ Dividing(t)
        BY <1>0, ActiveId
    <2>1. Line(t)' = Line(t)
        BY <1>1, LineSame DEF unionVars
    <2>2. (Done(t)' <=> Done(t)) /\ (Injected(t)' <=> Injected(t))
        BY <1>1 DEF Done, Injected, unionVars
    <2>3. cut'[t] = active => t = s \/ cut[t] = active
        BY <1>0, <1>1
    <2>4. Asking(t)'
        BY <1>1, <1>2, <2>0, <2>1, <2>2, <2>3 DEF Asking
    <2>5. Dividing(t)'
        BY <1>1, <2>0, <2>1, <2>2 DEF Dividing
    <2> QED
        BY <2>4, <2>5
<1>4. NotAligned' /\ Passing' /\ Unfrozen' /\ Freezing'
    <2>1. NotAligned /\ Passing /\ Unfrozen /\ Freezing
        BY <1>0, ActiveId
    <2>2. UNCHANGED <<toWindow, held, toSink, flushing, outbox, completed, acks, refused, frozen>>
        BY <1>1 DEF unionVars, windowVars, sinkVars, inboxVars
    <2> QED
        BY <1>1, <2>1, <2>2 DEF NotAligned, Passing, Unfrozen, Freezing, Injected
<1> QED
    BY <1>3, <1>4 DEF Attempt

\* When every participant has acknowledged, the cut can be restarted from.
LEMMA AlignedIsSafe ==
    ASSUME GraphInv, Aligned
    PROVE  (\A s \in Sources : Injected(s)) /\ Safe(replies, frozen)
<1>0. /\ phase = "aligning" /\ (\A s \in Sources : Injected(s)) /\ acks = Participants /\ ~refused
    BY DEF Aligned, Answered, Injected
<1>1. active # None /\ Window \in acks /\ Sink \in acks
    BY <1>0, ParticipantNames DEF GraphInv, RequestPhase
<1>2. /\ completed = active /\ ~Has(toWindow, active)
      /\ ~Has(toSink, active) /\ flushing # active /\ Freezing /\ Passing
    BY <1>1, Downstream, ActiveId DEF Passing
<1>3. /\ frozen \subseteq Before(replies) /\ held \cap Before(replies) \subseteq frozen
      /\ Covered(toSink, active, Before(replies), frozen)
      /\ RowsIn(outbox) \cap Before(replies) \subseteq frozen
      /\ Before(replies) \subseteq delivered \cup frozen
    BY <1>0, <1>1, <1>2 DEF Freezing
<1>4. ASSUME NEW s \in Sources
      PROVE  /\ ~Has(Line(s), active) /\ Parted(Line(s), active, Before(replies))
             /\ replies[s] <= cursor[s] - unsent[s] /\ replies[s] \in Nat
             /\ cursor[s] \in Nat /\ unsent[s] \in Nat /\ Line(s) \in Seq(Message)
    <2>1. Injected(s) /\ ~Has(Line(s), active)
        BY <1>1, <1>2, AllDone
    <2>2. replies[s] \in Nat
        BY <2>1, Constants DEF Injected
    <2>3. cursor[s] \in 0..Rows /\ unsent[s] \in 0..Batch
        BY <1>1, ActiveId DEF TypeOK
    <2>4. cursor[s] \in Nat /\ unsent[s] \in Nat
        BY <2>3, Constants
    <2>5. Parted(Line(s), active, Before(replies)) /\ replies[s] <= cursor[s] - unsent[s]
        BY <1>1, <2>1, ActiveId DEF Dividing
    <2> QED
        BY <1>1, <2>1, <2>2, <2>4, <2>5, LineTyped, ActiveId
<1>5. \A s \in Sources : replies[s] <= cursor[s]
    BY <1>4
<1>6. ASSUME NEW r \in InFlight, r \in Before(replies) PROVE r \in frozen
    <2>0. /\ r \in AllRows /\ r[2] <= replies[r[1]] /\ r[1] \in Sources
          /\ toWindow \in Seq(Message) /\ toSink \in Seq(Message)
        BY <1>1, <1>6, RowParts, RearTyped DEF Before
    <2>1. ASSUME NEW s \in Sources, r \in Unsent(s) PROVE FALSE
        <3>1. PICK n \in cursor[s] - unsent[s] + 1..cursor[s] : r = <<s, n>>
            BY <2>1 DEF Unsent
        <3>2. n <= replies[s] /\ n > cursor[s] - unsent[s] /\ n \in Int
            BY <1>4, <2>0, <3>1
        <3> QED
            BY <1>4, <3>2
    <2>2. ASSUME NEW s \in Sources, r \in RowsIn(Line(s)) PROVE FALSE
        BY <1>4, <1>6, <2>2, PartedRows
    <2>3. r \notin RowsIn(toWindow)
        <3>1. Parted(toWindow, active, Before(replies))
            BY <1>2 DEF Passing
        <3> QED
            BY <1>2, <1>6, <2>0, <3>1, PartedRows
    <2>4. r \in RowsIn(toSink) => r \in frozen
        BY <1>2, <1>3, <1>6, <2>0, CoveredRows
    <2> QED
        BY <1>1, <1>3, <1>6, <2>1, <2>2, <2>3, <2>4, FlightParts, ActiveId
<1> QED
    BY <1>0, <1>3, <1>5, <1>6 DEF Safe

-----------------------------------------------------------------------------
(* The inductive invariant.                                                *)

\* A running job keeps the types.
LEMMA TypeStep ==
    ASSUME GraphInv, Tasks \/ Coordinate
    PROVE  TypeOK'
<1>0. /\ TypeOK /\ IdsBegun /\ (\A s \in Sources : unsent[s] <= cursor[s]) /\ failed <= drops
      /\ hand # NoHand => hand.from \in Sources
      /\ phase = "committing" => \A s \in Sources : Injected(s)
    BY DEF GraphInv, Taken, Accounted, UnionRegisters
<1>1. CASE Tasks
    BY <1>0, <1>1, TypeSourceStep, TypeUnionStep, TypeWindowStep, TypeSinkStep DEF Tasks
<1>2. CASE Coordinate
    BY <1>0, <1>2, TypeCoordStep
<1> QED
    BY <1>1, <1>2

\* Each step keeps what is known of the active attempt.
LEMMA AttemptStep ==
    ASSUME GraphInv, Tasks \/ Coordinate
    PROVE  Attempt'
<1>0. TypeOK /\ RequestPhase
    BY DEF GraphInv
<1>1. CASE Tasks
    <2>1. CASE active # None
        BY <1>1, <2>1, AttemptTask
    <2>2. CASE active = None
        <3>1. active' = None
            BY <1>0, <1>1, <2>2, InboxChanges DEF Tasks
        <3> QED
            BY <3>1 DEF Attempt
    <2> QED
        BY <2>1, <2>2
<1>2. CASE BeginCheckpoint
    BY <1>2, AttemptBegin
<1>3. ASSUME NEW s \in Sources, SendCut(s) PROVE Attempt'
    BY <1>3, AttemptCut
<1>4. CASE CutFailed \/ Refused \/ Aligned \/ Committed \/ CommitFails \/ Timeout
    <2>1. active' = None
        BY <1>4 DEF CutFailed, Refused, Aligned, Committed, CommitFails, Timeout, EndRequest
    <2> QED
        BY <2>1 DEF Attempt
<1> QED
    BY <1>1, <1>2, <1>3, <1>4 DEF Coordinate

\* The snapshot that is being committed and the one that was.
LEMMA SnapshotStep ==
    ASSUME GraphInv, TypeOK', Tasks \/ Coordinate
    PROVE  /\ Safe(committed.pos, committed.held)'
           /\ phase' = "committing" =>
                 (\A s \in Sources : Injected(s)') /\ Safe(replies, frozen)'
<1>0. /\ TypeOK /\ RequestPhase /\ (\A s \in Sources : Taken(s))
      /\ Safe(committed.pos, committed.held)
      /\ phase = "committing" => (\A s \in Sources : Injected(s)) /\ Safe(replies, frozen)
    BY DEF GraphInv
<1>1. PICK p \in [Sources -> 0..Rows], h \in SUBSET AllRows :
            p = committed.pos /\ h = committed.held
    BY <1>0 DEF TypeOK
<1>2. Safe(p, h)'
    BY <1>0, <1>1, SafeStep
<1>3. UNCHANGED committed => Safe(committed.pos, committed.held)'
    BY <1>1, <1>2 DEF Safe, Before
<1>4. ASSUME (\A s \in Sources : Injected(s)), Safe(replies, frozen)
      PROVE  /\ UNCHANGED <<replies, frozen>> =>
                   (\A s \in Sources : Injected(s)') /\ Safe(replies, frozen)'
             /\ committed'.pos = replies /\ committed'.held = frozen =>
                   Safe(committed.pos, committed.held)'
    <2>1. replies \in [Sources -> 0..Rows]
        BY <1>0, <1>4 DEF TypeOK, Injected
    <2>2. PICK pos \in [Sources -> 0..Rows], f \in SUBSET AllRows :
                pos = replies /\ f = frozen
        BY <1>0, <2>1 DEF TypeOK
    <2>3. Safe(pos, f)'
        BY <1>0, <1>4, <2>2, SafeStep
    <2>4. UNCHANGED <<replies, frozen>> => Safe(replies, frozen)'
        BY <2>2, <2>3 DEF Safe, Before
    <2>5. UNCHANGED replies => \A s \in Sources : Injected(s)'
        BY <1>4 DEF Injected
    <2>6. committed'.pos = replies /\ committed'.held = frozen =>
              Safe(committed.pos, committed.held)'
        BY <2>2, <2>3 DEF Safe, Before
    <2> QED
        BY <2>4, <2>5, <2>6
<1>5. CASE Tasks
    <2>1. /\ UNCHANGED <<phase, committed>>
          /\ phase = "committing" => UNCHANGED <<replies, frozen>>
        <3>1. phase = "committing" => active = None
            BY <1>0 DEF RequestPhase
        <3> QED
            BY <1>0, <1>5, <3>1, InboxChanges DEF Tasks
    <2> QED
        BY <1>0, <1>3, <1>4, <2>1
<1>6. CASE Aligned
    <2>1. UNCHANGED <<replies, frozen, committed>>
        BY <1>6 DEF Aligned
    <2> QED
        BY <1>3, <1>4, <1>6, <2>1, AlignedIsSafe
<1>7. CASE Committed
    <2>1. phase = "committing" /\ phase' = "idle" /\ committed'.pos = replies /\ committed'.held = frozen
        BY <1>7 DEF Committed
    <2> QED
        BY <1>0, <1>4, <2>1
<1>8. CASE BeginCheckpoint \/ (\E s \in Sources : SendCut(s)) \/ CutFailed \/ Refused \/ CommitFails \/ Timeout
    <2>1. UNCHANGED committed /\ phase' # "committing"
        BY <1>8 DEF BeginCheckpoint, SendCut, CutFailed, Refused, CommitFails, Timeout
    <2> QED
        BY <1>3, <2>1
<1> QED
    BY <1>5, <1>6, <1>7, <1>8 DEF Coordinate

\* Each step of a running job keeps the invariant.
LEMMA JobStep ==
    ASSUME GraphInv, Tasks \/ Coordinate
    PROVE  GraphInv'
<1>0. /\ TypeOK /\ IdsBegun /\ RequestPhase /\ UnionRegisters /\ Accounted
      /\ \A s \in Sources : Taken(s)
    BY DEF GraphInv
<1>1. TypeOK' /\ Attempt'
    BY TypeStep, AttemptStep
<1>2. IdsBegun' /\ RequestPhase' /\ UnionRegisters'
    BY <1>0, IdsStep, RequestStep, RegistersStep
<1>3. Accounted' /\ \A s \in Sources : Taken(s)'
    BY <1>0, <1>1, AccountedStep, TakenStep
<1>4. /\ Safe(committed.pos, committed.held)'
      /\ phase' = "committing" => (\A s \in Sources : Injected(s)') /\ Safe(replies, frozen)'
    BY <1>1, SnapshotStep
<1> QED
    BY <1>1, <1>2, <1>3, <1>4 DEF GraphInv

\* So does a step that changes nothing.
LEMMA StutterStep ==
    ASSUME GraphInv, UNCHANGED vars
    PROVE  GraphInv'
<1>1. /\ UNCHANGED sourceVars /\ UNCHANGED unionVars /\ UNCHANGED windowVars
      /\ UNCHANGED sinkVars /\ UNCHANGED inboxVars /\ UNCHANGED coordVars
      /\ UNCHANGED <<committed, delivered>> /\ UNCHANGED boundVars
    BY DEF vars
<1>2. TypeOK'
    BY <1>1, TypeStands, TypeParts DEF GraphInv
<1>3. IdsBegun' /\ RequestPhase' /\ UnionRegisters'
    BY <1>1 DEF GraphInv, IdsBegun, IdsBelow, IdsAtSource, IdsAtUnion, IdsBehind, RequestPhase,
                UnionRegisters, Sending, sourceVars, unionVars, windowVars, sinkVars, inboxVars, coordVars
<1>4. \A s \in Sources : Line(s)' = Line(s)
    BY <1>1, LineSame DEF sourceVars, unionVars
<1>5. \A s \in Sources : Taken(s)'
    BY <1>1, <1>4 DEF GraphInv, Taken, sourceVars
<1>6. InFlight' = InFlight
    BY <1>1 DEF InFlight, sourceVars, unionVars, windowVars, sinkVars
<1>7. Accounted'
    BY <1>1, <1>6 DEF GraphInv, Accounted, sourceVars, sinkVars, boundVars
<1>8. /\ Safe(committed.pos, committed.held)'
      /\ phase' = "committing" => (\A s \in Sources : Injected(s)') /\ Safe(replies, frozen)'
    BY <1>1, <1>6 DEF GraphInv, Safe, Injected, sourceVars, coordVars, inboxVars
<1>9. Attempt'
    <2>1. \A s \in Sources : Asking(s)' <=> Asking(s)
        BY <1>1, <1>4 DEF Asking, Done, Injected, sourceVars, unionVars, coordVars
    <2>2. \A s \in Sources : Dividing(s)' <=> Dividing(s)
        BY <1>1, <1>4 DEF Dividing, Done, Injected, sourceVars, unionVars, coordVars
    <2>3. (NotAligned' <=> NotAligned) /\ (Passing' <=> Passing)
        BY <1>1 DEF NotAligned, Passing, Injected, unionVars, windowVars, sinkVars, inboxVars, coordVars
    <2>4. (Unfrozen' <=> Unfrozen) /\ (Freezing' <=> Freezing)
        BY <1>1 DEF Unfrozen, Freezing, Injected, unionVars, windowVars, sinkVars, inboxVars, coordVars
    <2> QED
        BY <1>1, <2>1, <2>2, <2>3, <2>4 DEF GraphInv, Attempt, coordVars
<1> QED
    BY <1>2, <1>3, <1>5, <1>7, <1>8, <1>9 DEF GraphInv

-----------------------------------------------------------------------------
(* Theorems.                                                               *)

\* GraphInv holds of every state of a graph job: the ids in the job, the rows
\* under way, and how far the barrier of the active attempt has come agree.
THEOREM GraphInvariant == Spec => []GraphInv
<1>1. GraphInv /\ [Next]_vars => GraphInv'
    BY JobStep, CrashInvariant, StutterStep, NextParts
<1> QED
    BY <1>1, InitInvariant, PTL DEF Spec

\* Every variable of the job keeps its type; no channel holds more than its
\* capacity.
THEOREM GraphTypeCorrect == Spec => []TypeOK
<1>1. GraphInv => TypeOK
    BY DEF GraphInv
<1> QED
    BY <1>1, GraphInvariant, PTL

\* A restart from the committed snapshot loses no row: each row before the
\* committed positions is in the committed window state or was delivered.
THEOREM RestartLosesNothing == Spec => []NoLossBeforeCut
<1>1. GraphInv => NoLossBeforeCut
    BY DEF GraphInv, Safe, NoLossBeforeCut, BeforeCut, Before
<1> QED
    BY <1>1, GraphInvariant, PTL

\* A restart counts no row twice: the committed window state holds no row
\* that will be read again, and no row from before the cut that it misses is
\* still on its way.
THEOREM RestartCountsOnce == Spec => []CutIsClean
<1>1. GraphInv => CutIsClean
    BY DEF GraphInv, Safe, CutIsClean, BeforeCut, Before
<1> QED
    BY <1>1, GraphInvariant, PTL
=============================================================================
