------------------------ MODULE JetStreamSourceProofs ------------------------
(***************************************************************************)
(* Theorems about JetStreamSource, for any stream, any set of records that *)
(* do not decode, any limits and any number of attempts and faults.        *)
(***************************************************************************)
EXTENDS JetStreamSource, SequenceTheorems, FiniteSetTheorems,
        WellFoundedInduction, TLAPS

Attempting == phase \in {"running", "closing"}

-----------------------------------------------------------------------------
(* Types, by the part of the system that keeps the state.                  *)

BrokerTyped ==
    /\ first \in Nat /\ binding \in Nat /\ attempt \in Nat
    /\ consumers \subseteq Nat /\ consumer \in Consumer
    /\ phase \in {"down", "delete", "bind", "create", "running", "closing"}
    /\ faults \in Nat /\ commands \in Nat
DiskTyped ==
    /\ hist \in Seq(Generation)
    /\ dlq \subseteq Poison /\ captured \in [Poison -> Nat] /\ floor \in Nat
ReaderTyped ==
    /\ wire \in Seq(Frame) /\ pulling \in BOOLEAN /\ LedgerOK(ledger)
BuildTyped ==
    /\ deferred \in Nat /\ qfull \in BOOLEAN /\ build \in Build
    /\ pc \in {"loop", "decode", "poll", "batch", "barrier"}
CutTyped ==
    /\ bootstrap \in BOOLEAN /\ workers \subseteq Worker /\ nextId \in Nat
    /\ command \in BOOLEAN
States == {"sending", "aligning", "aligned", "durable", "finished", "returned",
           "expired", "error"}
JobTyped == inbox \in Seq(Batch) /\ applied \in Seq(Nat)

-----------------------------------------------------------------------------
(* The consumer at the broker.                                             *)

\* The binding names every consumer there is; it moves only when there is none.
ConsumerInv ==
    /\ consumers \subseteq {binding} \ {None}
    /\ phase = "bind" => consumers = {}
    /\ phase \in {"create", "running", "closing"} => binding = attempt
    /\ phase # "down" => attempt # 0

\* Between attempts nothing is under way, and an attempt that opens has found a
\* checkpoint to restore.
Resting ==
    /\ ~Attempting => /\ workers = {} /\ inbox = <<>> /\ deferred = None
                      /\ pc = "loop" /\ command = FALSE
    /\ phase \in {"delete", "bind", "create"} => hist = <<>> \/ Readable # {}

-----------------------------------------------------------------------------
(* Reading and quarantining.                                               *)

\* A record in hand is the newest one received, and lies above the floor that
\* the purges have raised.
Reading ==
    Attempting =>
        /\ floor <= ledger.received
        /\ deferred # None => deferred = ledger.received /\ floor < deferred
        /\ pc \in {"decode", "poll"} => deferred = None
        /\ pc = "decode" => /\ build.record = ledger.received
                            /\ build.record = build.last + 1
                            /\ floor < build.record
        /\ pc = "poll" => build.last = ledger.received

\* A record that was captured is still in the DLQ, or lies at or below the floor.
Captured ==
    /\ \A s \in dlq : captured[s] >= 1
    /\ \A s \in Poison : /\ captured[s] <= 1
                         /\ captured[s] >= 1 => s \in dlq \/ s <= floor

-----------------------------------------------------------------------------
(* Checkpoint workers.                                                     *)

\* At most one worker is at the gate, and its cut is the highest.
Gate ==
    /\ nextId # 0 /\ (command => \A w \in workers : w.st \notin AtGate)
    /\ \A w \in workers : w.id # 0 /\ w.id < nextId /\ w.cut <= ledger.published
    /\ \A v, w \in workers :
          v.st \in AtGate => w.cut <= v.cut /\ (w.st \in AtGate => w = v)
    /\ \A w \in workers : w.st = "sending" => w.cut = ledger.published /\ pc = "barrier"

-----------------------------------------------------------------------------
(* Acknowledgement.                                                        *)

LastCut == IF hist = <<>> THEN 0 ELSE Last(hist).cut

\* What can be read again was cut in order, and the last cut is the highest.
Sorted ==
    \A i, j \in DOMAIN hist :
        i < j /\ hist[i].readable /\ (hist[j].readable \/ j = Len(hist)) =>
            hist[i].cut <= hist[j].cut

Behind(w) == w.st \in {"sending", "aligning", "aligned"}

\* What the broker has acknowledged is durable.
Covered == \A s \in consumer.acked : s <= LastCut

\* What the ledger has committed is durable, and only that is acknowledged.
Committed ==
    Attempting =>
        /\ ledger.committed <= ledger.published /\ ledger.committed <= LastCut
        /\ \A s \in consumer.acked : s <= ledger.committed
        /\ \A s \in Pending : ledger.entries[s].confirm # "none" => s <= ledger.committed
        /\ \A i \in DOMAIN hist : hist[i].readable => hist[i].cut <= ledger.published

\* No cut under way falls behind the ones that are durable.
Cuts ==
    \A w \in workers :
        /\ Behind(w) => ledger.committed <= w.cut
        /\ Behind(w) => \A i \in DOMAIN hist : hist[i].readable => hist[i].cut <= w.cut
        /\ w.st \in {"durable", "finished", "returned"} => w.cut <= LastCut

-----------------------------------------------------------------------------
(* The rows.                                                               *)

\* Every record that does not decode was captured, up to a position.
Caught(n) == \A s \in Poison : s <= n => captured[s] >= 1

\* The batch under construction.
Building ==
    Attempting /\ pc \in {"decode", "poll", "batch"} =>
        /\ build.first # 0 /\ build.first <= build.last + 1
        /\ Span(build.rows, build.first - 1, build.last)
        /\ \A s \in Poison : build.first <= s /\ s <= build.last => captured[s] >= 1

\* A worker that waits for a barrier cut where the barrier stands; one that has
\* not sent its barrier has none in the inbox.
Serves(w, barrier, p) ==
    w.id = barrier => w.st # "sending" /\ (w.st = "aligning" => w.cut = p)

\* Where the job stands after each batch of its inbox.
Places(pos) ==
    /\ Span(applied, 0, pos[0])
    /\ pos[Len(inbox)] <= ledger.published
    /\ Span(<<>>, pos[Len(inbox)], ledger.published)
    /\ \A i \in 1..Len(inbox) :
          /\ pos[i - 1] <= pos[i]
          /\ Span(inbox[i].rows, pos[i - 1], pos[i])
          /\ inbox[i].barrier # None => inbox[i].rows = <<>>
          /\ inbox[i].barrier < nextId
          /\ \A w \in workers : Serves(w, inbox[i].barrier, pos[i])

CaughtUp == Attempting => Caught(ledger.published)
Placed == Attempting => \E pos \in [0..Len(inbox) -> Nat] : Places(pos)

\* A worker that is aligned holds the rows of its cut.
Aligned == \A w \in workers : w.st = "aligned" => Span(w.rows, 0, w.cut)

-----------------------------------------------------------------------------
(* Rows between two positions of the stream.                               *)

\* No row lies between a position and itself.
LEMMA SpanNothing == \A n \in Nat : Span(<<>>, n, n)
BY DEF Span, Range

\* Two stretches that meet make one.
LEMMA SpanJoin ==
    ASSUME NEW a \in Nat, NEW b \in Nat, NEW c \in Nat, a <= b, b <= c,
           NEW r \in Seq(Nat), NEW t \in Seq(Nat), Span(r, a, b), Span(t, b, c)
    PROVE  Span(r \o t, a, c)
<1>1. /\ Len(r \o t) = Len(r) + Len(t) /\ r \o t \in Seq(Nat)
      /\ \A i \in 1..Len(r) : (r \o t)[i] = r[i] /\ r[i] \in Range(r)
      /\ \A i \in Len(r) + 1..Len(r) + Len(t) :
            /\ (r \o t)[i] = t[i - Len(r)] /\ t[i - Len(r)] \in Range(t)
            /\ i - Len(r) \in 1..Len(t)
    BY DEF Range
<1>2. Range(r \o t) = Range(r) \cup Range(t)
    BY RangeConcatenation
<1>3. {s \in a + 1..b : s \notin Poison} \cup {s \in b + 1..c : s \notin Poison}
        = {s \in a + 1..c : s \notin Poison}
    OBVIOUS
<1>4. ASSUME NEW i \in DOMAIN (r \o t), NEW j \in DOMAIN (r \o t), i < j
      PROVE  (r \o t)[i] < (r \o t)[j]
    <2>1. i \in 1..Len(r) + Len(t) /\ j \in 1..Len(r) + Len(t)
        BY <1>1
    <2>0. Len(r) \in Nat /\ Len(t) \in Nat /\ i \in Nat /\ j \in Nat
        BY <2>1
    <2>2. CASE j <= Len(r)
        <3>1. i \in 1..Len(r) /\ j \in 1..Len(r)
            BY <1>4, <2>0, <2>1, <2>2
        <3>2. /\ (r \o t)[i] = r[i] /\ (r \o t)[j] = r[j]
              /\ i \in DOMAIN r /\ j \in DOMAIN r
            BY <1>1, <3>1
        <3> QED
            BY <1>4, <3>2 DEF Span
    <2>3. CASE Len(r) < i
        <3>1. /\ Len(r) < j /\ i - Len(r) < j - Len(r)
              /\ i \in Len(r) + 1..Len(r) + Len(t) /\ j \in Len(r) + 1..Len(r) + Len(t)
            BY <1>4, <2>0, <2>1, <2>3
        <3>2. /\ (r \o t)[i] = t[i - Len(r)] /\ (r \o t)[j] = t[j - Len(r)]
              /\ i - Len(r) \in DOMAIN t /\ j - Len(r) \in DOMAIN t
            BY <1>1, <3>1
        <3> QED
            BY <3>1, <3>2 DEF Span
    <2>4. CASE i <= Len(r) /\ Len(r) < j
        <3>0. i \in 1..Len(r) /\ j \in Len(r) + 1..Len(r) + Len(t)
            BY <2>0, <2>1, <2>4
        <3>1. (r \o t)[i] \in a + 1..b /\ (r \o t)[j] \in b + 1..c
            BY <1>1, <3>0 DEF Span
        <3>2. \A x \in a + 1..b, y \in b + 1..c : x < y
            OBVIOUS
        <3> QED
            BY <3>1, <3>2
    <2>5. \/ j <= Len(r) \/ Len(r) < i
          \/ i <= Len(r) /\ Len(r) < j
        BY <2>0
    <2> QED
        BY <2>2, <2>3, <2>4, <2>5
<1> QED
    BY <1>2, <1>3, <1>4 DEF Span

\* The next record that decodes makes the stretch longer by itself.
LEMMA SpanRow ==
    ASSUME NEW a \in Nat, NEW b \in Nat, a <= b, NEW r \in Seq(Nat), Span(r, a, b),
           b + 1 \notin Poison
    PROVE  Span(Append(r, b + 1), a, b + 1)
<1>1. Span(<<b + 1>>, b, b + 1)
    BY DEF Span, Range
<1>2. Append(r, b + 1) = r \o <<b + 1>>
    BY AppendIsConcat
<1>3. b + 1 \in Nat /\ b <= b + 1 /\ <<b + 1>> \in Seq(Nat)
    OBVIOUS
<1>4. Span(r \o <<b + 1>>, a, b + 1)
    BY <1>1, <1>3, SpanJoin
<1> QED
    BY <1>2, <1>4

\* A record that does not decode makes it longer by no row.
LEMMA SpanPoison ==
    ASSUME NEW a \in Nat, NEW b \in Nat, a <= b, NEW r \in Seq(Nat), Span(r, a, b),
           b + 1 \in Poison
    PROVE  Span(r, a, b + 1)
<1>1. Span(<<>>, b, b + 1)
    BY DEF Span, Range
<1>2. r \o <<>> = r
    OBVIOUS
<1>3. b + 1 \in Nat /\ b <= b + 1 /\ <<>> \in Seq(Nat)
    OBVIOUS
<1>4. Span(r \o <<>>, a, b + 1)
    BY <1>1, <1>3, SpanJoin
<1> QED
    BY <1>2, <1>4

-----------------------------------------------------------------------------
(* The retained checkpoints.                                               *)

\* What is kept after a checkpoint ends with it, and begins with checkpoints
\* that were there before, in their order.
LEMMA KeepLast ==
    ASSUME NEW h \in Seq(Generation), NEW g \in Generation
    PROVE  LET k == Keep(Append(h, g))
           IN  /\ k \in Seq(Generation) /\ Len(k) \in Nat \ {0} /\ k[Len(k)] = g
               /\ k # <<>>
               /\ \E d \in Nat : \A i \in 1..Len(k) - 1 :
                     i + d \in 1..Len(h) /\ k[i] = h[i + d]
<1> DEFINE k == Keep(Append(h, g))
           a == Append(h, g)
           m == IF Len(a) > Retain THEN Len(a) - Retain + 1 ELSE 1
<1>1. /\ a \in Seq(Generation) /\ Len(a) = Len(h) + 1 /\ a[Len(a)] = g
      /\ \A i \in 1..Len(h) : a[i] = h[i]
    OBVIOUS
<1>2. m \in 1..Len(a) /\ k = SubSeq(a, m, Len(a))
    BY <1>1, JetStreamAssumption DEF Keep
<1> HIDE DEF a, m, k
<1>3. /\ k \in Seq(Generation) /\ Len(k) = Len(a) - m + 1
      /\ \A i \in 1..Len(k) : k[i] = a[m + i - 1]
    BY <1>1, <1>2
<1>4. m - 1 \in Nat /\ Len(k) \in Nat \ {0} /\ m + Len(k) - 1 = Len(a)
    BY <1>1, <1>2, <1>3
<1>5. ASSUME NEW i \in 1..Len(k) - 1
      PROVE  i + (m - 1) \in 1..Len(h) /\ k[i] = h[i + (m - 1)]
    <2>1. m + i - 1 = i + (m - 1) /\ i + (m - 1) \in 1..Len(h) /\ i \in 1..Len(k)
        BY <1>1, <1>2, <1>4
    <2> QED
        BY <1>1, <1>3, <2>1
<1>6. k[Len(k)] = g
    BY <1>1, <1>3, <1>4
<1>7. k # <<>>
    BY <1>4
<1> QED
    BY <1>3, <1>4, <1>5, <1>6, <1>7 DEF k

\* An attempt restores the newest checkpoint that can be read.
LEMMA RestoredNewest ==
    ASSUME hist \in Seq(Generation), hist # <<>>, Readable # {}
    PROVE  \E m \in 1..Len(hist) :
              /\ Restored = hist[m] /\ hist[m].readable
              /\ \A j \in 1..Len(hist) : hist[j].readable => j <= m
<1> DEFINE T == {Len(hist) - i : i \in Readable}
<1>0. Readable \subseteq 1..Len(hist) /\ Len(hist) \in Nat
    BY DEF Readable
<1>1. T \subseteq Nat /\ T # {}
    <2>1. \A t \in T : t \in Nat
        BY <1>0
    <2>2. PICK i \in Readable : TRUE
        OBVIOUS
    <2>3. Len(hist) - i \in T
        BY <2>2
    <2> QED
        BY <2>1, <2>3
<1>2. PICK x \in T : \A y \in T : ~ (<<y, x>> \in OpToRel(<, Nat))
    BY <1>1, NatLessThanWellFounded, WFMin
<1>3. \A y \in T : ~ (y < x)
    BY <1>1, <1>2 DEF OpToRel
<1>4. PICK m \in Readable : x = Len(hist) - m
    BY <1>2
<1>5. \A y \in Readable : y <= m
    <2> TAKE y \in Readable
    <2>1. ~ (Len(hist) - y < Len(hist) - m)
        BY <1>3, <1>4
    <2>2. y \in Int /\ m \in Int
        BY <1>0, <1>4
    <2> QED
        BY <1>0, <2>1, <2>2
<1> DEFINE c == CHOOSE i \in Readable : \A j \in Readable : j <= i
<1>6. c \in Readable /\ \A j \in Readable : j <= c
    BY <1>4, <1>5
<1>7. Restored = hist[c]
    BY DEF Restored
<1> HIDE DEF c
<1> QED
    BY <1>0, <1>6, <1>7 DEF Readable

\* What an attempt restores is a cut and the rows up to it.
LEMMA RestoredTyped ==
    ASSUME hist \in Seq(Generation), hist = <<>> \/ Readable # {}
    PROVE  Restored.cut \in Nat /\ Restored.rows \in Seq(Nat)
<1>1. CASE hist = <<>>
    BY <1>1 DEF Restored
<1>2. CASE hist # <<>>
    <2>1. PICK m \in 1..Len(hist) : Restored = hist[m]
        BY <1>2, RestoredNewest
    <2>2. hist[m] \in Generation
        OBVIOUS
    <2> QED
        BY <2>1, <2>2 DEF Generation
<1> QED
    BY <1>1, <1>2

\* A fresh consumer and a fresh ledger have their types.
LEMMA FreshTyped ==
    ASSUME NEW c \in Nat
    PROVE  /\ NewConsumer(c) \in Consumer
           /\ LedgerOK(NewLedger(c)) /\ DOMAIN NewLedger(c).entries = {}
           /\ NewLedger(c).received = c /\ NewLedger(c).published = c
           /\ NewLedger(c).committed = c
BY FS_EmptySet DEF NewConsumer, Consumer, NewLedger, LedgerOK, Ledger

\* What the broker delivers has its types.
LEMMA DeliverTyped ==
    ASSUME first \in Nat, consumer \in Consumer, NEW again \in Seq(Nat), NEW n \in Nat,
           Deliver(again, n)
    PROVE  /\ consumer' \in Consumer /\ wire' \in Seq(Frame)
           /\ consumer'.acked = consumer.acked
<1> DEFINE from == IF consumer.next < first THEN first ELSE consumer.next
           more == [i \in 1..n |-> from + i - 1]
           seqs == again \o more
<1>1. from \in Nat /\ consumer.count \in Nat /\ consumer.unacked \subseteq Nat
    BY DEF Consumer
<1>2. more \in Seq(Nat)
    <2>1. \A i \in 1..n : more[i] \in Nat
        BY <1>1
    <2> QED
        BY <2>1, IsASeq
<1>3. seqs \in Seq(Nat) /\ Len(seqs) \in Nat
    BY <1>2
<1>4. /\ wire' = [i \in DOMAIN seqs |-> [seq |-> seqs[i], count |-> consumer.count + i]]
      /\ consumer' = [consumer EXCEPT
                        !.next = IF n = 0 THEN @ ELSE from + n,
                        !.unacked = @ \cup (from..from + n - 1),
                        !.count = @ + Len(seqs)]
    BY DEF Deliver, Frames
<1> HIDE DEF from, more, seqs
<1>5. wire' \in Seq(Frame)
    <2>1. DOMAIN seqs = 1..Len(seqs)
        BY <1>3
    <2>2. \A i \in 1..Len(seqs) :
             [seq |-> seqs[i], count |-> consumer.count + i] \in Frame
        BY <1>1, <1>3 DEF Frame
    <2> QED
        BY <1>3, <1>4, <2>1, <2>2, IsASeq
<1>6. from..from + n - 1 \subseteq Nat
    BY <1>1
<1>7. consumer' \in Consumer /\ consumer'.acked = consumer.acked
    <2>1. PICK x \in Nat, y \in SUBSET Nat, z \in Nat :
             consumer' = [consumer EXCEPT !.next = x, !.unacked = y, !.count = z]
        <3>1. (IF n = 0 THEN consumer.next ELSE from + n) \in Nat
            BY <1>1 DEF Consumer
        <3>2. consumer.unacked \cup (from..from + n - 1) \in SUBSET Nat
            BY <1>1, <1>6
        <3>3. consumer.count + Len(seqs) \in Nat
            BY <1>1, <1>3
        <3> QED
            BY <1>4, <3>1, <3>2, <3>3
    <2> QED
        BY <2>1 DEF Consumer
<1> QED
    BY <1>5, <1>7

\* An acknowledgement keeps the consumer's type.
LEMMA AckTyped ==
    ASSUME consumer \in Consumer, NEW s \in Msgs, AckAtBroker(s)
    PROVE  consumer' \in Consumer /\ consumer'.acked = consumer.acked \cup {s}
BY DEF AckAtBroker, Consumer

\* A pull asks for some messages.
LEMMA PullDelivers ==
    ASSUME consumer \in Consumer, IsFiniteSet(Pending), PreparePull
    PROVE  \E again \in Seq(Nat), n \in Nat : Deliver(again, n)
<1> DEFINE room == MaxPending - Cardinality(Pending)
           count == IF room < PullMessages THEN room ELSE PullMessages
<1>1. count \in Int
    BY FS_CardinalityType, JetStreamAssumption
<1>2. \/ \E n \in 0..count : Deliver(<<>>, n)
      \/ \E s \in consumer.unacked, n \in 0..count - 1 : Deliver(<<s>>, n)
    BY DEF PreparePull
<1>3. <<>> \in Seq(Nat) /\ \A s \in consumer.unacked : <<s>> \in Seq(Nat)
    BY DEF Consumer
<1> HIDE DEF count
<1>4. 0..count \subseteq Nat /\ 0..count - 1 \subseteq Nat
    BY <1>1
<1> QED
    BY <1>2, <1>3, <1>4

-----------------------------------------------------------------------------
(* What the operations of the ledger change.                               *)

\* The fields of a ledger.
LEMMA LedgerFields ==
    ASSUME NEW L, LedgerOK(L)
    PROVE  /\ L.delivered \in Nat /\ L.received \in Nat /\ L.published \in Nat
           /\ L.committed \in Nat /\ DOMAIN L.entries \subseteq Nat
           /\ \A s \in DOMAIN L.entries : L.entries[s] \in Entry
BY DEF LedgerOK, Ledger

\* A ledger whose entries are replaced.
LEMMA LedgerEntries ==
    ASSUME NEW L, LedgerOK(L), NEW D \in SUBSET Nat, IsFiniteSet(D), NEW e \in [D -> Entry]
    PROVE  LedgerOK([L EXCEPT !.entries = e])
BY DEF LedgerOK, Ledger

\* A frame that is observed adds the next message, or a known one again.
LEMMA ObservedEffect ==
    ASSUME LedgerOK(ledger), NEW f \in Frame, ~ObserveFails(f)
    PROVE  /\ LedgerOK(Observed(f))
           /\ Observed(f).published = ledger.published
           /\ Observed(f).committed = ledger.committed
           /\ Known(f) => /\ Observed(f).received = ledger.received
                          /\ Observed(f).entries = ledger.entries
           /\ ~Known(f) => /\ Observed(f).received = ledger.received + 1
                           /\ f.seq = ledger.received + 1
                           /\ DOMAIN Observed(f).entries = Pending \cup {f.seq}
                           /\ \A s \in Pending : Observed(f).entries[s] = ledger.entries[s]
                           /\ \A s \in DOMAIN Observed(f).entries :
                                 s \in Pending \/ Observed(f).entries[s].confirm = "none"
<1>0. /\ ledger \in Ledger(Pending) /\ Pending \subseteq Nat /\ IsFiniteSet(Pending)
      /\ f.seq \in Nat /\ f.count \in Nat
    BY DEF LedgerOK, Pending, Frame
<1>1. CASE Known(f)
    <2>1. Observed(f) = [ledger EXCEPT !.delivered = f.count]
        BY <1>1 DEF Observed
    <2>2. /\ Observed(f) \in Ledger(Pending) /\ Observed(f).entries = ledger.entries
          /\ Observed(f).published = ledger.published
          /\ Observed(f).committed = ledger.committed
          /\ Observed(f).received = ledger.received
        BY <1>0, <2>1 DEF Ledger
    <2> QED
        BY <1>0, <1>1, <2>2 DEF LedgerOK, Pending
<1>2. CASE ~Known(f)
    <2> DEFINE fresh == [published |-> FALSE, confirm |-> "none", tries |-> 0]
               e == [s \in Pending \cup {f.seq} |->
                       IF s \in Pending THEN ledger.entries[s] ELSE fresh]
    <2>1. Observed(f) = [ledger EXCEPT !.delivered = f.count, !.received = f.seq,
                                       !.entries = e]
        BY <1>2 DEF Observed
    <2>2. f.seq = ledger.received + 1
        BY <1>2 DEF ObserveFails
    <2>3. fresh \in Entry /\ \A s \in Pending : ledger.entries[s] \in Entry
        BY <1>0 DEF Entry, Ledger
    <2>4. e \in [Pending \cup {f.seq} -> Entry]
        BY <2>3
    <2>5. IsFiniteSet(Pending \cup {f.seq})
        BY <1>0, FS_AddElement
    <2>6. /\ \A s \in Pending : e[s] = ledger.entries[s]
          /\ \A s \in Pending \cup {f.seq} : s \in Pending \/ e[s].confirm = "none"
        OBVIOUS
    <2> HIDE DEF e
    <2>7. /\ Observed(f) \in Ledger(Pending \cup {f.seq}) /\ Observed(f).entries = e
          /\ Observed(f).received = f.seq /\ Observed(f).published = ledger.published
          /\ Observed(f).committed = ledger.committed
        BY <1>0, <2>1, <2>4 DEF Ledger
    <2>8. DOMAIN e = Pending \cup {f.seq} /\ Pending \cup {f.seq} \subseteq Nat
        BY <1>0, <2>4
    <2> QED
        BY <1>2, <2>2, <2>5, <2>6, <2>7, <2>8 DEF LedgerOK
<1> QED
    BY <1>1, <1>2

\* Publishing moves the published position, and no confirmation.
LEMMA PublishedEffect ==
    ASSUME LedgerOK(ledger), NEW from \in Nat, NEW to \in Nat
    PROVE  /\ LedgerOK(Published(from, to))
           /\ Published(from, to).received = ledger.received
           /\ Published(from, to).committed = ledger.committed
           /\ Published(from, to).published = IF from <= to THEN to ELSE ledger.published
           /\ DOMAIN Published(from, to).entries = Pending
           /\ \A s \in Pending :
                 Published(from, to).entries[s].confirm = ledger.entries[s].confirm
<1> DEFINE e == [s \in Pending |-> IF s \in from..to
                                  THEN [ledger.entries[s] EXCEPT !.published = TRUE]
                                  ELSE ledger.entries[s]]
           p == IF from <= to THEN to ELSE ledger.published
<1>0. /\ ledger \in Ledger(Pending) /\ Pending \subseteq Nat /\ IsFiniteSet(Pending)
      /\ \A s \in Pending : ledger.entries[s] \in Entry
      /\ p \in Nat
    BY DEF LedgerOK, Pending, Ledger
<1>1. Published(from, to) = [ledger EXCEPT !.published = p, !.entries = e]
    BY DEF Published
<1>2. \A s \in Pending : e[s] \in Entry /\ e[s].confirm = ledger.entries[s].confirm
    BY <1>0 DEF Entry
<1>3. e \in [Pending -> Entry]
    BY <1>2
<1> HIDE DEF e, p
<1>4. /\ Published(from, to) \in Ledger(Pending) /\ Published(from, to).entries = e
      /\ Published(from, to).received = ledger.received
      /\ Published(from, to).committed = ledger.committed
      /\ Published(from, to).published = p
    BY <1>0, <1>1, <1>3 DEF Ledger
<1>5. DOMAIN e = Pending
    BY <1>3
<1> QED
    BY <1>0, <1>2, <1>4, <1>5 DEF LedgerOK, p

\* Servicing forgets the confirmed messages and asks for committed ones only.
LEMMA ServicedEffect ==
    ASSUME NEW L, LedgerOK(L)
    PROVE  /\ LedgerOK(Serviced(L))
           /\ Serviced(L).received = L.received /\ Serviced(L).published = L.published
           /\ Serviced(L).committed = L.committed
           /\ DOMAIN Serviced(L).entries \subseteq DOMAIN L.entries
           /\ \A s \in DOMAIN Serviced(L).entries :
                 \/ Serviced(L).entries[s].confirm = L.entries[s].confirm
                 \/ s <= L.committed
<1> DEFINE left == {s \in DOMAIN L.entries : L.entries[s].confirm # "ok"}
           asking == {s \in left : L.entries[s].confirm = "asking"}
           waiting == {s \in left : L.entries[s].confirm = "none" /\ Ackable(L, s)}
           starts(s) == /\ s \in waiting
                        /\ Cardinality(asking) + Cardinality({t \in waiting : t < s})
                             < AckConcurrency
           e == [s \in left |-> IF starts(s)
                                THEN [L.entries[s] EXCEPT !.confirm = "asking"]
                                ELSE L.entries[s]]
<1>1. Serviced(L) = [L EXCEPT !.entries = e]
    BY DEF Serviced
<1>2. \A s \in left : starts(s) => s <= L.committed
    BY DEF Ackable
<1> HIDE DEF starts
<1>3. left \subseteq DOMAIN L.entries /\ left \subseteq Nat /\ IsFiniteSet(left)
    BY FS_Subset DEF LedgerOK
<1>4. \A s \in left : L.entries[s] \in Entry
    BY <1>3, LedgerFields
<1>5. \A s \in left : e[s] \in Entry
    BY <1>4 DEF Entry
<1>6. \A s \in left : e[s].confirm = L.entries[s].confirm \/ s <= L.committed
    BY <1>2
<1>7. e \in [left -> Entry] /\ DOMAIN e = left
    BY <1>5
<1> HIDE DEF e, left
<1>8. /\ Serviced(L).entries = e /\ Serviced(L).received = L.received
      /\ Serviced(L).published = L.published /\ Serviced(L).committed = L.committed
    BY <1>1 DEF LedgerOK, Ledger
<1> QED
    BY <1>1, <1>3, <1>6, <1>7, <1>8, LedgerEntries

\* A confirmation, answered or not, changes the entry of its message only.
LEMMA ConfirmEffect ==
    ASSUME LedgerOK(ledger), NEW s \in Msgs, Confirm(s)
    PROVE  /\ LedgerOK(ledger')
           /\ ledger'.received = ledger.received /\ ledger'.published = ledger.published
           /\ ledger'.committed = ledger.committed
           /\ DOMAIN ledger'.entries = DOMAIN ledger.entries
           /\ \A t \in DOMAIN ledger.entries :
                 t # s => ledger'.entries[t] = ledger.entries[t]
<1>0. /\ ledger \in Ledger(DOMAIN ledger.entries) /\ s \in DOMAIN ledger.entries
      /\ ledger.entries[s] \in Entry
    BY LedgerFields DEF Confirm, Pending, LedgerOK
<1>1. PICK x \in Entry : ledger' = [ledger EXCEPT !.entries[s] = x]
    <2>1. CASE ledger' = [ledger EXCEPT !.entries[s].confirm = "ok"]
        <3>1. [ledger.entries[s] EXCEPT !.confirm = "ok"] \in Entry
            BY <1>0 DEF Entry
        <3>2. ledger' = [ledger EXCEPT !.entries[s]
                                         = [ledger.entries[s] EXCEPT !.confirm = "ok"]]
            BY <2>1
        <3> QED
            BY <3>1, <3>2
    <2>2. CASE \E n \in Nat, c \in {"failed", ledger.entries[s].confirm} :
                  ledger' = [ledger EXCEPT !.entries[s].tries = n,
                                           !.entries[s].confirm = c]
        <3>1. PICK n \in Nat, c \in {"failed", ledger.entries[s].confirm} :
                  ledger' = [ledger EXCEPT !.entries[s].tries = n,
                                           !.entries[s].confirm = c]
            BY <2>2
        <3>2. [ledger.entries[s] EXCEPT !.tries = n, !.confirm = c] \in Entry
            BY <1>0 DEF Entry
        <3>3. ledger' = [ledger EXCEPT !.entries[s]
                           = [ledger.entries[s] EXCEPT !.tries = n, !.confirm = c]]
            BY <3>1
        <3> QED
            BY <3>2, <3>3
    <2>3. ledger.entries[s].tries + 1 \in Nat
        BY <1>0 DEF Entry
    <2> QED
        BY <2>1, <2>2, <2>3 DEF Confirm
<1> DEFINE e == [ledger.entries EXCEPT ![s] = x]
<1>2. ledger' = [ledger EXCEPT !.entries = e]
    BY <1>1
<1>3. e \in [DOMAIN ledger.entries -> Entry] /\ DOMAIN e = DOMAIN ledger.entries
    BY <1>0 DEF Ledger
<1>4. \A t \in DOMAIN ledger.entries : t # s => e[t] = ledger.entries[t]
    BY <1>0 DEF Ledger
<1> HIDE DEF e
<1>5. /\ ledger'.entries = e /\ ledger'.received = ledger.received
      /\ ledger'.published = ledger.published /\ ledger'.committed = ledger.committed
    BY <1>0, <1>2 DEF Ledger
<1> QED
    BY <1>2, <1>3, <1>4, <1>5, LedgerEntries DEF LedgerOK

-----------------------------------------------------------------------------
(* Type correctness.                                                       *)

\* The parts of the type invariant.
LEMMA TypeParts ==
    TypeOK <=> /\ BrokerTyped /\ DiskTyped /\ ReaderTyped /\ BuildTyped
               /\ CutTyped /\ JobTyped
BY DEF TypeOK, BrokerTyped, DiskTyped, ReaderTyped, BuildTyped, CutTyped, JobTyped

\* Every step keeps the types of the broker's state.
LEMMA BrokerTypedStep == TypeOK /\ Resting /\ [Next]_vars => BrokerTyped'
<1> SUFFICES ASSUME TypeOK, Resting, [Next]_vars
             PROVE  BrokerTyped'
    OBVIOUS
<1>0. BrokerTyped /\ DiskTyped /\ ReaderTyped
    BY TypeParts
<1>1. CASE Open
    BY <1>1, <1>0 DEF Open, brokerVars, opening, BrokerTyped
<1>2. CASE DeleteOld
    <2>1. consumers' \in {consumers, consumers \ {binding}} /\ phase' \in {"bind", "down"}
        BY <1>2 DEF DeleteOld
    <2>2. first' = first /\ binding' = binding /\ consumer' = consumer /\ attempt' = attempt
        BY <1>2 DEF DeleteOld
    <2>3. faults' \in Nat /\ commands' = commands
        BY <1>2, <1>0 DEF DeleteOld, Fault, BrokerTyped, opening
    <2> QED
        BY <1>0, <2>1, <2>2, <2>3 DEF BrokerTyped
<1>3. CASE Bind
    BY <1>3, <1>0 DEF Bind, Fault, opening, BrokerTyped
<1>4. CASE Create
    <2>1. consumer' \in Consumer
        BY <1>4, <1>0, RestoredTyped, FreshTyped DEF Create, Resting, DiskTyped
    <2> QED
        BY <1>4, <1>0, <2>1 DEF Create, boundVars, BrokerTyped
<1>5. CASE CreateFails
    <2>1. consumer' \in Consumer
        BY <1>5, <1>0, RestoredTyped, FreshTyped DEF CreateFails, Resting, DiskTyped,
           BrokerTyped
    <2>2. faults' \in Nat /\ consumers' \subseteq consumers \cup {attempt}
        BY <1>5, <1>0 DEF CreateFails, Fault, BrokerTyped
    <2> QED
        BY <1>5, <1>0, <2>1, <2>2 DEF CreateFails, opening, BrokerTyped
<1>6. CASE PreparePull
    <2>1. PICK again \in Seq(Nat), n \in Nat : Deliver(again, n)
        BY <1>6, <1>0, PullDelivers DEF BrokerTyped, ReaderTyped, LedgerOK, Pending
    <2>2. consumer' \in Consumer
        BY <1>0, <2>1, DeliverTyped DEF BrokerTyped
    <2>3. faults' \in {faults, faults + 1}
        BY <1>6 DEF PreparePull, Fault
    <2> QED
        BY <1>6, <1>0, <2>2, <2>3 DEF PreparePull, BrokerTyped
<1>7. CASE ReadFrame
    BY <1>7, <1>0 DEF ReadFrame, Abort, brokerVars, inputFrame, boundVars,
       BrokerTyped
<1>8. CASE ReadDeferred
    BY <1>8, <1>0 DEF ReadDeferred, inputFrame, brokerVars, boundVars,
       BrokerTyped
<1>9. CASE EndPull
    BY <1>9, <1>0 DEF EndPull, inputFrame, brokerVars, boundVars,
       BrokerTyped
<1>10. CASE DecodeRow
    BY <1>10, <1>0 DEF DecodeRow, inputFrame, brokerVars, boundVars,
       BrokerTyped
<1>11. CASE Quarantine
    BY <1>11, <1>0 DEF Quarantine, Abort, brokerVars, inputFrame, boundVars,
       BrokerTyped
<1>12. CASE Poll
    BY <1>12, <1>0 DEF Poll, Abort, brokerVars, inputFrame, boundVars,
       BrokerTyped
<1>13. CASE PollNothing
    BY <1>13, <1>0 DEF PollNothing, inputFrame, brokerVars, boundVars,
       BrokerTyped
<1>14. CASE PublishBatch
    BY <1>14, <1>0 DEF PublishBatch, Abort, brokerVars, boundVars,
       BrokerTyped
<1>15. CASE ServiceAcks
    BY <1>15, <1>0 DEF ServiceAcks, Abort, brokerVars, boundVars,
       BrokerTyped
<1>16. ASSUME NEW s \in Msgs, Confirm(s)
      PROVE  BrokerTyped'
    <2>1. consumer' \in Consumer
        BY <1>16, <1>0, AckTyped DEF Confirm, BrokerTyped
    <2>2. faults' \in Nat
        BY <1>16, <1>0 DEF Confirm, Fault, BrokerTyped
    <2> QED
        BY <1>16, <1>0, <2>1, <2>2 DEF Confirm, BrokerTyped
<1>17. CASE ForceCheckpoint
    BY <1>17, <1>0 DEF ForceCheckpoint, BeginCheckpoint, Abort, brokerVars,
       boundVars, BrokerTyped
<1>18. CASE RequestCheckpoint
    BY <1>18, <1>0 DEF RequestCheckpoint, brokerVars, BrokerTyped
<1>19. CASE TakeCommand
    BY <1>19, <1>0 DEF TakeCommand, BeginCheckpoint, Abort, brokerVars,
       boundVars, BrokerTyped
<1>20. CASE DropCommand
    BY <1>20, <1>0 DEF DropCommand, brokerVars, boundVars, BrokerTyped
<1>21. ASSUME NEW w \in workers, SendBarrier(w)
      PROVE  BrokerTyped'
    BY <1>21, <1>0 DEF SendBarrier, Fault, brokerVars, BrokerTyped
<1>22. ASSUME NEW w \in workers, Expire(w)
      PROVE  BrokerTyped'
    BY <1>22, <1>0 DEF Expire, Fault, workerFrame, brokerVars, BrokerTyped
<1>23. ASSUME NEW w \in workers, CancelWorker(w)
      PROVE  BrokerTyped'
    BY <1>23, <1>0 DEF CancelWorker, workerFrame, brokerVars, BrokerTyped
<1>24. ASSUME NEW w \in workers, Commit(w)
      PROVE  BrokerTyped'
    BY <1>24, <1>0 DEF Commit, Fault, workerFrame, brokerVars, BrokerTyped
<1>25. ASSUME NEW w \in workers, Finish(w)
      PROVE  BrokerTyped'
    BY <1>25, <1>0 DEF Finish, workerFrame, brokerVars, BrokerTyped
<1>26. ASSUME NEW w \in workers, JoinReturned(w)
      PROVE  BrokerTyped'
    BY <1>26, <1>0 DEF JoinReturned, Abort, brokerVars, boundVars,
       BrokerTyped
<1>27. ASSUME NEW w \in workers, JoinFailed(w)
      PROVE  BrokerTyped'
    BY <1>27, <1>0 DEF JoinFailed, Abort, brokerVars, workerFrame,
       BrokerTyped
<1>28. CASE Apply
    BY <1>28, <1>0 DEF Apply, brokerVars, boundVars, BrokerTyped
<1>29. CASE JobFails
    BY <1>29, <1>0 DEF JobFails, Fault, Abort, brokerVars, BrokerTyped
<1>30. CASE Crash
    BY <1>30, <1>0 DEF Crash, Fault, Forget, brokerVars, BrokerTyped
<1>31. CASE Close
    BY <1>31, <1>0 DEF Close, Forget, brokerVars, BrokerTyped
<1>32. CASE DropFrame
    BY <1>32, <1>0 DEF DropFrame, Fault, brokerVars, BrokerTyped
<1>33. CASE Evict
    BY <1>33, <1>0 DEF Evict, Fault, idleVars, BrokerTyped
<1>34. CASE Damage
    BY <1>34, <1>0 DEF Damage, Fault, brokerVars, idleVars, BrokerTyped
<1>35. ASSUME NEW s \in Poison, Purge(s)
      PROVE  BrokerTyped'
    BY <1>35, <1>0 DEF Purge, brokerVars, idleVars, BrokerTyped
<1>36. CASE UNCHANGED vars
    BY <1>36, <1>0 DEF vars, brokerVars, boundVars, BrokerTyped
<1> QED
    BY <1>1, <1>2, <1>3, <1>4, <1>5, <1>6, <1>7, <1>8, <1>9, <1>10, <1>11,
       <1>12, <1>13, <1>14, <1>15, <1>16, <1>17, <1>18, <1>19, <1>20, <1>21,
       <1>22, <1>23, <1>24, <1>25, <1>26, <1>27, <1>28, <1>29, <1>30, <1>31,
       <1>32, <1>33, <1>34, <1>35, <1>36 DEF Next, Opening, Input,
       Checkpointing, Ending, Environment

\* Every step keeps the types of what is on disk.
LEMMA DiskTypedStep == TypeOK /\ [Next]_vars => DiskTyped'
<1> SUFFICES ASSUME TypeOK, [Next]_vars
             PROVE  DiskTyped'
    OBVIOUS
<1>0. DiskTyped /\ CutTyped
    BY TypeParts
<1>1. CASE Open
    BY <1>1, <1>0 DEF Open, opening, diskVars, DiskTyped
<1>2. CASE DeleteOld
    BY <1>2, <1>0 DEF DeleteOld, opening, diskVars, DiskTyped
<1>3. CASE Bind
    BY <1>3, <1>0 DEF Bind, opening, diskVars, DiskTyped
<1>4. CASE Create
    BY <1>4, <1>0 DEF Create, diskVars, DiskTyped
<1>5. CASE CreateFails
    BY <1>5, <1>0 DEF CreateFails, opening, diskVars, DiskTyped
<1>6. CASE PreparePull
    BY <1>6, <1>0 DEF PreparePull, diskVars, DiskTyped
<1>7. CASE ReadFrame
    BY <1>7, <1>0 DEF ReadFrame, Abort, diskVars, DiskTyped
<1>8. CASE ReadDeferred
    BY <1>8, <1>0 DEF ReadDeferred, diskVars, DiskTyped
<1>9. CASE EndPull
    BY <1>9, <1>0 DEF EndPull, diskVars, DiskTyped
<1>10. CASE DecodeRow
    BY <1>10, <1>0 DEF DecodeRow, diskVars, DiskTyped
<1>11. CASE Quarantine
    <2>1. CASE CheckStart(build.record)
        BY <1>11, <1>0, <2>1 DEF Quarantine, DiskTyped
    <2>2. CASE ~CheckStart(build.record)
        BY <1>11, <1>0, <2>2 DEF Quarantine, Abort, diskVars, DiskTyped
    <2> QED
        BY <2>1, <2>2
<1>12. CASE Poll
    BY <1>12, <1>0 DEF Poll, Abort, diskVars, DiskTyped
<1>13. CASE PollNothing
    BY <1>13, <1>0 DEF PollNothing, diskVars, DiskTyped
<1>14. CASE PublishBatch
    BY <1>14, <1>0 DEF PublishBatch, Abort, diskVars, DiskTyped
<1>15. CASE ServiceAcks
    BY <1>15, <1>0 DEF ServiceAcks, Abort, diskVars, DiskTyped
<1>16. ASSUME NEW s \in Msgs, Confirm(s)
      PROVE  DiskTyped'
    BY <1>16, <1>0 DEF Confirm, diskVars, DiskTyped
<1>17. CASE ForceCheckpoint
    BY <1>17, <1>0 DEF ForceCheckpoint, BeginCheckpoint, Abort, diskVars,
       DiskTyped
<1>18. CASE RequestCheckpoint
    BY <1>18, <1>0 DEF RequestCheckpoint, diskVars, DiskTyped
<1>19. CASE TakeCommand
    BY <1>19, <1>0 DEF TakeCommand, BeginCheckpoint, Abort, diskVars,
       DiskTyped
<1>20. CASE DropCommand
    BY <1>20, <1>0 DEF DropCommand, diskVars, DiskTyped
<1>21. ASSUME NEW w \in workers, SendBarrier(w)
      PROVE  DiskTyped'
    BY <1>21, <1>0 DEF SendBarrier, diskVars, DiskTyped
<1>22. ASSUME NEW w \in workers, Expire(w)
      PROVE  DiskTyped'
    BY <1>22, <1>0 DEF Expire, diskVars, DiskTyped
<1>23. ASSUME NEW w \in workers, CancelWorker(w)
      PROVE  DiskTyped'
    BY <1>23, <1>0 DEF CancelWorker, diskVars, DiskTyped
<1>24. ASSUME NEW w \in workers, Commit(w)
      PROVE  DiskTyped'
    <2>1. [cut |-> w.cut, rows |-> w.rows, readable |-> TRUE] \in Generation
        BY <1>0 DEF CutTyped, Worker, Generation
    <2>2. Stored(w) \in Seq(Generation)
        BY <1>0, <2>1, KeepLast DEF Stored, DiskTyped
    <2> QED
        BY <1>24, <1>0, <2>2 DEF Commit, DiskTyped
<1>25. ASSUME NEW w \in workers, Finish(w)
      PROVE  DiskTyped'
    BY <1>25, <1>0 DEF Finish, diskVars, DiskTyped
<1>26. ASSUME NEW w \in workers, JoinReturned(w)
      PROVE  DiskTyped'
    BY <1>26, <1>0 DEF JoinReturned, Abort, diskVars, DiskTyped
<1>27. ASSUME NEW w \in workers, JoinFailed(w)
      PROVE  DiskTyped'
    BY <1>27, <1>0 DEF JoinFailed, Abort, diskVars, DiskTyped
<1>28. CASE Apply
    BY <1>28, <1>0 DEF Apply, diskVars, DiskTyped
<1>29. CASE JobFails
    BY <1>29, <1>0 DEF JobFails, Abort, diskVars, DiskTyped
<1>30. CASE Crash
    BY <1>30, <1>0 DEF Crash, Forget, diskVars, DiskTyped
<1>31. CASE Close
    BY <1>31, <1>0 DEF Close, Forget, diskVars, DiskTyped
<1>32. CASE DropFrame
    BY <1>32, <1>0 DEF DropFrame, diskVars, DiskTyped
<1>33. CASE Evict
    BY <1>33, <1>0 DEF Evict, diskVars, DiskTyped
<1>34. CASE Damage
    <2>1. hist' \in Seq(Generation)
        <3> DEFINE g == [hist[Len(hist)] EXCEPT !.readable = FALSE]
        <3>1. hist \in Seq(Generation) /\ hist' = [hist EXCEPT ![Len(hist)] = g]
            BY <1>34, <1>0 DEF Damage, DiskTyped
        <3>2. Len(hist) \in 1..Len(hist)
            BY <1>34, <3>1 DEF Damage
        <3>3. hist[Len(hist)] \in Generation
            BY <3>1, <3>2
        <3>4. g \in Generation
            BY <3>3 DEF Generation
        <3> QED
            BY <3>1, <3>2, <3>4, ExceptSeq
    <2> QED
        BY <1>34, <1>0, <2>1 DEF Damage, DiskTyped
<1>35. ASSUME NEW s \in Poison, Purge(s)
      PROVE  DiskTyped'
    <2>1. s \in Nat
        BY JetStreamAssumption
    <2> QED
        BY <1>35, <1>0, <2>1 DEF Purge, RaisedFloor, DiskTyped
<1>36. CASE UNCHANGED vars
    BY <1>36, <1>0 DEF vars, diskVars, DiskTyped
<1> QED
    BY <1>1, <1>2, <1>3, <1>4, <1>5, <1>6, <1>7, <1>8, <1>9, <1>10, <1>11,
       <1>12, <1>13, <1>14, <1>15, <1>16, <1>17, <1>18, <1>19, <1>20, <1>21,
       <1>22, <1>23, <1>24, <1>25, <1>26, <1>27, <1>28, <1>29, <1>30, <1>31,
       <1>32, <1>33, <1>34, <1>35, <1>36 DEF Next, Opening, Input,
       Checkpointing, Ending, Environment

\* A batch starts with a record and no row.
LEMMA StartTyped ==
    ASSUME NEW s \in Nat, s # 0, StartBatch(s)
    PROVE  build' \in Build /\ pc' = "decode"
BY DEF StartBatch, Build

\* No batch.
LEMMA NoBuildTyped == NoBuild \in Build
BY DEF NoBuild, Build, None

\* Every step keeps the types of the batch under construction.
LEMMA BuildTypedStep == TypeOK /\ [Next]_vars => BuildTyped'
<1> SUFFICES ASSUME TypeOK, [Next]_vars
             PROVE  BuildTyped'
    OBVIOUS
<1>0. /\ BuildTyped /\ wire \in Seq(Frame) /\ ledger.received \in Nat
    BY TypeParts DEF ReaderTyped, LedgerOK, Ledger
<1>1. CASE Open
    BY <1>1, <1>0, NoBuildTyped DEF Open, brokerVars, opening, buildVars,
       BuildTyped
<1>2. CASE DeleteOld
    BY <1>2, <1>0, NoBuildTyped DEF DeleteOld, opening, buildVars,
       BuildTyped
<1>3. CASE Bind
    BY <1>3, <1>0, NoBuildTyped DEF Bind, opening, buildVars, BuildTyped
<1>4. CASE Create
    BY <1>4, <1>0, NoBuildTyped DEF Create, buildVars, BuildTyped
<1>5. CASE CreateFails
    BY <1>5, <1>0, NoBuildTyped DEF CreateFails, opening, buildVars,
       BuildTyped
<1>6. CASE PreparePull
    BY <1>6, <1>0, NoBuildTyped DEF PreparePull, buildVars, BuildTyped
<1>7. CASE ReadFrame
    <2>1. CASE ObserveFails(Head(wire)) \/ Known(Head(wire))
        BY <1>7, <1>0, <2>1 DEF ReadFrame, Abort, buildVars, inputFrame, BuildTyped
    <2>2. CASE ~ObserveFails(Head(wire)) /\ ~Known(Head(wire))
        <3>1. StartBatch(Head(wire).seq) /\ deferred' = deferred /\ qfull' = qfull
            BY <1>7, <2>2 DEF ReadFrame
        <3>2. Head(wire).seq = ledger.received + 1
            BY <2>2 DEF ObserveFails
        <3> QED
            BY <1>0, <3>1, <3>2, StartTyped DEF BuildTyped
    <2> QED
        BY <2>1, <2>2
<1>8. CASE ReadDeferred
    <2>1. StartBatch(deferred) /\ deferred' = None /\ qfull' = qfull /\ deferred # None
        BY <1>8 DEF ReadDeferred
    <2> QED
        BY <1>0, <2>1, StartTyped DEF BuildTyped, None
<1>9. CASE EndPull
    BY <1>9, <1>0, NoBuildTyped DEF EndPull, inputFrame, brokerVars,
       buildVars, BuildTyped
<1>10. CASE DecodeRow
    <2>0. build \in Build /\ build.rows \in Seq(Nat) /\ build.record \in Nat
        BY <1>0 DEF BuildTyped, Build
    <2>1. build' \in Build
        <3>1. CASE build' = [build EXCEPT !.rows = Append(@, build.record),
                                         !.last = build.record, !.record = None]
            <4>1. Append(build.rows, build.record) \in Seq(Nat)
                BY <2>0
            <4> QED
                BY <2>0, <3>1, <4>1 DEF Build, None
        <3>2. CASE build' = [build EXCEPT !.record = None]
            BY <2>0, <3>2 DEF Build, None
        <3> QED
            BY <1>10, <3>1, <3>2 DEF DecodeRow
    <2>2. pc' \in {"batch", "poll"} /\ qfull' = qfull
        BY <1>10 DEF DecodeRow
    <2>3. deferred' \in Nat
        BY <1>10, <1>0 DEF DecodeRow, BuildTyped, Build
    <2> QED
        BY <1>0, <2>1, <2>2, <2>3 DEF BuildTyped
<1>11. CASE Quarantine
    <2>1. CASE CheckStart(build.record)
        <3>1. build' \in Build
            <4>1. PICK x \in {build.record, build.last} :
                     build' = [build EXCEPT !.record = None, !.last = x]
                BY <1>11, <2>1 DEF Quarantine
            <4> QED
                BY <1>0, <4>1 DEF BuildTyped, Build, None
        <3>2. pc' = "batch" /\ qfull' \in BOOLEAN
            BY <1>11, <2>1 DEF Quarantine
        <3>3. deferred' \in Nat
            BY <1>11, <1>0, <2>1 DEF Quarantine, BuildTyped, Build
        <3> QED
            BY <3>1, <3>2, <3>3 DEF BuildTyped
    <2>2. CASE ~CheckStart(build.record)
        BY <1>11, <1>0, <2>2 DEF Quarantine, Abort, buildVars, BuildTyped
    <2> QED
        BY <2>1, <2>2
<1>12. CASE Poll
    <2>1. CASE ObserveFails(Head(wire))
        BY <1>12, <1>0, <2>1 DEF Poll, Abort, buildVars, BuildTyped
    <2>2. CASE ~ObserveFails(Head(wire))
        <3>1. Head(wire).seq \in Nat
            <4>1. wire # <<>>
                BY <1>12 DEF Poll
            <4>2. Head(wire) \in Frame
                BY <1>0, <4>1
            <4> QED
                BY <4>2 DEF Frame
        <3>2. deferred' \in Nat /\ qfull' = qfull
            BY <1>12, <1>0, <2>2, <3>1 DEF Poll, None, BuildTyped
        <3>3. pc' \in {"batch", "poll", "decode"}
            BY <1>12, <2>2 DEF Poll
        <3>4. build' \in Build
            <4>1. PICK x \in Nat :
                     build' = [build EXCEPT !.turn = build.turn + 1, !.record = x]
                BY <1>12, <2>2, <3>1 DEF Poll, None
            <4>2. build \in Build /\ build.turn + 1 \in Nat
                BY <1>0 DEF BuildTyped, Build
            <4> QED
                BY <4>1, <4>2 DEF Build
        <3> QED
            BY <1>0, <3>2, <3>3, <3>4 DEF BuildTyped
    <2> QED
        BY <2>1, <2>2
<1>13. CASE PollNothing
    BY <1>13, <1>0, NoBuildTyped DEF PollNothing, inputFrame, brokerVars,
       BuildTyped
<1>14. CASE PublishBatch
    BY <1>14, <1>0, NoBuildTyped DEF PublishBatch, Abort, brokerVars,
       buildVars, BuildTyped
<1>15. CASE ServiceAcks
    BY <1>15, <1>0, NoBuildTyped DEF ServiceAcks, Abort, brokerVars,
       buildVars, BuildTyped
<1>16. ASSUME NEW s \in Msgs, Confirm(s)
      PROVE  BuildTyped'
    BY <1>16, <1>0, NoBuildTyped DEF Confirm, buildVars, BuildTyped
<1>17. CASE ForceCheckpoint
    BY <1>17, <1>0, NoBuildTyped DEF ForceCheckpoint, BeginCheckpoint,
       Abort, brokerVars, buildVars, BuildTyped
<1>18. CASE RequestCheckpoint
    BY <1>18, <1>0, NoBuildTyped DEF RequestCheckpoint, brokerVars,
       buildVars, BuildTyped
<1>19. CASE TakeCommand
    BY <1>19, <1>0, NoBuildTyped DEF TakeCommand, BeginCheckpoint, Abort,
       brokerVars, buildVars, BuildTyped
<1>20. CASE DropCommand
    BY <1>20, <1>0, NoBuildTyped DEF DropCommand, brokerVars, buildVars,
       BuildTyped
<1>21. ASSUME NEW w \in workers, SendBarrier(w)
      PROVE  BuildTyped'
    BY <1>21, <1>0, NoBuildTyped DEF SendBarrier, brokerVars, BuildTyped
<1>22. ASSUME NEW w \in workers, Expire(w)
      PROVE  BuildTyped'
    BY <1>22, <1>0, NoBuildTyped DEF Expire, workerFrame, brokerVars,
       buildVars, BuildTyped
<1>23. ASSUME NEW w \in workers, CancelWorker(w)
      PROVE  BuildTyped'
    BY <1>23, <1>0, NoBuildTyped DEF CancelWorker, workerFrame, brokerVars,
       buildVars, BuildTyped
<1>24. ASSUME NEW w \in workers, Commit(w)
      PROVE  BuildTyped'
    BY <1>24, <1>0, NoBuildTyped DEF Commit, workerFrame, brokerVars,
       buildVars, BuildTyped
<1>25. ASSUME NEW w \in workers, Finish(w)
      PROVE  BuildTyped'
    BY <1>25, <1>0, NoBuildTyped DEF Finish, workerFrame, brokerVars,
       buildVars, BuildTyped
<1>26. ASSUME NEW w \in workers, JoinReturned(w)
      PROVE  BuildTyped'
    BY <1>26, <1>0, NoBuildTyped DEF JoinReturned, Abort, brokerVars,
       buildVars, BuildTyped
<1>27. ASSUME NEW w \in workers, JoinFailed(w)
      PROVE  BuildTyped'
    BY <1>27, <1>0, NoBuildTyped DEF JoinFailed, Abort, brokerVars,
       buildVars, workerFrame, BuildTyped
<1>28. CASE Apply
    BY <1>28, <1>0, NoBuildTyped DEF Apply, brokerVars, buildVars,
       BuildTyped
<1>29. CASE JobFails
    BY <1>29, <1>0, NoBuildTyped DEF JobFails, Abort, brokerVars, buildVars,
       BuildTyped
<1>30. CASE Crash
    BY <1>30, <1>0, NoBuildTyped DEF Crash, Forget, brokerVars, None,
       BuildTyped
<1>31. CASE Close
    BY <1>31, <1>0, NoBuildTyped DEF Close, Forget, brokerVars, None,
       BuildTyped
<1>32. CASE DropFrame
    BY <1>32, <1>0, NoBuildTyped DEF DropFrame, brokerVars, buildVars,
       BuildTyped
<1>33. CASE Evict
    BY <1>33, <1>0, NoBuildTyped DEF Evict, idleVars, buildVars, BuildTyped
<1>34. CASE Damage
    BY <1>34, <1>0, NoBuildTyped DEF Damage, brokerVars, idleVars,
       buildVars, BuildTyped
<1>35. ASSUME NEW s \in Poison, Purge(s)
      PROVE  BuildTyped'
    BY <1>35, <1>0, NoBuildTyped DEF Purge, brokerVars, idleVars, buildVars,
       BuildTyped
<1>36. CASE UNCHANGED vars
    BY <1>36, <1>0, NoBuildTyped DEF vars, brokerVars, buildVars, BuildTyped
<1> QED
    BY <1>1, <1>2, <1>3, <1>4, <1>5, <1>6, <1>7, <1>8, <1>9, <1>10, <1>11,
       <1>12, <1>13, <1>14, <1>15, <1>16, <1>17, <1>18, <1>19, <1>20, <1>21,
       <1>22, <1>23, <1>24, <1>25, <1>26, <1>27, <1>28, <1>29, <1>30, <1>31,
       <1>32, <1>33, <1>34, <1>35, <1>36 DEF Next, Opening, Input,
       Checkpointing, Ending, Environment

\* Every step keeps the types of the job's state.
LEMMA JobTypedStep == TypeOK /\ Resting /\ [Next]_vars => JobTyped'
<1> SUFFICES ASSUME TypeOK, Resting, [Next]_vars
             PROVE  JobTyped'
    OBVIOUS
<1>0. JobTyped /\ DiskTyped /\ BuildTyped /\ CutTyped
    BY TypeParts
<1>1. CASE Open
    BY <1>1, <1>0 DEF Open, opening, jobVars, JobTyped
<1>2. CASE DeleteOld
    BY <1>2, <1>0 DEF DeleteOld, opening, jobVars, JobTyped
<1>3. CASE Bind
    BY <1>3, <1>0 DEF Bind, opening, jobVars, JobTyped
<1>4. CASE Create
    <2>1. Restored.rows \in Seq(Nat)
        BY <1>4, <1>0, RestoredTyped DEF Create, Resting, DiskTyped
    <2> QED
        BY <1>4, <1>0, <2>1 DEF Create, JobTyped
<1>5. CASE CreateFails
    BY <1>5, <1>0 DEF CreateFails, opening, jobVars, JobTyped
<1>6. CASE PreparePull
    BY <1>6, <1>0 DEF PreparePull, jobVars, JobTyped
<1>7. CASE ReadFrame
    BY <1>7, <1>0 DEF ReadFrame, Abort, jobVars, inputFrame, JobTyped
<1>8. CASE ReadDeferred
    BY <1>8, <1>0 DEF ReadDeferred, inputFrame, jobVars, JobTyped
<1>9. CASE EndPull
    BY <1>9, <1>0 DEF EndPull, inputFrame, jobVars, JobTyped
<1>10. CASE DecodeRow
    BY <1>10, <1>0 DEF DecodeRow, inputFrame, jobVars, JobTyped
<1>11. CASE Quarantine
    BY <1>11, <1>0 DEF Quarantine, Abort, jobVars, inputFrame, JobTyped
<1>12. CASE Poll
    BY <1>12, <1>0 DEF Poll, Abort, jobVars, inputFrame, JobTyped
<1>13. CASE PollNothing
    BY <1>13, <1>0 DEF PollNothing, inputFrame, jobVars, JobTyped
<1>14. CASE PublishBatch
    <2>1. [barrier |-> None, rows |-> build.rows] \in Batch
        BY <1>0 DEF BuildTyped, Build, Batch, None
    <2>2. Append(inbox, [barrier |-> None, rows |-> build.rows]) \in Seq(Batch)
        BY <1>0, <2>1 DEF JobTyped
    <2> QED
        BY <1>14, <1>0, <2>2 DEF PublishBatch, Abort, jobVars, JobTyped
<1>15. CASE ServiceAcks
    BY <1>15, <1>0 DEF ServiceAcks, Abort, jobVars, JobTyped
<1>16. ASSUME NEW s \in Msgs, Confirm(s)
      PROVE  JobTyped'
    BY <1>16, <1>0 DEF Confirm, jobVars, JobTyped
<1>17. CASE ForceCheckpoint
    BY <1>17, <1>0 DEF ForceCheckpoint, BeginCheckpoint, Abort, jobVars,
       JobTyped
<1>18. CASE RequestCheckpoint
    BY <1>18, <1>0 DEF RequestCheckpoint, jobVars, JobTyped
<1>19. CASE TakeCommand
    BY <1>19, <1>0 DEF TakeCommand, BeginCheckpoint, Abort, jobVars,
       JobTyped
<1>20. CASE DropCommand
    BY <1>20, <1>0 DEF DropCommand, jobVars, JobTyped
<1>21. ASSUME NEW w \in workers, SendBarrier(w)
      PROVE  JobTyped'
    <2>1. [barrier |-> w.id, rows |-> <<>>] \in Batch
        BY <1>0 DEF CutTyped, Worker, Batch
    <2>2. Append(inbox, [barrier |-> w.id, rows |-> <<>>]) \in Seq(Batch)
        BY <1>0, <2>1 DEF JobTyped
    <2> QED
        BY <1>21, <1>0, <2>2 DEF SendBarrier, JobTyped
<1>22. ASSUME NEW w \in workers, Expire(w)
      PROVE  JobTyped'
    BY <1>22, <1>0 DEF Expire, workerFrame, jobVars, JobTyped
<1>23. ASSUME NEW w \in workers, CancelWorker(w)
      PROVE  JobTyped'
    BY <1>23, <1>0 DEF CancelWorker, workerFrame, jobVars, JobTyped
<1>24. ASSUME NEW w \in workers, Commit(w)
      PROVE  JobTyped'
    BY <1>24, <1>0 DEF Commit, workerFrame, jobVars, JobTyped
<1>25. ASSUME NEW w \in workers, Finish(w)
      PROVE  JobTyped'
    BY <1>25, <1>0 DEF Finish, workerFrame, jobVars, JobTyped
<1>26. ASSUME NEW w \in workers, JoinReturned(w)
      PROVE  JobTyped'
    BY <1>26, <1>0 DEF JoinReturned, Abort, jobVars, JobTyped
<1>27. ASSUME NEW w \in workers, JoinFailed(w)
      PROVE  JobTyped'
    BY <1>27, <1>0 DEF JoinFailed, Abort, jobVars, workerFrame, JobTyped
<1>28. CASE Apply
    <2>1. inbox # <<>> /\ applied' = applied \o Head(inbox).rows /\ inbox' = Tail(inbox)
        BY <1>28 DEF Apply
    <2>2. Head(inbox) \in Batch /\ Tail(inbox) \in Seq(Batch)
        BY <1>0, <2>1 DEF JobTyped
    <2>3. Head(inbox).rows \in Seq(Nat)
        BY <2>2 DEF Batch
    <2> QED
        BY <1>0, <2>1, <2>2, <2>3 DEF JobTyped
<1>29. CASE JobFails
    BY <1>29, <1>0 DEF JobFails, Abort, jobVars, JobTyped
<1>30. CASE Crash
    BY <1>30, <1>0 DEF Crash, Forget, JobTyped
<1>31. CASE Close
    BY <1>31, <1>0 DEF Close, Forget, JobTyped
<1>32. CASE DropFrame
    BY <1>32, <1>0 DEF DropFrame, jobVars, JobTyped
<1>33. CASE Evict
    BY <1>33, <1>0 DEF Evict, idleVars, jobVars, JobTyped
<1>34. CASE Damage
    BY <1>34, <1>0 DEF Damage, idleVars, jobVars, JobTyped
<1>35. ASSUME NEW s \in Poison, Purge(s)
      PROVE  JobTyped'
    BY <1>35, <1>0 DEF Purge, idleVars, jobVars, JobTyped
<1>36. CASE UNCHANGED vars
    BY <1>36, <1>0 DEF vars, jobVars, JobTyped
<1> QED
    BY <1>1, <1>2, <1>3, <1>4, <1>5, <1>6, <1>7, <1>8, <1>9, <1>10, <1>11,
       <1>12, <1>13, <1>14, <1>15, <1>16, <1>17, <1>18, <1>19, <1>20, <1>21,
       <1>22, <1>23, <1>24, <1>25, <1>26, <1>27, <1>28, <1>29, <1>30, <1>31,
       <1>32, <1>33, <1>34, <1>35, <1>36 DEF Next, Opening, Input,
       Checkpointing, Ending, Environment

\* A worker that moves keeps its id, its cut and its rows.
LEMMA MoveTyped ==
    ASSUME workers \subseteq Worker, NEW w \in workers, NEW st \in States, Move(w, st)
    PROVE  /\ workers' \subseteq Worker
           /\ \A v \in workers' : \/ v \in workers /\ v # w
                                  \/ /\ v = [w EXCEPT !.st = st]
                                     /\ v.id = w.id /\ v.cut = w.cut /\ v.rows = w.rows
                                     /\ v.st = st
<1>1. w \in Worker /\ workers' = (workers \ {w}) \cup {[w EXCEPT !.st = st]}
    BY DEF Move
<1>2. [w EXCEPT !.st = st] \in Worker
    BY <1>1 DEF Worker, States
<1>3. \A v : v = [w EXCEPT !.st = st] =>
        v.id = w.id /\ v.cut = w.cut /\ v.rows = w.rows /\ v.st = st
    BY <1>1 DEF Worker
<1> QED
    BY <1>1, <1>2, <1>3

\* Every step keeps the types of the checkpoint workers.
LEMMA CutTypedStep == TypeOK /\ [Next]_vars => CutTyped'
<1> SUFFICES ASSUME TypeOK, [Next]_vars
             PROVE  CutTyped'
    OBVIOUS
<1>0. CutTyped /\ JobTyped /\ ledger.published \in Nat
    BY TypeParts DEF ReaderTyped, LedgerOK, Ledger
<1>1. CASE Open
    BY <1>1, <1>0 DEF Open, opening, cutVars, CutTyped
<1>2. CASE DeleteOld
    BY <1>2, <1>0 DEF DeleteOld, opening, cutVars, CutTyped
<1>3. CASE Bind
    BY <1>3, <1>0 DEF Bind, opening, cutVars, CutTyped
<1>4. CASE Create
    BY <1>4, <1>0 DEF Create, CutTyped
<1>5. CASE CreateFails
    BY <1>5, <1>0 DEF CreateFails, opening, cutVars, CutTyped
<1>6. CASE PreparePull
    BY <1>6, <1>0 DEF PreparePull, cutVars, CutTyped
<1>7. CASE ReadFrame
    BY <1>7, <1>0 DEF ReadFrame, Abort, cutVars, inputFrame, CutTyped
<1>8. CASE ReadDeferred
    BY <1>8, <1>0 DEF ReadDeferred, inputFrame, cutVars, CutTyped
<1>9. CASE EndPull
    BY <1>9, <1>0 DEF EndPull, inputFrame, cutVars, CutTyped
<1>10. CASE DecodeRow
    BY <1>10, <1>0 DEF DecodeRow, inputFrame, cutVars, CutTyped
<1>11. CASE Quarantine
    BY <1>11, <1>0 DEF Quarantine, Abort, cutVars, inputFrame, CutTyped
<1>12. CASE Poll
    BY <1>12, <1>0 DEF Poll, Abort, cutVars, inputFrame, CutTyped
<1>13. CASE PollNothing
    BY <1>13, <1>0 DEF PollNothing, inputFrame, cutVars, CutTyped
<1>14. CASE PublishBatch
    BY <1>14, <1>0 DEF PublishBatch, Abort, cutVars, CutTyped
<1>15. CASE ServiceAcks
    BY <1>15, <1>0 DEF ServiceAcks, Abort, cutVars, CutTyped
<1>16. ASSUME NEW s \in Msgs, Confirm(s)
      PROVE  CutTyped'
    BY <1>16, <1>0 DEF Confirm, cutVars, CutTyped
<1>17. CASE ForceCheckpoint
    <2>1. CASE Verified
        <3>1. [id |-> nextId, cut |-> SourceCut, rows |-> <<>>, st |-> "sending"] \in Worker
            BY <1>0 DEF CutTyped, Worker, SourceCut
        <3>2. /\ command' = FALSE /\ nextId' = nextId + 1 /\ bootstrap' = bootstrap
              /\ workers' = workers \cup {[id |-> nextId, cut |-> SourceCut,
                                           rows |-> <<>>, st |-> "sending"]}
            BY <1>17, <2>1 DEF ForceCheckpoint, BeginCheckpoint
        <3>3. nextId' \in Nat
            BY <1>0, <3>2 DEF CutTyped
        <3>4. bootstrap' \in BOOLEAN
            BY <1>0, <3>2 DEF CutTyped
        <3>5. command' \in BOOLEAN
            BY <3>2
        <3>6. workers' \subseteq Worker
            BY <1>0, <3>1, <3>2 DEF CutTyped
        <3> QED
            BY <3>3, <3>4, <3>5, <3>6 DEF CutTyped
    <2>2. CASE ~Verified
        BY <1>17, <1>0, <2>2 DEF ForceCheckpoint, BeginCheckpoint, Abort, cutVars, CutTyped
    <2> QED
        BY <2>1, <2>2
<1>18. CASE RequestCheckpoint
    BY <1>18, <1>0 DEF RequestCheckpoint, CutTyped
<1>19. CASE TakeCommand
    <2>1. CASE Verified
        <3>1. [id |-> nextId, cut |-> SourceCut, rows |-> <<>>, st |-> "sending"] \in Worker
            BY <1>0 DEF CutTyped, Worker, SourceCut
        <3>2. /\ command' = FALSE /\ nextId' = nextId + 1 /\ bootstrap' = bootstrap
              /\ workers' = workers \cup {[id |-> nextId, cut |-> SourceCut,
                                           rows |-> <<>>, st |-> "sending"]}
            BY <1>19, <2>1 DEF TakeCommand, BeginCheckpoint
        <3>3. nextId' \in Nat
            BY <1>0, <3>2 DEF CutTyped
        <3>4. bootstrap' \in BOOLEAN
            BY <1>0, <3>2 DEF CutTyped
        <3>5. command' \in BOOLEAN
            BY <3>2
        <3>6. workers' \subseteq Worker
            BY <1>0, <3>1, <3>2 DEF CutTyped
        <3> QED
            BY <3>3, <3>4, <3>5, <3>6 DEF CutTyped
    <2>2. CASE ~Verified
        BY <1>19, <1>0, <2>2 DEF TakeCommand, BeginCheckpoint, Abort, cutVars, CutTyped
    <2> QED
        BY <2>1, <2>2
<1>20. CASE DropCommand
    BY <1>20, <1>0 DEF DropCommand, CutTyped
<1>21. ASSUME NEW w \in workers, SendBarrier(w)
      PROVE  CutTyped'
    <2>1. PICK st \in {"aligning", "expired"} : Move(w, st)
        BY <1>21 DEF SendBarrier
    <2>2. w \in Worker /\ st \in States
        BY <1>0 DEF CutTyped, States
    <2>3. workers' \subseteq Worker
        BY <1>0, <2>1, <2>2, MoveTyped DEF CutTyped
    <2> QED
        BY <1>21, <1>0, <2>3 DEF SendBarrier, CutTyped
<1>22. ASSUME NEW w \in workers, Expire(w)
      PROVE  CutTyped'
    <2>1. PICK st \in {"expired"} : Move(w, st)
        BY <1>22 DEF Expire
    <2>2. w \in Worker /\ st \in States
        BY <1>0 DEF CutTyped, States
    <2>3. workers' \subseteq Worker
        BY <1>0, <2>1, <2>2, MoveTyped DEF CutTyped
    <2> QED
        BY <1>22, <1>0, <2>3 DEF Expire, workerFrame, CutTyped
<1>23. ASSUME NEW w \in workers, CancelWorker(w)
      PROVE  CutTyped'
    <2>1. PICK st \in {"error"} : Move(w, st)
        BY <1>23 DEF CancelWorker
    <2>2. w \in Worker /\ st \in States
        BY <1>0 DEF CutTyped, States
    <2>3. workers' \subseteq Worker
        BY <1>0, <2>1, <2>2, MoveTyped DEF CutTyped
    <2> QED
        BY <1>23, <1>0, <2>3 DEF CancelWorker, workerFrame, CutTyped
<1>24. ASSUME NEW w \in workers, Commit(w)
      PROVE  CutTyped'
    <2>1. PICK st \in {"durable", "error"} : Move(w, st)
        BY <1>24 DEF Commit
    <2>2. w \in Worker /\ st \in States
        BY <1>0 DEF CutTyped, States
    <2>3. workers' \subseteq Worker
        BY <1>0, <2>1, <2>2, MoveTyped DEF CutTyped
    <2> QED
        BY <1>24, <1>0, <2>3 DEF Commit, workerFrame, CutTyped
<1>25. ASSUME NEW w \in workers, Finish(w)
      PROVE  CutTyped'
    <2>1. PICK st \in {"finished", "returned"} : Move(w, st)
        BY <1>25 DEF Finish
    <2>2. w \in Worker /\ st \in States
        BY <1>0 DEF CutTyped, States
    <2>3. workers' \subseteq Worker
        BY <1>0, <2>1, <2>2, MoveTyped DEF CutTyped
    <2> QED
        BY <1>25, <1>0, <2>3 DEF Finish, workerFrame, CutTyped
<1>26. ASSUME NEW w \in workers, JoinReturned(w)
      PROVE  CutTyped'
    BY <1>26, <1>0 DEF JoinReturned, Abort, cutVars, CutTyped
<1>27. ASSUME NEW w \in workers, JoinFailed(w)
      PROVE  CutTyped'
    BY <1>27, <1>0 DEF JoinFailed, Abort, cutVars, workerFrame, CutTyped
<1>28. CASE Apply
    <2>1. \A v \in workers' : v \in workers \/ \E u \in workers :
                               v = [u EXCEPT !.rows = applied, !.st = "aligned"]
        BY <1>28 DEF Apply
    <2>2. \A u \in workers : [u EXCEPT !.rows = applied, !.st = "aligned"] \in Worker
        BY <1>0 DEF CutTyped, JobTyped, Worker
    <2>3. workers' \subseteq Worker
        BY <1>0, <2>1, <2>2 DEF CutTyped
    <2> QED
        BY <1>28, <1>0, <2>3 DEF Apply, CutTyped
<1>29. CASE JobFails
    BY <1>29, <1>0 DEF JobFails, Abort, cutVars, CutTyped
<1>30. CASE Crash
    BY <1>30, <1>0 DEF Crash, Forget, CutTyped
<1>31. CASE Close
    BY <1>31, <1>0 DEF Close, Forget, CutTyped
<1>32. CASE DropFrame
    BY <1>32, <1>0 DEF DropFrame, cutVars, CutTyped
<1>33. CASE Evict
    BY <1>33, <1>0 DEF Evict, idleVars, cutVars, CutTyped
<1>34. CASE Damage
    BY <1>34, <1>0 DEF Damage, idleVars, cutVars, CutTyped
<1>35. ASSUME NEW s \in Poison, Purge(s)
      PROVE  CutTyped'
    BY <1>35, <1>0 DEF Purge, idleVars, cutVars, CutTyped
<1>36. CASE UNCHANGED vars
    BY <1>36, <1>0 DEF vars, cutVars, CutTyped
<1> QED
    BY <1>1, <1>2, <1>3, <1>4, <1>5, <1>6, <1>7, <1>8, <1>9, <1>10, <1>11,
       <1>12, <1>13, <1>14, <1>15, <1>16, <1>17, <1>18, <1>19, <1>20, <1>21,
       <1>22, <1>23, <1>24, <1>25, <1>26, <1>27, <1>28, <1>29, <1>30, <1>31,
       <1>32, <1>33, <1>34, <1>35, <1>36 DEF Next, Opening, Input,
       Checkpointing, Ending, Environment

\* Committing a cut.
LEMMA CommitLedger ==
    ASSUME LedgerOK(ledger), NEW c \in Nat
    PROVE  /\ LedgerOK([ledger EXCEPT !.committed = c])
           /\ [ledger EXCEPT !.committed = c].committed = c
           /\ [ledger EXCEPT !.committed = c].received = ledger.received
           /\ [ledger EXCEPT !.committed = c].published = ledger.published
           /\ [ledger EXCEPT !.committed = c].entries = ledger.entries
BY DEF LedgerOK, Ledger

\* A frame that is lost.
LEMMA RemoveTyped ==
    ASSUME NEW q \in Seq(Frame), NEW i \in DOMAIN q
    PROVE  RemoveAt(q, i) \in Seq(Frame)
<1>1. SubSeq(q, 1, i - 1) \in Seq(Frame) /\ SubSeq(q, i + 1, Len(q)) \in Seq(Frame)
    OBVIOUS
<1> QED
    BY <1>1 DEF RemoveAt

\* Every step keeps the types of the reader and its ledger.
LEMMA ReaderTypedStep == TypeOK /\ Resting /\ [Next]_vars => ReaderTyped'
<1> SUFFICES ASSUME TypeOK, Resting, [Next]_vars
             PROVE  ReaderTyped'
    OBVIOUS
<1>0. ReaderTyped /\ BrokerTyped /\ DiskTyped /\ BuildTyped /\ CutTyped
    BY TypeParts
<1>1. CASE Open
    BY <1>1, <1>0 DEF Open, opening, readerVars, ReaderTyped
<1>2. CASE DeleteOld
    BY <1>2, <1>0 DEF DeleteOld, opening, readerVars, ReaderTyped
<1>3. CASE Bind
    BY <1>3, <1>0 DEF Bind, opening, readerVars, ReaderTyped
<1>4. CASE Create
    <2>1. LedgerOK(NewLedger(Restored.cut))
        BY <1>4, <1>0, RestoredTyped, FreshTyped DEF Create, Resting, DiskTyped
    <2> QED
        BY <1>4, <1>0, <2>1 DEF Create, ReaderTyped
<1>5. CASE CreateFails
    BY <1>5, <1>0 DEF CreateFails, opening, readerVars, ReaderTyped
<1>6. CASE PreparePull
    <2>1. PICK again \in Seq(Nat), n \in Nat : Deliver(again, n)
        BY <1>6, <1>0, PullDelivers DEF BrokerTyped, ReaderTyped, LedgerOK, Pending
    <2>2. wire' \in Seq(Frame)
        BY <1>0, <2>1, DeliverTyped DEF BrokerTyped
    <2> QED
        BY <1>6, <1>0, <2>2 DEF PreparePull, ReaderTyped
<1>7. CASE ReadFrame
    <2>1. CASE ObserveFails(Head(wire))
        BY <1>7, <1>0, <2>1 DEF ReadFrame, Abort, readerVars, ReaderTyped
    <2>2. CASE ~ObserveFails(Head(wire))
        <3>1. wire' = Tail(wire) /\ ledger' = Observed(Head(wire)) /\ pulling' = pulling
            BY <1>7, <2>2 DEF ReadFrame
        <3>2. wire # <<>>
            BY <1>7 DEF ReadFrame
        <3>3. Head(wire) \in Frame /\ Tail(wire) \in Seq(Frame)
            BY <1>0, <3>2 DEF ReaderTyped
        <3> QED
            BY <1>0, <2>2, <3>1, <3>3, ObservedEffect DEF ReaderTyped
    <2> QED
        BY <2>1, <2>2
<1>8. CASE ReadDeferred
    BY <1>8, <1>0 DEF ReadDeferred, readerVars, ReaderTyped
<1>9. CASE EndPull
    BY <1>9, <1>0 DEF EndPull, ReaderTyped
<1>10. CASE DecodeRow
    BY <1>10, <1>0 DEF DecodeRow, readerVars, ReaderTyped
<1>11. CASE Quarantine
    BY <1>11, <1>0 DEF Quarantine, Abort, readerVars, ReaderTyped
<1>12. CASE Poll
    <2>1. CASE ObserveFails(Head(wire))
        BY <1>12, <1>0, <2>1 DEF Poll, Abort, readerVars, ReaderTyped
    <2>2. CASE ~ObserveFails(Head(wire))
        <3>1. wire' = Tail(wire) /\ ledger' = Observed(Head(wire)) /\ pulling' = pulling
            BY <1>12, <2>2 DEF Poll
        <3>2. wire # <<>>
            BY <1>12 DEF Poll
        <3>3. Head(wire) \in Frame /\ Tail(wire) \in Seq(Frame)
            BY <1>0, <3>2 DEF ReaderTyped
        <3> QED
            BY <1>0, <2>2, <3>1, <3>3, ObservedEffect DEF ReaderTyped
    <2> QED
        BY <2>1, <2>2
<1>13. CASE PollNothing
    BY <1>13, <1>0 DEF PollNothing, ReaderTyped
<1>14. CASE PublishBatch
    BY <1>14, <1>0, PublishedEffect DEF PublishBatch, Abort, readerVars, ReaderTyped,
       BuildTyped, Build
<1>15. CASE ServiceAcks
    BY <1>15, <1>0, ServicedEffect DEF ServiceAcks, Abort, readerVars, ReaderTyped
<1>16. ASSUME NEW s \in Msgs, Confirm(s)
      PROVE  ReaderTyped'
    BY <1>16, <1>0, ConfirmEffect DEF Confirm, ReaderTyped
<1>17. CASE ForceCheckpoint
    BY <1>17, <1>0 DEF ForceCheckpoint, BeginCheckpoint, Abort, readerVars,
       ReaderTyped
<1>18. CASE RequestCheckpoint
    BY <1>18, <1>0 DEF RequestCheckpoint, readerVars, ReaderTyped
<1>19. CASE TakeCommand
    BY <1>19, <1>0 DEF TakeCommand, BeginCheckpoint, Abort, readerVars,
       ReaderTyped
<1>20. CASE DropCommand
    BY <1>20, <1>0 DEF DropCommand, readerVars, ReaderTyped
<1>21. ASSUME NEW w \in workers, SendBarrier(w)
      PROVE  ReaderTyped'
    BY <1>21, <1>0 DEF SendBarrier, readerVars, ReaderTyped
<1>22. ASSUME NEW w \in workers, Expire(w)
      PROVE  ReaderTyped'
    BY <1>22, <1>0 DEF Expire, workerFrame, readerVars, ReaderTyped
<1>23. ASSUME NEW w \in workers, CancelWorker(w)
      PROVE  ReaderTyped'
    BY <1>23, <1>0 DEF CancelWorker, workerFrame, readerVars, ReaderTyped
<1>24. ASSUME NEW w \in workers, Commit(w)
      PROVE  ReaderTyped'
    BY <1>24, <1>0 DEF Commit, workerFrame, readerVars, ReaderTyped
<1>25. ASSUME NEW w \in workers, Finish(w)
      PROVE  ReaderTyped'
    BY <1>25, <1>0 DEF Finish, workerFrame, readerVars, ReaderTyped
<1>26. ASSUME NEW w \in workers, JoinReturned(w)
      PROVE  ReaderTyped'
    <2>1. w.cut \in Nat
        BY <1>0 DEF CutTyped, Worker
    <2>2. LedgerOK([ledger EXCEPT !.committed = w.cut])
        BY <1>0, <2>1, CommitLedger DEF ReaderTyped
    <2> QED
        BY <1>26, <1>0, <2>2, ServicedEffect DEF JoinReturned, Abort, readerVars,
               ReaderTyped
<1>27. ASSUME NEW w \in workers, JoinFailed(w)
      PROVE  ReaderTyped'
    BY <1>27, <1>0 DEF JoinFailed, Abort, readerVars, workerFrame,
       ReaderTyped
<1>28. CASE Apply
    BY <1>28, <1>0 DEF Apply, readerVars, ReaderTyped
<1>29. CASE JobFails
    BY <1>29, <1>0 DEF JobFails, Abort, readerVars, ReaderTyped
<1>30. CASE Crash
    <2>1. LedgerOK(NewLedger(0)) /\ <<>> \in Seq(Frame)
        BY FreshTyped
    <2> QED
        BY <1>30, <2>1 DEF Crash, Forget, ReaderTyped
<1>31. CASE Close
    <2>1. LedgerOK(NewLedger(0)) /\ <<>> \in Seq(Frame)
        BY FreshTyped
    <2> QED
        BY <1>31, <2>1 DEF Close, Forget, ReaderTyped
<1>32. CASE DropFrame
    <2>1. PICK i \in DOMAIN wire : wire' = RemoveAt(wire, i)
        BY <1>32 DEF DropFrame
    <2>2. wire' \in Seq(Frame)
        BY <1>0, <2>1, RemoveTyped DEF ReaderTyped
    <2> QED
        BY <1>32, <1>0, <2>2 DEF DropFrame, ReaderTyped
<1>33. CASE Evict
    BY <1>33, <1>0 DEF Evict, idleVars, readerVars, ReaderTyped
<1>34. CASE Damage
    BY <1>34, <1>0 DEF Damage, idleVars, readerVars, ReaderTyped
<1>35. ASSUME NEW s \in Poison, Purge(s)
      PROVE  ReaderTyped'
    BY <1>35, <1>0 DEF Purge, idleVars, readerVars, ReaderTyped
<1>36. CASE UNCHANGED vars
    BY <1>36, <1>0 DEF vars, readerVars, ReaderTyped
<1> QED
    BY <1>1, <1>2, <1>3, <1>4, <1>5, <1>6, <1>7, <1>8, <1>9, <1>10, <1>11,
       <1>12, <1>13, <1>14, <1>15, <1>16, <1>17, <1>18, <1>19, <1>20, <1>21,
       <1>22, <1>23, <1>24, <1>25, <1>26, <1>27, <1>28, <1>29, <1>30, <1>31,
       <1>32, <1>33, <1>34, <1>35, <1>36 DEF Next, Opening, Input,
       Checkpointing, Ending, Environment

-----------------------------------------------------------------------------
(* The consumer, the quarantine and the pause between attempts.            *)

\* The binding moves only when no consumer is left.
LEMMA ConsumerStep == TypeOK /\ ConsumerInv /\ [Next]_vars => ConsumerInv'
<1> SUFFICES ASSUME TypeOK, ConsumerInv, [Next]_vars
             PROVE  ConsumerInv'
    OBVIOUS
<1>0. BrokerTyped
    BY TypeParts
<1>1. CASE Open
    BY <1>1, <1>0 DEF Open, brokerVars, BrokerTyped, None, ConsumerInv
<1>2. CASE DeleteOld
    BY <1>2, <1>0 DEF DeleteOld, BrokerTyped, None, ConsumerInv
<1>3. CASE Bind
    BY <1>3, <1>0 DEF Bind, BrokerTyped, None, ConsumerInv
<1>4. CASE Create
    BY <1>4, <1>0 DEF Create, BrokerTyped, None, ConsumerInv
<1>5. CASE CreateFails
    BY <1>5, <1>0 DEF CreateFails, BrokerTyped, None, ConsumerInv
<1>6. CASE PreparePull
    BY <1>6, <1>0 DEF PreparePull, MayRead, Running, ConsumerInv
<1>7. CASE ReadFrame
    BY <1>7, <1>0 DEF ReadFrame, MayRead, Running, Abort, brokerVars,
       inputFrame, ConsumerInv
<1>8. CASE ReadDeferred
    BY <1>8, <1>0 DEF ReadDeferred, MayRead, Running, inputFrame,
       brokerVars, ConsumerInv
<1>9. CASE EndPull
    BY <1>9, <1>0 DEF EndPull, MayRead, Running, inputFrame, brokerVars,
       ConsumerInv
<1>10. CASE DecodeRow
    BY <1>10, <1>0 DEF DecodeRow, inputFrame, brokerVars, ConsumerInv
<1>11. CASE Quarantine
    BY <1>11, <1>0 DEF Quarantine, Abort, brokerVars, inputFrame,
       ConsumerInv
<1>12. CASE Poll
    BY <1>12, <1>0 DEF Poll, Abort, brokerVars, inputFrame, ConsumerInv
<1>13. CASE PollNothing
    BY <1>13, <1>0 DEF PollNothing, inputFrame, brokerVars, ConsumerInv
<1>14. CASE PublishBatch
    BY <1>14, <1>0 DEF PublishBatch, Abort, brokerVars, ConsumerInv
<1>15. CASE ServiceAcks
    BY <1>15, <1>0 DEF ServiceAcks, Running, Abort, brokerVars, ConsumerInv
<1>16. ASSUME NEW s \in Msgs, Confirm(s)
      PROVE  ConsumerInv'
    BY <1>16, <1>0 DEF Confirm, ConsumerInv
<1>17. CASE ForceCheckpoint
    BY <1>17, <1>0 DEF ForceCheckpoint, Running, BeginCheckpoint, Abort,
       brokerVars, ConsumerInv
<1>18. CASE RequestCheckpoint
    BY <1>18, <1>0 DEF RequestCheckpoint, brokerVars, ConsumerInv
<1>19. CASE TakeCommand
    BY <1>19, <1>0 DEF TakeCommand, Running, BeginCheckpoint, Abort,
       brokerVars, ConsumerInv
<1>20. CASE DropCommand
    BY <1>20, <1>0 DEF DropCommand, Running, brokerVars, ConsumerInv
<1>21. ASSUME NEW w \in workers, SendBarrier(w)
      PROVE  ConsumerInv'
    BY <1>21, <1>0 DEF SendBarrier, brokerVars, ConsumerInv
<1>22. ASSUME NEW w \in workers, Expire(w)
      PROVE  ConsumerInv'
    BY <1>22, <1>0 DEF Expire, workerFrame, brokerVars, ConsumerInv
<1>23. ASSUME NEW w \in workers, CancelWorker(w)
      PROVE  ConsumerInv'
    BY <1>23, <1>0 DEF CancelWorker, workerFrame, brokerVars, ConsumerInv
<1>24. ASSUME NEW w \in workers, Commit(w)
      PROVE  ConsumerInv'
    BY <1>24, <1>0 DEF Commit, workerFrame, brokerVars, ConsumerInv
<1>25. ASSUME NEW w \in workers, Finish(w)
      PROVE  ConsumerInv'
    BY <1>25, <1>0 DEF Finish, workerFrame, brokerVars, ConsumerInv
<1>26. ASSUME NEW w \in workers, JoinReturned(w)
      PROVE  ConsumerInv'
    BY <1>26, <1>0 DEF JoinReturned, Running, Abort, brokerVars, ConsumerInv
<1>27. ASSUME NEW w \in workers, JoinFailed(w)
      PROVE  ConsumerInv'
    BY <1>27, <1>0 DEF JoinFailed, Running, Abort, brokerVars, workerFrame,
       ConsumerInv
<1>28. CASE Apply
    BY <1>28, <1>0 DEF Apply, brokerVars, ConsumerInv
<1>29. CASE JobFails
    BY <1>29, <1>0 DEF JobFails, Abort, brokerVars, ConsumerInv
<1>30. CASE Crash
    BY <1>30, <1>0 DEF Crash, Forget, brokerVars, ConsumerInv
<1>31. CASE Close
    BY <1>31, <1>0 DEF Close, Forget, brokerVars, ConsumerInv
<1>32. CASE DropFrame
    BY <1>32, <1>0 DEF DropFrame, brokerVars, ConsumerInv
<1>33. CASE Evict
    BY <1>33, <1>0 DEF Evict, idleVars, ConsumerInv
<1>34. CASE Damage
    BY <1>34, <1>0 DEF Damage, brokerVars, idleVars, ConsumerInv
<1>35. ASSUME NEW s \in Poison, Purge(s)
      PROVE  ConsumerInv'
    BY <1>35, <1>0 DEF Purge, brokerVars, idleVars, ConsumerInv
<1>36. CASE UNCHANGED vars
    BY <1>36, <1>0 DEF vars, brokerVars, ConsumerInv
<1> QED
    BY <1>1, <1>2, <1>3, <1>4, <1>5, <1>6, <1>7, <1>8, <1>9, <1>10, <1>11,
       <1>12, <1>13, <1>14, <1>15, <1>16, <1>17, <1>18, <1>19, <1>20, <1>21,
       <1>22, <1>23, <1>24, <1>25, <1>26, <1>27, <1>28, <1>29, <1>30, <1>31,
       <1>32, <1>33, <1>34, <1>35, <1>36 DEF Next, Opening, Input,
       Checkpointing, Ending, Environment

\* Nothing survives the end of an attempt in memory.
LEMMA RestingStep == TypeOK /\ Resting /\ [Next]_vars => Resting'
<1> SUFFICES ASSUME TypeOK, Resting, [Next]_vars
             PROVE  Resting'
    OBVIOUS
<1>1. CASE Open
    BY <1>1 DEF Open, opening, diskVars, buildVars, cutVars, jobVars,
       Resting, Attempting, Readable
<1>2. CASE DeleteOld
    BY <1>2 DEF DeleteOld, opening, diskVars, buildVars, cutVars, jobVars,
       Resting, Attempting, Readable
<1>3. CASE Bind
    BY <1>3 DEF Bind, opening, diskVars, buildVars, cutVars, jobVars,
       Resting, Attempting, Readable
<1>4. CASE Create
    BY <1>4 DEF Create, diskVars, buildVars, Resting, Attempting, Readable
<1>5. CASE CreateFails
    BY <1>5 DEF CreateFails, opening, diskVars, buildVars, cutVars, jobVars,
       Resting, Attempting, Readable
<1>6. CASE PreparePull
    BY <1>6 DEF PreparePull, MayRead, Running, diskVars, buildVars, cutVars,
       jobVars, Resting, Attempting, Readable
<1>7. CASE ReadFrame
    BY <1>7 DEF ReadFrame, MayRead, Running, Abort, diskVars, buildVars,
       cutVars, jobVars, inputFrame, Resting, Attempting, Readable
<1>8. CASE ReadDeferred
    BY <1>8 DEF ReadDeferred, MayRead, Running, inputFrame, cutVars,
       jobVars, diskVars, Resting, Attempting, Readable
<1>9. CASE EndPull
    BY <1>9 DEF EndPull, MayRead, Running, inputFrame, cutVars, jobVars,
       diskVars, buildVars, Resting, Attempting, Readable
<1>10. CASE DecodeRow
    BY <1>10 DEF DecodeRow, inputFrame, cutVars, jobVars, diskVars, Resting,
       Attempting, Readable
<1>11. CASE Quarantine
    BY <1>11 DEF Quarantine, Abort, diskVars, buildVars, cutVars, jobVars,
       inputFrame, Resting, Attempting, Readable
<1>12. CASE Poll
    BY <1>12 DEF Poll, Abort, diskVars, buildVars, cutVars, jobVars,
       inputFrame, Resting, Attempting, Readable
<1>13. CASE PollNothing
    BY <1>13 DEF PollNothing, inputFrame, cutVars, jobVars, diskVars,
       Resting, Attempting, Readable
<1>14. CASE PublishBatch
    BY <1>14 DEF PublishBatch, Abort, diskVars, buildVars, cutVars, jobVars,
       Resting, Attempting, Readable
<1>15. CASE ServiceAcks
    BY <1>15 DEF ServiceAcks, Running, Abort, diskVars, buildVars, cutVars,
       jobVars, Resting, Attempting, Readable
<1>16. ASSUME NEW s \in Msgs, Confirm(s)
      PROVE  Resting'
    BY <1>16 DEF Confirm, diskVars, buildVars, cutVars, jobVars, Resting,
       Attempting, Readable
<1>17. CASE ForceCheckpoint
    BY <1>17 DEF ForceCheckpoint, Running, BeginCheckpoint, Abort, diskVars,
       buildVars, cutVars, jobVars, Resting, Attempting, Readable
<1>18. CASE RequestCheckpoint
    BY <1>18 DEF RequestCheckpoint, diskVars, buildVars, jobVars, Resting,
       Attempting, Readable
<1>19. CASE TakeCommand
    BY <1>19 DEF TakeCommand, Running, BeginCheckpoint, Abort, diskVars,
       buildVars, cutVars, jobVars, Resting, Attempting, Readable
<1>20. CASE DropCommand
    BY <1>20 DEF DropCommand, Running, diskVars, buildVars, jobVars,
       Resting, Attempting, Readable
<1>21. ASSUME NEW w \in workers, SendBarrier(w)
      PROVE  Resting'
    BY <1>21 DEF SendBarrier, diskVars, Resting, Attempting, Readable
<1>22. ASSUME NEW w \in workers, Expire(w)
      PROVE  Resting'
    BY <1>22 DEF Expire, workerFrame, buildVars, jobVars, diskVars, Resting,
       Attempting, Readable
<1>23. ASSUME NEW w \in workers, CancelWorker(w)
      PROVE  Resting'
    BY <1>23 DEF CancelWorker, workerFrame, buildVars, jobVars, diskVars,
       Resting, Attempting, Readable
<1>24. ASSUME NEW w \in workers, Commit(w)
      PROVE  Resting'
    BY <1>24 DEF Commit, workerFrame, buildVars, jobVars, Resting,
       Attempting, Readable
<1>25. ASSUME NEW w \in workers, Finish(w)
      PROVE  Resting'
    BY <1>25 DEF Finish, workerFrame, buildVars, jobVars, diskVars, Resting,
       Attempting, Readable
<1>26. ASSUME NEW w \in workers, JoinReturned(w)
      PROVE  Resting'
    BY <1>26 DEF JoinReturned, Running, Abort, diskVars, buildVars, cutVars,
       jobVars, Resting, Attempting, Readable
<1>27. ASSUME NEW w \in workers, JoinFailed(w)
      PROVE  Resting'
    BY <1>27 DEF JoinFailed, Running, Abort, diskVars, buildVars, cutVars,
       jobVars, workerFrame, Resting, Attempting, Readable
<1>28. CASE Apply
    BY <1>28 DEF Apply, diskVars, buildVars, Resting, Attempting, Readable
<1>29. CASE JobFails
    BY <1>29 DEF JobFails, Abort, diskVars, buildVars, cutVars, jobVars,
       Resting, Attempting, Readable
<1>30. CASE Crash
    BY <1>30 DEF Crash, Forget, diskVars, Resting, Attempting, Readable
<1>31. CASE Close
    BY <1>31 DEF Close, Forget, diskVars, Resting, Attempting, Readable
<1>32. CASE DropFrame
    BY <1>32 DEF DropFrame, diskVars, buildVars, cutVars, jobVars, Resting,
       Attempting, Readable
<1>33. CASE Evict
    BY <1>33 DEF Evict, diskVars, idleVars, buildVars, cutVars, jobVars,
       Resting, Attempting, Readable
<1>34. CASE Damage
    BY <1>34 DEF Damage, idleVars, buildVars, cutVars, jobVars, Resting,
       Attempting, Readable
<1>35. ASSUME NEW s \in Poison, Purge(s)
      PROVE  Resting'
    BY <1>35 DEF Purge, idleVars, buildVars, cutVars, jobVars, Resting,
       Attempting, Readable
<1>36. CASE UNCHANGED vars
    BY <1>36 DEF vars, diskVars, buildVars, cutVars, jobVars, Resting,
       Attempting, Readable
<1> QED
    BY <1>1, <1>2, <1>3, <1>4, <1>5, <1>6, <1>7, <1>8, <1>9, <1>10, <1>11,
       <1>12, <1>13, <1>14, <1>15, <1>16, <1>17, <1>18, <1>19, <1>20, <1>21,
       <1>22, <1>23, <1>24, <1>25, <1>26, <1>27, <1>28, <1>29, <1>30, <1>31,
       <1>32, <1>33, <1>34, <1>35, <1>36 DEF Next, Opening, Input,
       Checkpointing, Ending, Environment

\* What publishing a batch does to the ledger: the published position moves to
\* the end of the batch, the pending messages and confirmations stay.
LEMMA PublishPositions ==
    ASSUME TypeOK, PublishBatch, ~PublishFails(build.first, build.last)
    PROVE  /\ ledger'.received = ledger.received /\ ledger'.committed = ledger.committed
           /\ ledger'.published = IF build.first <= build.last THEN build.last
                                  ELSE ledger.published
           /\ build.first <= build.last => build.first = ledger.published + 1
           /\ ledger.published <= ledger'.published /\ ledger'.published \in Nat
           /\ Pending' = Pending
           /\ \A s \in Pending : ledger'.entries[s].confirm = ledger.entries[s].confirm
<1>1. LedgerOK(ledger) /\ build.first \in Nat /\ build.last \in Nat /\ ledger.published \in Nat
    BY TypeParts, LedgerFields DEF ReaderTyped, BuildTyped, Build
<1>2. ledger' = Published(build.first, build.last)
    BY DEF PublishBatch
<1>3. build.first <= build.last => build.first = ledger.published + 1
    BY DEF PublishFails
<1> QED
    BY <1>1, <1>2, <1>3, PublishedEffect DEF Pending

\* What handing ACK calls to the executor does to the ledger: positions and the
\* set of pending messages stay, a confirmation starts only below the cut.
LEMMA ServicePositions ==
    ASSUME TypeOK, ServiceAcks, ~AckFailed
    PROVE  /\ ledger'.received = ledger.received /\ ledger'.committed = ledger.committed
           /\ ledger'.published = ledger.published /\ Pending' \subseteq Pending
           /\ \A s \in Pending' : \/ ledger'.entries[s].confirm = ledger.entries[s].confirm
                                  \/ s <= ledger.committed
BY TypeParts, ServicedEffect DEF ServiceAcks, ReaderTyped, Pending

\* What an ACK call that returned does to the ledger: a confirmed message leaves,
\* the committed position stays.
LEMMA JoinPositions ==
    ASSUME TypeOK, NEW w \in workers, JoinReturned(w), ~(CutRefused(w.cut) \/ AckFailed)
    PROVE  /\ ledger'.received = ledger.received /\ ledger'.committed = w.cut
           /\ ledger'.published = ledger.published /\ Pending' \subseteq Pending
           /\ ledger.committed <= w.cut /\ w.cut <= ledger.published
           /\ \A s \in Pending' : \/ ledger'.entries[s].confirm = ledger.entries[s].confirm
                                  \/ s <= w.cut
<1>1. LedgerOK(ledger) /\ w.cut \in Nat
    BY TypeParts DEF ReaderTyped, CutTyped, Worker
<1> DEFINE K == [ledger EXCEPT !.committed = w.cut]
<1>2. /\ LedgerOK(K) /\ K.committed = w.cut /\ K.received = ledger.received
      /\ K.published = ledger.published /\ K.entries = ledger.entries
    BY <1>1, CommitLedger
<1>3. ledger' = Serviced(K)
    BY DEF JoinReturned
<1>4. ledger.committed <= w.cut /\ w.cut <= ledger.published
    BY <1>1, LedgerFields DEF CutRefused
<1> HIDE DEF K
<1> QED
    BY <1>2, <1>3, <1>4, ServicedEffect DEF Pending

\* What reading a frame does to the ledger: it adds a pending message with no
\* confirmation and moves no position.
LEMMA ReadPositions ==
    ASSUME TypeOK, wire # <<>>, ~ObserveFails(Head(wire)), ledger' = Observed(Head(wire))
    PROVE  /\ ledger'.committed = ledger.committed /\ ledger'.published = ledger.published
           /\ Head(wire).seq \in Nat
           /\ Known(Head(wire)) => ledger'.received = ledger.received
           /\ ~Known(Head(wire)) => /\ ledger'.received = ledger.received + 1
                                    /\ Head(wire).seq = ledger.received + 1
           /\ \A s \in Pending' : \/ /\ s \in Pending
                                     /\ ledger'.entries[s] = ledger.entries[s]
                                  \/ ledger'.entries[s].confirm = "none"
<1>1. LedgerOK(ledger) /\ wire \in Seq(Frame)
    BY TypeParts DEF ReaderTyped
<1>2. Head(wire) \in Frame
    BY <1>1
<1> QED
    BY <1>1, <1>2, ObservedEffect DEF Pending, Frame

\* A record in hand is the newest one received.
LEMMA ReadingStep == TypeOK /\ Resting /\ Reading /\ [Next]_vars => Reading'
<1> SUFFICES ASSUME TypeOK, Resting, Reading, [Next]_vars
             PROVE  Reading'
    OBVIOUS
<1>0. /\ ledger.received \in Nat /\ LedgerOK(ledger) /\ floor \in Nat
      /\ wire \in Seq(Frame) /\ build \in Build /\ deferred \in Nat
    BY TypeParts, LedgerFields DEF ReaderTyped, DiskTyped, BuildTyped
<1>1. CASE Open
    BY <1>1, <1>0 DEF Open, None, opening, diskVars, readerVars, buildVars,
       Reading, Attempting
<1>2. CASE DeleteOld
    BY <1>2, <1>0 DEF DeleteOld, opening, diskVars, readerVars, buildVars,
       Reading, Attempting
<1>3. CASE Bind
    BY <1>3, <1>0 DEF Bind, opening, diskVars, readerVars, buildVars,
       Reading, Attempting
<1>4. CASE Create
    <2>1. CASE CheckStart(Restored.cut)
        <3>1. Restored.cut \in Nat /\ ledger' = NewLedger(Restored.cut) /\ floor' = floor
            BY <1>4, <2>1, RestoredTyped, TypeParts DEF Create, Resting, DiskTyped, diskVars
        <3>2. deferred' = None /\ pc' = "loop"
            BY <1>4 DEF Create, Resting, Attempting, buildVars
        <3> QED
            BY <1>0, <2>1, <3>1, <3>2, FreshTyped DEF Reading, CheckStart
    <2>2. CASE ~CheckStart(Restored.cut)
        BY <1>4, <2>2 DEF Create, Reading, Attempting
    <2> QED
        BY <2>1, <2>2
<1>5. CASE CreateFails
    BY <1>5, <1>0 DEF CreateFails, opening, diskVars, readerVars, buildVars,
       Reading, Attempting
<1>6. CASE PreparePull
    BY <1>6, <1>0 DEF PreparePull, MayRead, Running, None, diskVars,
       buildVars, Reading, Attempting
<1>7. CASE ReadFrame
    <2>1. CASE ObserveFails(Head(wire))
        BY <1>7, <2>1 DEF ReadFrame, MayRead, Running, Abort, diskVars, readerVars,
           buildVars, Reading, Attempting
    <2>2. CASE ~ObserveFails(Head(wire))
        <3>1. /\ wire # <<>> /\ ledger' = Observed(Head(wire)) /\ phase = "running"
              /\ pc = "loop" /\ deferred = None
              /\ deferred' = deferred /\ floor' = floor /\ phase' = phase
            BY <1>7, <2>2 DEF ReadFrame, MayRead, Running, inputFrame, diskVars
        <3>2. CASE Known(Head(wire))
            BY <1>7, <1>0, <2>2, <3>1, <3>2, ReadPositions
               DEF ReadFrame, Reading, Attempting
        <3>3. CASE ~Known(Head(wire))
            <4>1. /\ pc' = "decode" /\ build'.record = Head(wire).seq
                  /\ build'.last = Head(wire).seq - 1
                BY <1>7, <2>2, <3>3 DEF ReadFrame, StartBatch
            <4> QED
                BY <1>0, <2>2, <3>1, <3>3, <4>1, ReadPositions DEF Reading, Attempting, None
        <3> QED
            BY <3>2, <3>3
    <2> QED
        BY <2>1, <2>2
<1>8. CASE ReadDeferred
    BY <1>8, <1>0 DEF ReadDeferred, StartBatch, MayRead, Running, None, inputFrame,
       diskVars, readerVars, Reading, Attempting
<1>9. CASE EndPull
    BY <1>9, <1>0 DEF EndPull, MayRead, Running, None, inputFrame, diskVars,
       buildVars, Reading, Attempting
<1>10. CASE DecodeRow
    <2>1. /\ phase = "running" /\ pc = "decode" /\ phase' = phase /\ floor' = floor
          /\ ledger' = ledger /\ deferred = None
        BY <1>10 DEF DecodeRow, inputFrame, diskVars, readerVars, Reading, Attempting
    <2>2. CASE build' = [build EXCEPT !.rows = Append(@, build.record),
                                      !.last = build.record, !.record = None]
                 /\ deferred' = deferred /\ pc' \in {"batch", "poll"}
        BY <1>0, <2>1, <2>2 DEF Reading, Attempting, Build
    <2>3. CASE deferred' = build.record /\ pc' = "batch"
        BY <1>0, <2>1, <2>3 DEF Reading, Attempting
    <2> QED
        BY <1>10, <2>2, <2>3 DEF DecodeRow
<1>11. CASE Quarantine
    BY <1>11, <1>0 DEF Quarantine, Abort, diskVars, readerVars, buildVars,
       None, inputFrame, Reading, Attempting
<1>12. CASE Poll
    <2>1. CASE ObserveFails(Head(wire))
        BY <1>12, <2>1 DEF Poll, Abort, diskVars, readerVars, buildVars, Reading, Attempting
    <2>2. CASE ~ObserveFails(Head(wire))
        <3>1. /\ wire # <<>> /\ ledger' = Observed(Head(wire)) /\ phase = "running"
              /\ pc = "poll" /\ deferred = None /\ build.last = ledger.received
              /\ floor' = floor /\ phase' = phase
            BY <1>12, <2>2 DEF Poll, inputFrame, diskVars, Reading, Attempting
        <3>2. build'.last = build.last
            BY <1>12, <1>0, <2>2 DEF Poll, Build
        <3>3. CASE Known(Head(wire))
            <4>1. deferred' = None /\ pc' \in {"poll", "batch"}
                BY <1>12, <2>2, <3>1, <3>3 DEF Poll
            <4> QED
                BY <1>0, <2>2, <3>1, <3>2, <3>3, <4>1, ReadPositions DEF Reading, Attempting
        <3>4. CASE ~Known(Head(wire))
            <4>1. Head(wire).seq # None
                BY <1>0, <2>2, <3>1, <3>4, ReadPositions DEF None
            <4>2. \/ deferred' = Head(wire).seq /\ pc' = "batch"
                  \/ /\ deferred' = None /\ pc' = "decode"
                     /\ build'.record = Head(wire).seq
                BY <1>12, <1>0, <2>2, <3>1, <3>4, <4>1 DEF Poll, Build
            <4> QED
                BY <1>0, <2>2, <3>1, <3>2, <3>4, <4>2, ReadPositions DEF Reading, Attempting
        <3> QED
            BY <3>3, <3>4
    <2> QED
        BY <2>1, <2>2
<1>13. CASE PollNothing
    BY <1>13, <1>0 DEF PollNothing, inputFrame, diskVars, Reading,
       Attempting
<1>14. CASE PublishBatch
    <2>1. CASE PublishFails(build.first, build.last)
        BY <1>14, <2>1 DEF PublishBatch, Abort, diskVars, readerVars, buildVars, Reading,
           Attempting
    <2>2. CASE ~PublishFails(build.first, build.last)
        BY <1>14, <2>2, PublishPositions DEF PublishBatch, diskVars, Reading, Attempting
    <2> QED
        BY <2>1, <2>2
<1>15. CASE ServiceAcks
    <2>1. CASE AckFailed
        BY <1>15, <2>1 DEF ServiceAcks, Running, Abort, diskVars, readerVars, buildVars,
           Reading, Attempting
    <2>2. CASE ~AckFailed
        BY <1>15, <2>2, ServicePositions DEF ServiceAcks, diskVars, buildVars, Reading,
           Attempting
    <2> QED
        BY <2>1, <2>2
<1>16. ASSUME NEW s \in Msgs, Confirm(s)
      PROVE  Reading'
    BY <1>16, <1>0, ConfirmEffect DEF Confirm, diskVars, buildVars, Reading, Attempting
<1>17. CASE ForceCheckpoint
    BY <1>17, <1>0 DEF ForceCheckpoint, Running, BeginCheckpoint, Abort,
       diskVars, readerVars, buildVars, Reading, Attempting
<1>18. CASE RequestCheckpoint
    BY <1>18, <1>0 DEF RequestCheckpoint, diskVars, readerVars, buildVars,
       Reading, Attempting
<1>19. CASE TakeCommand
    BY <1>19, <1>0 DEF TakeCommand, Running, BeginCheckpoint, Abort,
       diskVars, readerVars, buildVars, Reading, Attempting
<1>20. CASE DropCommand
    BY <1>20, <1>0 DEF DropCommand, Running, diskVars, readerVars,
       buildVars, Reading, Attempting
<1>21. ASSUME NEW w \in workers, SendBarrier(w)
      PROVE  Reading'
    BY <1>21, <1>0 DEF SendBarrier, diskVars, readerVars, Reading,
       Attempting
<1>22. ASSUME NEW w \in workers, Expire(w)
      PROVE  Reading'
    BY <1>22, <1>0 DEF Expire, workerFrame, readerVars, buildVars, diskVars,
       Reading, Attempting
<1>23. ASSUME NEW w \in workers, CancelWorker(w)
      PROVE  Reading'
    BY <1>23, <1>0 DEF CancelWorker, workerFrame, readerVars, buildVars,
       diskVars, Reading, Attempting
<1>24. ASSUME NEW w \in workers, Commit(w)
      PROVE  Reading'
    BY <1>24, <1>0 DEF Commit, workerFrame, readerVars, buildVars, Reading,
       Attempting
<1>25. ASSUME NEW w \in workers, Finish(w)
      PROVE  Reading'
    BY <1>25, <1>0 DEF Finish, workerFrame, readerVars, buildVars, diskVars,
       Reading, Attempting
<1>26. ASSUME NEW w \in workers, JoinReturned(w)
      PROVE  Reading'
    <2>1. CASE CutRefused(w.cut) \/ AckFailed
        BY <1>26, <2>1 DEF JoinReturned, Running, Abort, diskVars, readerVars, buildVars,
           Reading, Attempting
    <2>2. CASE ~(CutRefused(w.cut) \/ AckFailed)
        BY <1>26, <2>2, JoinPositions DEF JoinReturned, diskVars, buildVars, Reading,
               Attempting
    <2> QED
        BY <2>1, <2>2
<1>27. ASSUME NEW w \in workers, JoinFailed(w)
      PROVE  Reading'
    BY <1>27, <1>0 DEF JoinFailed, Running, Abort, diskVars, readerVars,
       buildVars, workerFrame, Reading, Attempting
<1>28. CASE Apply
    BY <1>28, <1>0 DEF Apply, diskVars, readerVars, buildVars, Reading,
       Attempting
<1>29. CASE JobFails
    BY <1>29, <1>0 DEF JobFails, Abort, diskVars, readerVars, buildVars,
       Reading, Attempting
<1>30. CASE Crash
    BY <1>30, <1>0 DEF Crash, Forget, NewLedger, None, NoBuild, diskVars,
       Reading, Attempting
<1>31. CASE Close
    BY <1>31, <1>0 DEF Close, Forget, NewLedger, None, NoBuild, diskVars,
       Reading, Attempting
<1>32. CASE DropFrame
    BY <1>32, <1>0 DEF DropFrame, diskVars, buildVars, Reading, Attempting
<1>33. CASE Evict
    BY <1>33, <1>0 DEF Evict, diskVars, idleVars, readerVars, buildVars,
       Reading, Attempting
<1>34. CASE Damage
    BY <1>34, <1>0 DEF Damage, idleVars, readerVars, buildVars, Reading,
       Attempting
<1>35. ASSUME NEW s \in Poison, Purge(s)
      PROVE  Reading'
    BY <1>35, <1>0 DEF Purge, idleVars, readerVars, buildVars, Reading,
       Attempting
<1>36. CASE UNCHANGED vars
    BY <1>36, <1>0 DEF vars, diskVars, readerVars, buildVars, Reading,
       Attempting
<1> QED
    BY <1>1, <1>2, <1>3, <1>4, <1>5, <1>6, <1>7, <1>8, <1>9, <1>10, <1>11,
       <1>12, <1>13, <1>14, <1>15, <1>16, <1>17, <1>18, <1>19, <1>20, <1>21,
       <1>22, <1>23, <1>24, <1>25, <1>26, <1>27, <1>28, <1>29, <1>30, <1>31,
       <1>32, <1>33, <1>34, <1>35, <1>36 DEF Next, Opening, Input,
       Checkpointing, Ending, Environment

\* A record is captured once.
LEMMA CapturedStep ==
    TypeOK /\ Reading /\ Captured /\ [Next]_vars => Captured'
<1> SUFFICES ASSUME TypeOK, Reading, Captured, [Next]_vars
             PROVE  Captured'
    OBVIOUS
<1>0. DiskTyped /\ BuildTyped
    BY TypeParts
<1>1. CASE Open
    BY <1>1, <1>0 DEF Open, opening, diskVars, Captured
<1>2. CASE DeleteOld
    BY <1>2, <1>0 DEF DeleteOld, opening, diskVars, Captured
<1>3. CASE Bind
    BY <1>3, <1>0 DEF Bind, opening, diskVars, Captured
<1>4. CASE Create
    BY <1>4, <1>0 DEF Create, diskVars, Captured
<1>5. CASE CreateFails
    BY <1>5, <1>0 DEF CreateFails, opening, diskVars, Captured
<1>6. CASE PreparePull
    BY <1>6, <1>0 DEF PreparePull, diskVars, Captured
<1>7. CASE ReadFrame
    BY <1>7, <1>0 DEF ReadFrame, Abort, diskVars, Captured
<1>8. CASE ReadDeferred
    BY <1>8, <1>0 DEF ReadDeferred, diskVars, Captured
<1>9. CASE EndPull
    BY <1>9, <1>0 DEF EndPull, diskVars, Captured
<1>10. CASE DecodeRow
    BY <1>10, <1>0 DEF DecodeRow, diskVars, Captured
<1>11. CASE Quarantine
    <2>1. CASE ~CheckStart(build.record)
        BY <1>11, <2>1 DEF Quarantine, Abort, diskVars, Captured
    <2>2. CASE CheckStart(build.record)
        <3> DEFINE s == build.record
                   kept == s \in dlq
                   taken == kept \/ Cardinality(dlq) < DlqEntries
        <3>1. /\ s \in Poison /\ floor' = floor /\ floor < s
              /\ dlq' = IF taken THEN dlq \cup {s} ELSE dlq
              /\ captured' = IF taken /\ ~kept THEN [captured EXCEPT ![s] = @ + 1]
                             ELSE captured
            BY <1>11, <2>2 DEF Quarantine, Reading, Attempting
        <3>2. s \in Nat /\ captured[s] \in Nat /\ floor \in Nat
            BY <1>0, <3>1 DEF DiskTyped, BuildTyped, Build
        <3>3. CASE taken /\ ~kept
            <4>1. captured[s] = 0
                BY <1>0, <3>1, <3>2, <3>3 DEF Captured
            <4> QED
                BY <1>0, <3>1, <3>2, <3>3, <4>1 DEF Captured, DiskTyped
        <3>4. CASE ~(taken /\ ~kept)
            BY <3>1, <3>4 DEF Captured
        <3> QED
            BY <3>3, <3>4
    <2> QED
        BY <2>1, <2>2
<1>12. CASE Poll
    BY <1>12, <1>0 DEF Poll, Abort, diskVars, Captured
<1>13. CASE PollNothing
    BY <1>13, <1>0 DEF PollNothing, diskVars, Captured
<1>14. CASE PublishBatch
    BY <1>14, <1>0 DEF PublishBatch, Abort, diskVars, Captured
<1>15. CASE ServiceAcks
    BY <1>15, <1>0 DEF ServiceAcks, Abort, diskVars, Captured
<1>16. ASSUME NEW s \in Msgs, Confirm(s)
      PROVE  Captured'
    BY <1>16, <1>0 DEF Confirm, diskVars, Captured
<1>17. CASE ForceCheckpoint
    BY <1>17, <1>0 DEF ForceCheckpoint, BeginCheckpoint, Abort, diskVars,
       Captured
<1>18. CASE RequestCheckpoint
    BY <1>18, <1>0 DEF RequestCheckpoint, diskVars, Captured
<1>19. CASE TakeCommand
    BY <1>19, <1>0 DEF TakeCommand, BeginCheckpoint, Abort, diskVars,
       Captured
<1>20. CASE DropCommand
    BY <1>20, <1>0 DEF DropCommand, diskVars, Captured
<1>21. ASSUME NEW w \in workers, SendBarrier(w)
      PROVE  Captured'
    BY <1>21, <1>0 DEF SendBarrier, diskVars, Captured
<1>22. ASSUME NEW w \in workers, Expire(w)
      PROVE  Captured'
    BY <1>22, <1>0 DEF Expire, diskVars, Captured
<1>23. ASSUME NEW w \in workers, CancelWorker(w)
      PROVE  Captured'
    BY <1>23, <1>0 DEF CancelWorker, diskVars, Captured
<1>24. ASSUME NEW w \in workers, Commit(w)
      PROVE  Captured'
    BY <1>24, <1>0 DEF Commit, Captured
<1>25. ASSUME NEW w \in workers, Finish(w)
      PROVE  Captured'
    BY <1>25, <1>0 DEF Finish, diskVars, Captured
<1>26. ASSUME NEW w \in workers, JoinReturned(w)
      PROVE  Captured'
    BY <1>26, <1>0 DEF JoinReturned, Abort, diskVars, Captured
<1>27. ASSUME NEW w \in workers, JoinFailed(w)
      PROVE  Captured'
    BY <1>27, <1>0 DEF JoinFailed, Abort, diskVars, Captured
<1>28. CASE Apply
    BY <1>28, <1>0 DEF Apply, diskVars, Captured
<1>29. CASE JobFails
    BY <1>29, <1>0 DEF JobFails, Abort, diskVars, Captured
<1>30. CASE Crash
    BY <1>30, <1>0 DEF Crash, Forget, diskVars, Captured
<1>31. CASE Close
    BY <1>31, <1>0 DEF Close, Forget, diskVars, Captured
<1>32. CASE DropFrame
    BY <1>32, <1>0 DEF DropFrame, diskVars, Captured
<1>33. CASE Evict
    BY <1>33, <1>0 DEF Evict, diskVars, Captured
<1>34. CASE Damage
    BY <1>34, <1>0 DEF Damage, Captured
<1>35. ASSUME NEW s \in Poison, Purge(s)
      PROVE  Captured'
    <2>1. s \in Nat /\ Poison \subseteq Nat
        BY JetStreamAssumption
    <2>2. /\ dlq' = dlq \ {s} /\ captured' = captured
          /\ s <= floor' /\ \A t \in Nat : t <= floor => t <= floor'
        BY <1>35, <1>0, <2>1 DEF Purge, RaisedFloor, DiskTyped
    <2> QED
        BY <2>1, <2>2 DEF Captured
<1>36. CASE UNCHANGED vars
    BY <1>36, <1>0 DEF vars, diskVars, Captured
<1> QED
    BY <1>1, <1>2, <1>3, <1>4, <1>5, <1>6, <1>7, <1>8, <1>9, <1>10, <1>11,
       <1>12, <1>13, <1>14, <1>15, <1>16, <1>17, <1>18, <1>19, <1>20, <1>21,
       <1>22, <1>23, <1>24, <1>25, <1>26, <1>27, <1>28, <1>29, <1>30, <1>31,
       <1>32, <1>33, <1>34, <1>35, <1>36 DEF Next, Opening, Input,
       Checkpointing, Ending, Environment

-----------------------------------------------------------------------------
(* Checkpoint workers.                                                     *)

\* Workers and positions, typed.
LEMMA WorkerTypes ==
    ASSUME TypeOK
    PROVE  /\ \A w \in workers : w \in Worker /\ w.id \in Nat /\ w.cut \in Nat
                                 /\ w.rows \in Seq(Nat) /\ w.st \in States
           /\ workers \subseteq Worker /\ nextId \in Nat
           /\ ledger.published \in Nat /\ ledger.committed \in Nat /\ LedgerOK(ledger)
BY TypeParts, LedgerFields DEF ReaderTyped, CutTyped, Worker, States

\* A checkpoint begins with a worker at the published position.
LEMMA BeginWorkers ==
    ASSUME TypeOK, BeginCheckpoint, Verified
    PROVE  \A v \in workers' : \/ v \in workers
                               \/ /\ v.id = nextId /\ v.cut = ledger.published
                                  /\ v.st = "sending" /\ v.rows = <<>>
                                  /\ v = [id |-> nextId, cut |-> SourceCut,
                                          rows |-> <<>>, st |-> "sending"]
BY DEF BeginCheckpoint, SourceCut

\* Applying a batch aligns the worker its barrier asks for, and no other.
LEMMA ApplyWorkers ==
    ASSUME TypeOK, Apply
    PROVE  \A v \in workers' :
              \/ v \in workers /\ ~(v.id = Head(inbox).barrier /\ v.st = "aligning")
              \/ \E u \in workers :
                    /\ u.id = Head(inbox).barrier /\ u.st = "aligning"
                    /\ v = [u EXCEPT !.rows = applied, !.st = "aligned"]
                    /\ v.id = u.id /\ v.cut = u.cut /\ v.rows = applied
                    /\ v.st = "aligned"
<1> DEFINE asked == {w \in workers : w.id = Head(inbox).barrier /\ w.st = "aligning"}
<1>1. workers' = (workers \ asked) \cup
                    {[w EXCEPT !.rows = applied, !.st = "aligned"] : w \in asked}
    BY DEF Apply
<1>2. \A u \in workers : \A v : v = [u EXCEPT !.rows = applied, !.st = "aligned"] =>
        v.id = u.id /\ v.cut = u.cut /\ v.rows = applied /\ v.st = "aligned"
    BY WorkerTypes DEF Worker
<1> SUFFICES ASSUME NEW v \in workers'
             PROVE  \/ v \in workers /\ ~(v.id = Head(inbox).barrier /\ v.st = "aligning")
                    \/ \E u \in workers :
                          /\ u.id = Head(inbox).barrier /\ u.st = "aligning"
                          /\ v = [u EXCEPT !.rows = applied, !.st = "aligned"]
                          /\ v.id = u.id /\ v.cut = u.cut /\ v.rows = applied
                          /\ v.st = "aligned"
    OBVIOUS
<1>3. CASE v \in workers \ asked
    BY <1>3
<1>4. CASE \E u \in asked : v = [u EXCEPT !.rows = applied, !.st = "aligned"]
    <2>1. PICK u \in asked : v = [u EXCEPT !.rows = applied, !.st = "aligned"]
        BY <1>4
    <2>2. u \in workers /\ u.id = Head(inbox).barrier /\ u.st = "aligning"
        BY <2>1
    <2>3. v.id = u.id /\ v.cut = u.cut /\ v.rows = applied /\ v.st = "aligned"
        BY <1>2, <2>1, <2>2
    <2> QED
        BY <2>1, <2>2, <2>3
<1> QED
    BY <1>1, <1>3, <1>4

\* A worker that moves on keeps the gate to itself.
LEMMA GateMove ==
    ASSUME TypeOK, Gate, NEW w \in workers, NEW st \in States \ {"sending"}, Move(w, st),
           st \in AtGate => w.st \in AtGate,
           command' = command, nextId' = nextId, ledger' = ledger,
           pc' = pc \/ w.st = "sending"
    PROVE  Gate'
<1>1. \A v \in workers' : \/ v \in workers /\ v # w
                          \/ /\ v = [w EXCEPT !.st = st] /\ v.id = w.id /\ v.cut = w.cut
                             /\ v.st = st
    BY WorkerTypes, MoveTyped
<1>2. command' => \A v \in workers' : v.st \notin AtGate
    BY <1>1 DEF Gate
<1>3. \A v \in workers' : v.id # 0 /\ v.id < nextId' /\ v.cut <= ledger'.published
    BY <1>1 DEF Gate
<1>4. \A u, v \in workers' :
         u.st \in AtGate => v.cut <= u.cut /\ (v.st \in AtGate => v = u)
    <2> TAKE u \in workers', v \in workers'
    <2> HAVE u.st \in AtGate
    <2>1. CASE u \in workers /\ u # w
        BY <1>1, <2>1 DEF Gate
    <2>2. CASE u = [w EXCEPT !.st = st] /\ u.cut = w.cut /\ u.st = st
        BY <1>1, <2>2, WorkerTypes DEF Gate
    <2> QED
        BY <1>1, <2>1, <2>2
<1>5. \A v \in workers' : v.st = "sending" => v.cut = ledger'.published /\ pc' = "barrier"
    <2> TAKE v \in workers'
    <2> HAVE v.st = "sending"
    <2>1. v \in workers /\ v # w
        BY <1>1
    <2>2. w.st # "sending"
        BY <2>1 DEF Gate, AtGate
    <2> QED
        BY <2>1, <2>2 DEF Gate
<1>6. nextId' # 0
    BY DEF Gate
<1> QED
    BY <1>2, <1>3, <1>4, <1>5, <1>6 DEF Gate

\* At most one worker is at the gate, and every step keeps its cut the highest.
LEMMA GateStep == TypeOK /\ Resting /\ Gate /\ [Next]_vars => Gate'
<1> SUFFICES ASSUME TypeOK, Resting, Gate, [Next]_vars
             PROVE  Gate'
    OBVIOUS
<1>0. LedgerOK(ledger)
    BY WorkerTypes
<1>1. CASE Open
    BY <1>1, <1>0 DEF Open, opening, readerVars, buildVars, cutVars, Gate
<1>2. CASE DeleteOld
    BY <1>2, <1>0 DEF DeleteOld, opening, readerVars, buildVars, cutVars,
       Gate
<1>3. CASE Bind
    BY <1>3, <1>0 DEF Bind, opening, readerVars, buildVars, cutVars, Gate
<1>4. CASE Create
    BY <1>4 DEF Create, Resting, Attempting, Gate
<1>5. CASE CreateFails
    BY <1>5, <1>0 DEF CreateFails, opening, readerVars, buildVars, cutVars,
       Gate
<1>6. CASE PreparePull
    BY <1>6, <1>0 DEF PreparePull, buildVars, cutVars, Gate
<1>7. CASE ReadFrame
    <2>1. CASE ObserveFails(Head(wire))
        BY <1>7, <2>1 DEF ReadFrame, Abort, readerVars, buildVars, cutVars, Gate
    <2>2. CASE ~ObserveFails(Head(wire))
        <3>1. /\ wire # <<>> /\ ledger' = Observed(Head(wire)) /\ pc \in {"loop", "poll"}
              /\ workers' = workers /\ nextId' = nextId /\ command' = command
            BY <1>7, <2>2 DEF ReadFrame, MayRead, Running, inputFrame, cutVars
        <3> QED
            BY <2>2, <3>1, ReadPositions DEF Gate
    <2> QED
        BY <2>1, <2>2
<1>8. CASE ReadDeferred
    BY <1>8 DEF ReadDeferred, MayRead, Running, inputFrame, cutVars, readerVars, Gate
<1>9. CASE EndPull
    BY <1>9, <1>0 DEF EndPull, inputFrame, cutVars, buildVars, Gate
<1>10. CASE DecodeRow
    BY <1>10, <1>0 DEF DecodeRow, inputFrame, cutVars, readerVars, Gate
<1>11. CASE Quarantine
    BY <1>11, <1>0 DEF Quarantine, Abort, readerVars, buildVars, cutVars,
       inputFrame, Gate
<1>12. CASE Poll
    <2>1. CASE ObserveFails(Head(wire))
        BY <1>12, <2>1 DEF Poll, Abort, readerVars, buildVars, cutVars, Gate
    <2>2. CASE ~ObserveFails(Head(wire))
        <3>1. /\ wire # <<>> /\ ledger' = Observed(Head(wire)) /\ pc \in {"loop", "poll"}
              /\ workers' = workers /\ nextId' = nextId /\ command' = command
            BY <1>12, <2>2 DEF Poll, MayRead, Running, inputFrame, cutVars
        <3> QED
            BY <2>2, <3>1, ReadPositions DEF Gate
    <2> QED
        BY <2>1, <2>2
<1>13. CASE PollNothing
    BY <1>13, <1>0 DEF PollNothing, inputFrame, cutVars, Gate
<1>14. CASE PublishBatch
    <2>1. CASE PublishFails(build.first, build.last)
        BY <1>14, <2>1 DEF PublishBatch, Abort, readerVars, buildVars, cutVars, Gate
    <2>2. CASE ~PublishFails(build.first, build.last)
        <3>1. /\ pc = "batch" /\ workers' = workers /\ nextId' = nextId
              /\ command' = command
            BY <1>14, <2>2 DEF PublishBatch, cutVars
        <3> QED
            BY <1>14, <2>2, <3>1, PublishPositions, WorkerTypes DEF Gate
    <2> QED
        BY <2>1, <2>2
<1>15. CASE ServiceAcks
    <2>1. CASE AckFailed
        BY <1>15, <2>1 DEF ServiceAcks, Abort, readerVars, buildVars, cutVars, Gate
    <2>2. CASE ~AckFailed
        BY <1>15, <2>2, ServicePositions DEF ServiceAcks, buildVars, cutVars, Gate
    <2> QED
        BY <2>1, <2>2
<1>16. ASSUME NEW s \in Msgs, Confirm(s)
      PROVE  Gate'
    BY <1>16, <1>0, ConfirmEffect DEF Confirm, buildVars, cutVars, Gate
<1>17. CASE ForceCheckpoint
    <2>1. CASE ~Verified
        BY <1>17, <2>1 DEF ForceCheckpoint, Running, BeginCheckpoint, Abort,
               readerVars, buildVars,
           cutVars, Gate
    <2>2. CASE Verified
        <3>1. /\ pc' = "barrier" /\ command' = FALSE /\ nextId' = nextId + 1
              /\ ledger' = ledger /\ pc = "loop" /\ BeginCheckpoint
              /\ \A w \in workers : w.st \notin AtGate
            BY <1>17, <2>2 DEF ForceCheckpoint, Running, GateFree, BeginCheckpoint,
                   readerVars, Gate
        <3>2. \A w \in workers : w.st # "sending"
            BY <3>1 DEF AtGate
        <3>3. \A v \in workers' : v.id # 0 /\ v.id < nextId' /\ v.cut <= ledger'.published
            BY <2>2, <3>1, BeginWorkers, WorkerTypes DEF Gate
        <3>4. \A u, v \in workers' :
                 u.st \in AtGate => v.cut <= u.cut /\ (v.st \in AtGate => v = u)
            <4>1. \A u \in workers' : u.st \in AtGate =>
                     /\ u.cut = ledger.published
                     /\ u = [id |-> nextId, cut |-> SourceCut, rows |-> <<>>,
                             st |-> "sending"]
                BY <2>2, <3>1, BeginWorkers
            <4>2. \A v \in workers' : v.cut <= ledger.published
                BY <3>1, <3>3
            <4> QED
                BY <4>1, <4>2
        <3>5. \A v \in workers' : v.st = "sending" => v.cut = ledger'.published
            BY <2>2, <3>1, <3>2, BeginWorkers
        <3>6. nextId' # 0
            BY <3>1, WorkerTypes
        <3> QED
            BY <3>1, <3>3, <3>4, <3>5, <3>6 DEF Gate
    <2> QED
        BY <2>1, <2>2
<1>18. CASE RequestCheckpoint
    BY <1>18 DEF RequestCheckpoint, GateFree, readerVars, buildVars, Gate
<1>19. CASE TakeCommand
    <2>1. CASE ~Verified
        BY <1>19, <2>1 DEF TakeCommand, Running, BeginCheckpoint, Abort, readerVars,
               buildVars,
           cutVars, Gate
    <2>2. CASE Verified
        <3>1. /\ pc' = "barrier" /\ command' = FALSE /\ nextId' = nextId + 1
              /\ ledger' = ledger /\ pc = "loop" /\ BeginCheckpoint
              /\ \A w \in workers : w.st \notin AtGate
            BY <1>19, <2>2 DEF TakeCommand, Running, GateFree, BeginCheckpoint,
                   readerVars, Gate
        <3>2. \A w \in workers : w.st # "sending"
            BY <3>1 DEF AtGate
        <3>3. \A v \in workers' : v.id # 0 /\ v.id < nextId' /\ v.cut <= ledger'.published
            BY <2>2, <3>1, BeginWorkers, WorkerTypes DEF Gate
        <3>4. \A u, v \in workers' :
                 u.st \in AtGate => v.cut <= u.cut /\ (v.st \in AtGate => v = u)
            <4>1. \A u \in workers' : u.st \in AtGate =>
                     /\ u.cut = ledger.published
                     /\ u = [id |-> nextId, cut |-> SourceCut, rows |-> <<>>,
                             st |-> "sending"]
                BY <2>2, <3>1, BeginWorkers
            <4>2. \A v \in workers' : v.cut <= ledger.published
                BY <3>1, <3>3
            <4> QED
                BY <4>1, <4>2
        <3>5. \A v \in workers' : v.st = "sending" => v.cut = ledger'.published
            BY <2>2, <3>1, <3>2, BeginWorkers
        <3>6. nextId' # 0
            BY <3>1, WorkerTypes
        <3> QED
            BY <3>1, <3>3, <3>4, <3>5, <3>6 DEF Gate
    <2> QED
        BY <2>1, <2>2
<1>20. CASE DropCommand
    BY <1>20, <1>0 DEF DropCommand, readerVars, buildVars, Gate
<1>21. ASSUME NEW w \in workers, SendBarrier(w)
      PROVE  Gate'
    <2>1. PICK st \in {"aligning", "expired"} : Move(w, st)
        BY <1>21 DEF SendBarrier
    <2>2. /\ command' = command /\ nextId' = nextId /\ ledger' = ledger
          /\ pc' = pc \/ w.st = "sending"
        BY <1>21 DEF SendBarrier, readerVars, buildVars
    <2>3. st \in States \ {"sending"} /\ (st \in AtGate => w.st \in AtGate)
        BY <1>21, <2>1 DEF SendBarrier, AtGate, States
    <2> QED
        BY <2>1, <2>2, <2>3, GateMove
<1>22. ASSUME NEW w \in workers, Expire(w)
      PROVE  Gate'
    <2>1. PICK st \in {"expired"} : Move(w, st)
        BY <1>22 DEF Expire
    <2>2. /\ command' = command /\ nextId' = nextId /\ ledger' = ledger
          /\ pc' = pc \/ w.st = "sending"
        BY <1>22 DEF Expire, workerFrame, readerVars, buildVars
    <2>3. st \in States \ {"sending"} /\ (st \in AtGate => w.st \in AtGate)
        BY <1>22, <2>1 DEF Expire, AtGate, States
    <2> QED
        BY <2>1, <2>2, <2>3, GateMove
<1>23. ASSUME NEW w \in workers, CancelWorker(w)
      PROVE  Gate'
    <2>1. PICK st \in {"error"} : Move(w, st)
        BY <1>23 DEF CancelWorker
    <2>2. /\ command' = command /\ nextId' = nextId /\ ledger' = ledger
          /\ pc' = pc \/ w.st = "sending"
        BY <1>23 DEF CancelWorker, workerFrame, readerVars, buildVars
    <2>3. st \in States \ {"sending"} /\ (st \in AtGate => w.st \in AtGate)
        BY <1>23, <2>1 DEF CancelWorker, AtGate, States
    <2> QED
        BY <2>1, <2>2, <2>3, GateMove
<1>24. ASSUME NEW w \in workers, Commit(w)
      PROVE  Gate'
    <2>1. PICK st \in {"durable", "error"} : Move(w, st)
        BY <1>24 DEF Commit
    <2>2. /\ command' = command /\ nextId' = nextId /\ ledger' = ledger
          /\ pc' = pc \/ w.st = "sending"
        BY <1>24 DEF Commit, workerFrame, readerVars, buildVars
    <2>3. st \in States \ {"sending"} /\ (st \in AtGate => w.st \in AtGate)
        BY <1>24, <2>1 DEF Commit, AtGate, States
    <2> QED
        BY <2>1, <2>2, <2>3, GateMove
<1>25. ASSUME NEW w \in workers, Finish(w)
      PROVE  Gate'
    <2>1. PICK st \in {"finished", "returned"} : Move(w, st)
        BY <1>25 DEF Finish
    <2>2. /\ command' = command /\ nextId' = nextId /\ ledger' = ledger
          /\ pc' = pc \/ w.st = "sending"
        BY <1>25 DEF Finish, workerFrame, readerVars, buildVars
    <2>3. st \in States \ {"sending"} /\ (st \in AtGate => w.st \in AtGate)
        BY <1>25, <2>1 DEF Finish, AtGate, States
    <2> QED
        BY <2>1, <2>2, <2>3, GateMove
<1>26. ASSUME NEW w \in workers, JoinReturned(w)
      PROVE  Gate'
    <2>1. CASE CutRefused(w.cut) \/ AckFailed
        BY <1>26, <2>1 DEF JoinReturned, Abort, readerVars, buildVars, cutVars, Gate
    <2>2. CASE ~(CutRefused(w.cut) \/ AckFailed)
        <3>1. /\ workers' = workers \ {w} /\ pc' = pc /\ nextId' = nextId
              /\ command' = command
            BY <1>26, <2>2 DEF JoinReturned, buildVars
        <3> QED
            BY <1>26, <2>2, <3>1, JoinPositions DEF Gate
    <2> QED
        BY <2>1, <2>2
<1>27. ASSUME NEW w \in workers, JoinFailed(w)
      PROVE  Gate'
    BY <1>27, <1>0 DEF JoinFailed, Abort, readerVars, buildVars, cutVars,
       workerFrame, Gate
<1>28. CASE Apply
    <2>0. pc' = pc /\ nextId' = nextId /\ ledger' = ledger /\ command' = command
        BY <1>28 DEF Apply, buildVars, readerVars
    <2>1. \A v \in workers' : v.st # "aligned" => v \in workers
        BY <1>28, ApplyWorkers
    <2>2. \A v \in workers' : v.st \in AtGate => \E u \in workers : u.st \in AtGate
        BY <1>28, ApplyWorkers DEF AtGate
    <2>3. command' => \A v \in workers' : v.st \notin AtGate
        BY <2>0, <2>2 DEF Gate
    <2>4. \A v \in workers' : v.id # 0 /\ v.id < nextId' /\ v.cut <= ledger'.published
        <3>1. \A v \in workers' : \E u \in workers : v.id = u.id /\ v.cut = u.cut
            BY <1>28, ApplyWorkers
        <3> QED
            BY <2>0, <3>1 DEF Gate
    <2>5. \A u, v \in workers' :
             u.st \in AtGate => v.cut <= u.cut /\ (v.st \in AtGate => v = u)
        <3> TAKE u \in workers', v \in workers'
        <3> HAVE u.st \in AtGate
        <3>1. CASE u \in workers /\ ~(u.id = Head(inbox).barrier /\ u.st = "aligning")
            BY <1>28, <3>1, ApplyWorkers DEF Gate, AtGate
        <3>2. CASE \E x \in workers :
                      /\ x.id = Head(inbox).barrier /\ x.st = "aligning"
                      /\ u = [x EXCEPT !.rows = applied, !.st = "aligned"]
                      /\ u.cut = x.cut
            <4>1. PICK x \in workers :
                      /\ x.id = Head(inbox).barrier /\ x.st = "aligning"
                      /\ u = [x EXCEPT !.rows = applied, !.st = "aligned"]
                      /\ u.cut = x.cut
                BY <3>2
            <4>2. \A y \in workers : y.cut <= x.cut /\ (y.st \in AtGate => y = x)
                BY <4>1 DEF Gate, AtGate
            <4>3. CASE v \in workers /\ ~(v.id = Head(inbox).barrier /\ v.st = "aligning")
                BY <4>1, <4>2, <4>3
            <4>4. CASE \E y \in workers :
                          /\ y.st = "aligning" /\ v.cut = y.cut
                          /\ v = [y EXCEPT !.rows = applied, !.st = "aligned"]
                BY <4>1, <4>2, <4>4 DEF AtGate
            <4> QED
                BY <1>28, <4>3, <4>4, ApplyWorkers
        <3> QED
            BY <1>28, <3>1, <3>2, ApplyWorkers
    <2> QED
        BY <2>0, <2>1, <2>3, <2>4, <2>5 DEF Gate
<1>29. CASE JobFails
    BY <1>29, <1>0 DEF JobFails, Abort, readerVars, buildVars, cutVars, Gate
<1>30. CASE Crash
    BY <1>30, <1>0 DEF Crash, Forget, NewLedger, Gate
<1>31. CASE Close
    BY <1>31, <1>0 DEF Close, Forget, NewLedger, Gate
<1>32. CASE DropFrame
    BY <1>32, <1>0 DEF DropFrame, buildVars, cutVars, Gate
<1>33. CASE Evict
    BY <1>33, <1>0 DEF Evict, idleVars, readerVars, buildVars, cutVars, Gate
<1>34. CASE Damage
    BY <1>34, <1>0 DEF Damage, idleVars, readerVars, buildVars, cutVars,
       Gate
<1>35. ASSUME NEW s \in Poison, Purge(s)
      PROVE  Gate'
    BY <1>35, <1>0 DEF Purge, idleVars, readerVars, buildVars, cutVars, Gate
<1>36. CASE UNCHANGED vars
    BY <1>36, <1>0 DEF vars, readerVars, buildVars, cutVars, Gate
<1> QED
    BY <1>1, <1>2, <1>3, <1>4, <1>5, <1>6, <1>7, <1>8, <1>9, <1>10, <1>11,
       <1>12, <1>13, <1>14, <1>15, <1>16, <1>17, <1>18, <1>19, <1>20, <1>21,
       <1>22, <1>23, <1>24, <1>25, <1>26, <1>27, <1>28, <1>29, <1>30, <1>31,
       <1>32, <1>33, <1>34, <1>35, <1>36 DEF Next, Opening, Input,
       Checkpointing, Ending, Environment

-----------------------------------------------------------------------------
(* Durability.                                                             *)

\* A checkpoint that is stored is the last one, and the others stay in order.
LEMMA StoredHistory ==
    ASSUME hist \in Seq(Generation), Sorted, NEW w \in Worker, hist' = Stored(w),
           \A i \in DOMAIN hist : hist[i].readable => hist[i].cut <= w.cut
    PROVE  /\ Sorted' /\ LastCut' = w.cut
           /\ \A i \in DOMAIN hist' :
                 \/ hist'[i].cut = w.cut /\ hist'[i].rows = w.rows
                 \/ \E j \in DOMAIN hist : hist'[i] = hist[j]
<1> DEFINE g == [cut |-> w.cut, rows |-> w.rows, readable |-> TRUE]
<1>1. g \in Generation /\ g.cut = w.cut /\ g.rows = w.rows
    BY DEF Worker, Generation
<1>2. hist' = Keep(Append(hist, g))
    BY DEF Stored
<1> HIDE DEF g
<1>3. /\ hist' \in Seq(Generation) /\ Len(hist') \in Nat \ {0}
      /\ hist'[Len(hist')] = g /\ hist' # <<>>
    BY <1>1, <1>2, KeepLast
<1>4. PICK d \in Nat : \A i \in 1..Len(hist') - 1 :
                          i + d \in 1..Len(hist) /\ hist'[i] = hist[i + d]
    <2> DEFINE k == Keep(Append(hist, g))
    <2>1. \E d \in Nat : \A i \in 1..Len(k) - 1 :
             i + d \in 1..Len(hist) /\ k[i] = hist[i + d]
        BY <1>1, KeepLast
    <2> HIDE DEF k
    <2>2. hist' = k
        BY <1>2 DEF k
    <2> QED
        BY <2>1, <2>2
<1>5. DOMAIN hist = 1..Len(hist) /\ DOMAIN hist' = 1..Len(hist')
    BY <1>3
<1>6. LastCut' = w.cut
    BY <1>1, <1>3 DEF LastCut, Last
<1>7. Sorted'
    <2> SUFFICES ASSUME NEW i \in DOMAIN hist', NEW j \in DOMAIN hist', i < j,
                        hist'[i].readable, hist'[j].readable \/ j = Len(hist')
                 PROVE  hist'[i].cut <= hist'[j].cut
        BY DEF Sorted
    <2>1. i \in 1..Len(hist') - 1
        BY <1>3, <1>5
    <2>2. CASE j = Len(hist')
        BY <1>1, <1>3, <1>4, <1>5, <2>1, <2>2
    <2>3. CASE j # Len(hist')
        <3>1. j \in 1..Len(hist') - 1 /\ hist'[j].readable
            BY <1>3, <1>5, <2>3
        <3>2. /\ i + d \in DOMAIN hist /\ hist'[i] = hist[i + d]
              /\ j + d \in DOMAIN hist /\ hist'[j] = hist[j + d]
            BY <1>4, <1>5, <2>1, <3>1
        <3>3. i + d < j + d
            <4>1. i \in Nat /\ j \in Nat /\ d \in Nat
                BY <1>3, <1>4, <1>5
            <4> QED
                BY <4>1
        <3> QED
            BY <3>1, <3>2, <3>3 DEF Sorted
    <2> QED
        BY <2>2, <2>3
<1>8. ASSUME NEW i \in DOMAIN hist'
      PROVE  \/ hist'[i].cut = w.cut /\ hist'[i].rows = w.rows
             \/ \E j \in DOMAIN hist : hist'[i] = hist[j]
    <2>1. CASE i = Len(hist')
        BY <1>1, <1>3, <2>1
    <2>2. CASE i # Len(hist')
        <3>1. i \in 1..Len(hist') - 1
            BY <1>3, <1>5, <2>2
        <3> QED
            BY <1>4, <1>5, <3>1
    <2> QED
        BY <2>1, <2>2
<1> QED
    BY <1>6, <1>7, <1>8

\* Damage makes the last checkpoint unreadable and moves no cut.
LEMMA DamageHistory ==
    ASSUME hist \in Seq(Generation), Damage
    PROVE  /\ DOMAIN hist' = DOMAIN hist /\ Len(hist') = Len(hist) /\ hist' # <<>>
           /\ hist # <<>> /\ LastCut' = LastCut
           /\ \A i \in DOMAIN hist : /\ hist'[i].cut = hist[i].cut
                                     /\ hist'[i].rows = hist[i].rows
                                     /\ hist'[i].readable => hist[i].readable
<1> DEFINE g == [hist[Len(hist)] EXCEPT !.readable = FALSE]
<1>1. hist # <<>> /\ hist' = [hist EXCEPT ![Len(hist)] = g]
    BY DEF Damage
<1>2. Len(hist) \in 1..Len(hist) /\ DOMAIN hist = 1..Len(hist)
    BY <1>1
<1>3. hist[Len(hist)] \in Generation
    BY <1>2
<1>4. /\ g \in Generation /\ g.cut = hist[Len(hist)].cut /\ g.rows = hist[Len(hist)].rows
      /\ ~g.readable
    BY <1>3 DEF Generation
<1> HIDE DEF g
<1>5. hist' \in Seq(Generation) /\ DOMAIN hist' = DOMAIN hist /\ Len(hist') = Len(hist)
    BY <1>1, <1>2, <1>4, ExceptSeq
<1>6. \A i \in DOMAIN hist : hist'[i] = IF i = Len(hist) THEN g ELSE hist[i]
    BY <1>1
<1>7. hist' # <<>>
    BY <1>2, <1>5
<1> QED
    BY <1>1, <1>2, <1>4, <1>5, <1>6, <1>7 DEF LastCut, Last

\* The restored cut is the highest that can be read, and no higher than the last.
LEMMA RestoredCut ==
    ASSUME hist \in Seq(Generation), hist = <<>> \/ Readable # {}, Sorted
    PROVE  /\ Restored.cut <= LastCut
           /\ \A i \in DOMAIN hist : hist[i].readable => hist[i].cut <= Restored.cut
<1>1. CASE hist = <<>>
    BY <1>1 DEF Restored, LastCut
<1>2. CASE hist # <<>>
    <2>1. PICK m \in 1..Len(hist) :
              /\ Restored = hist[m] /\ hist[m].readable
              /\ \A j \in 1..Len(hist) : hist[j].readable => j <= m
        BY <1>2, RestoredNewest
    <2>2. Len(hist) \in 1..Len(hist) /\ DOMAIN hist = 1..Len(hist)
        BY <1>2
    <2>3. \A i \in 1..Len(hist) : hist[i].cut \in Nat
        <3>1. \A i \in 1..Len(hist) : hist[i] \in Generation
            OBVIOUS
        <3> QED
            BY <3>1 DEF Generation
    <2>4. ASSUME NEW i \in DOMAIN hist, hist[i].readable PROVE hist[i].cut <= hist[m].cut
        <3>1. i <= m /\ i \in 1..Len(hist)
            BY <2>1, <2>2, <2>4
        <3> QED
            BY <2>1, <2>2, <2>3, <2>4, <3>1 DEF Sorted
    <2>5. hist[m].cut <= hist[Len(hist)].cut
        BY <2>1, <2>2, <2>3 DEF Sorted
    <2> QED
        BY <1>2, <2>1, <2>4, <2>5 DEF LastCut, Last
<1> QED
    BY <1>1, <1>2

\* The checkpoints that can be read stay in the order of their cuts.
LEMMA SortedStep == TypeOK /\ Sorted /\ Cuts /\ [Next]_vars => Sorted'
<1> SUFFICES ASSUME TypeOK, Sorted, Cuts, [Next]_vars
             PROVE  Sorted'
    OBVIOUS
<1>0. hist \in Seq(Generation) /\ workers \subseteq Worker
    BY TypeParts DEF DiskTyped, CutTyped
<1>1. CASE Open
    BY <1>1 DEF Open, opening, diskVars, Sorted
<1>2. CASE DeleteOld
    BY <1>2 DEF DeleteOld, opening, diskVars, Sorted
<1>3. CASE Bind
    BY <1>3 DEF Bind, opening, diskVars, Sorted
<1>4. CASE Create
    BY <1>4 DEF Create, diskVars, Sorted
<1>5. CASE CreateFails
    BY <1>5 DEF CreateFails, opening, diskVars, Sorted
<1>6. CASE PreparePull
    BY <1>6 DEF PreparePull, diskVars, Sorted
<1>7. CASE ReadFrame
    BY <1>7 DEF ReadFrame, Abort, diskVars, Sorted
<1>8. CASE ReadDeferred
    BY <1>8 DEF ReadDeferred, diskVars, Sorted
<1>9. CASE EndPull
    BY <1>9 DEF EndPull, diskVars, Sorted
<1>10. CASE DecodeRow
    BY <1>10 DEF DecodeRow, diskVars, Sorted
<1>11. CASE Quarantine
    BY <1>11 DEF Quarantine, Abort, diskVars, Sorted
<1>12. CASE Poll
    BY <1>12 DEF Poll, Abort, diskVars, Sorted
<1>13. CASE PollNothing
    BY <1>13 DEF PollNothing, diskVars, Sorted
<1>14. CASE PublishBatch
    BY <1>14 DEF PublishBatch, Abort, diskVars, Sorted
<1>15. CASE ServiceAcks
    BY <1>15 DEF ServiceAcks, Abort, diskVars, Sorted
<1>16. ASSUME NEW s \in Msgs, Confirm(s)
      PROVE  Sorted'
    BY <1>16 DEF Confirm, diskVars, Sorted
<1>17. CASE ForceCheckpoint
    BY <1>17 DEF ForceCheckpoint, BeginCheckpoint, Abort, diskVars, Sorted
<1>18. CASE RequestCheckpoint
    BY <1>18 DEF RequestCheckpoint, diskVars, Sorted
<1>19. CASE TakeCommand
    BY <1>19 DEF TakeCommand, BeginCheckpoint, Abort, diskVars, Sorted
<1>20. CASE DropCommand
    BY <1>20 DEF DropCommand, diskVars, Sorted
<1>21. ASSUME NEW w \in workers, SendBarrier(w)
      PROVE  Sorted'
    BY <1>21 DEF SendBarrier, diskVars, Sorted
<1>22. ASSUME NEW w \in workers, Expire(w)
      PROVE  Sorted'
    BY <1>22 DEF Expire, diskVars, Sorted
<1>23. ASSUME NEW w \in workers, CancelWorker(w)
      PROVE  Sorted'
    BY <1>23 DEF CancelWorker, diskVars, Sorted
<1>24. ASSUME NEW w \in workers, Commit(w)
      PROVE  Sorted'
    <2>0. w \in Worker /\ Behind(w)
        BY <1>24, <1>0 DEF Commit, Behind
    <2>1. CASE hist' = hist
        BY <2>1 DEF Sorted
    <2>2. CASE hist' = Stored(w)
        BY <1>0, <2>0, <2>2, StoredHistory DEF Cuts
    <2> QED
        BY <1>24, <2>1, <2>2 DEF Commit
<1>25. ASSUME NEW w \in workers, Finish(w)
      PROVE  Sorted'
    BY <1>25 DEF Finish, diskVars, Sorted
<1>26. ASSUME NEW w \in workers, JoinReturned(w)
      PROVE  Sorted'
    BY <1>26 DEF JoinReturned, Abort, diskVars, Sorted
<1>27. ASSUME NEW w \in workers, JoinFailed(w)
      PROVE  Sorted'
    BY <1>27 DEF JoinFailed, Abort, diskVars, Sorted
<1>28. CASE Apply
    BY <1>28 DEF Apply, diskVars, Sorted
<1>29. CASE JobFails
    BY <1>29 DEF JobFails, Abort, diskVars, Sorted
<1>30. CASE Crash
    BY <1>30 DEF Crash, Forget, diskVars, Sorted
<1>31. CASE Close
    BY <1>31 DEF Close, Forget, diskVars, Sorted
<1>32. CASE DropFrame
    BY <1>32 DEF DropFrame, diskVars, Sorted
<1>33. CASE Evict
    BY <1>33 DEF Evict, diskVars, Sorted
<1>34. CASE Damage
    BY <1>34, <1>0, DamageHistory DEF Sorted
<1>35. ASSUME NEW s \in Poison, Purge(s)
      PROVE  Sorted'
    BY <1>35 DEF Purge, Sorted
<1>36. CASE UNCHANGED vars
    BY <1>36 DEF vars, diskVars, Sorted
<1> QED
    BY <1>1, <1>2, <1>3, <1>4, <1>5, <1>6, <1>7, <1>8, <1>9, <1>10, <1>11,
       <1>12, <1>13, <1>14, <1>15, <1>16, <1>17, <1>18, <1>19, <1>20, <1>21,
       <1>22, <1>23, <1>24, <1>25, <1>26, <1>27, <1>28, <1>29, <1>30, <1>31,
       <1>32, <1>33, <1>34, <1>35, <1>36 DEF Next, Opening, Input,
       Checkpointing, Ending, Environment

\* The cut of the last checkpoint is a position.
LEMMA LastCutNat ==
    ASSUME hist \in Seq(Generation)
    PROVE  LastCut \in Nat
<1>1. CASE hist = <<>>
    BY <1>1 DEF LastCut
<1>2. CASE hist # <<>>
    <2>1. hist[Len(hist)] \in Generation
        BY <1>2
    <2> QED
        BY <1>2, <2>1 DEF LastCut, Last, Generation
<1> QED
    BY <1>1, <1>2

\* A message is acknowledged only below the last cut.
LEMMA CoveredStep ==
    TypeOK /\ Resting /\ Sorted /\ Covered /\ Committed /\ Cuts /\ [Next]_vars => Covered'
<1> SUFFICES ASSUME TypeOK, Resting, Sorted, Covered, Committed, Cuts, [Next]_vars
             PROVE  Covered'
    OBVIOUS
<1>0. BrokerTyped /\ DiskTyped /\ ReaderTyped /\ CutTyped /\ hist \in Seq(Generation)
    BY TypeParts DEF DiskTyped
<1>1. CASE Open
    BY <1>1, <1>0 DEF Open, brokerVars, opening, diskVars, Covered, LastCut
<1>2. CASE DeleteOld
    BY <1>2, <1>0 DEF DeleteOld, opening, diskVars, Covered, LastCut
<1>3. CASE Bind
    BY <1>3, <1>0 DEF Bind, opening, diskVars, Covered, LastCut
<1>4. CASE Create
    <2>1. consumer'.acked = {}
        BY <1>4 DEF Create, NewConsumer
    <2> QED
        BY <2>1 DEF Covered
<1>5. CASE CreateFails
    <2>1. consumer'.acked = {} \/ consumer' = consumer
        BY <1>5 DEF CreateFails, NewConsumer
    <2>2. hist' = hist
        BY <1>5 DEF CreateFails, opening, diskVars
    <2> QED
        BY <2>1, <2>2 DEF Covered, LastCut
<1>6. CASE PreparePull
    <2>1. PICK again \in Seq(Nat), n \in Nat : Deliver(again, n)
        BY <1>6, <1>0, PullDelivers DEF BrokerTyped, ReaderTyped, LedgerOK, Pending
    <2>2. consumer'.acked = consumer.acked
        BY <1>0, <2>1, DeliverTyped DEF BrokerTyped
    <2> QED
        BY <1>6, <2>2 DEF PreparePull, diskVars, Covered, LastCut
<1>7. CASE ReadFrame
    BY <1>7, <1>0 DEF ReadFrame, Abort, brokerVars, diskVars, inputFrame,
       Covered, LastCut
<1>8. CASE ReadDeferred
    BY <1>8, <1>0 DEF ReadDeferred, inputFrame, brokerVars, diskVars,
       Covered, LastCut
<1>9. CASE EndPull
    BY <1>9, <1>0 DEF EndPull, inputFrame, brokerVars, diskVars, Covered,
       LastCut
<1>10. CASE DecodeRow
    BY <1>10, <1>0 DEF DecodeRow, inputFrame, brokerVars, diskVars, Covered,
       LastCut
<1>11. CASE Quarantine
    BY <1>11, <1>0 DEF Quarantine, Abort, brokerVars, diskVars, inputFrame,
       Covered, LastCut
<1>12. CASE Poll
    BY <1>12, <1>0 DEF Poll, Abort, brokerVars, diskVars, inputFrame,
       Covered, LastCut
<1>13. CASE PollNothing
    BY <1>13, <1>0 DEF PollNothing, inputFrame, brokerVars, diskVars,
       Covered, LastCut
<1>14. CASE PublishBatch
    BY <1>14, <1>0 DEF PublishBatch, Abort, brokerVars, diskVars, Covered,
       LastCut
<1>15. CASE ServiceAcks
    BY <1>15, <1>0 DEF ServiceAcks, Abort, brokerVars, diskVars, Covered,
       LastCut
<1>16. ASSUME NEW s \in Msgs, Confirm(s)
      PROVE  Covered'
    <2>1. /\ phase = phase' /\ Attempting /\ hist' = hist /\ s \in Pending
          /\ ledger.entries[s].confirm = "asking"
        BY <1>16 DEF Confirm, Attempting, diskVars
    <2>2. consumer'.acked \subseteq consumer.acked \cup {s}
        BY <1>16, <1>0, AckTyped DEF Confirm, BrokerTyped
    <2>3. s <= LastCut
        <3>1. s <= ledger.committed /\ ledger.committed <= LastCut
            BY <2>1 DEF Committed
        <3>2. s \in Nat /\ ledger.committed \in Nat /\ LastCut \in Nat
            BY <1>0, LastCutNat, LedgerFields DEF Msgs, ReaderTyped
        <3> QED
            BY <3>1, <3>2
    <2> QED
        BY <2>1, <2>2, <2>3 DEF Covered, LastCut
<1>17. CASE ForceCheckpoint
    BY <1>17, <1>0 DEF ForceCheckpoint, BeginCheckpoint, Abort, brokerVars,
       diskVars, Covered, LastCut
<1>18. CASE RequestCheckpoint
    BY <1>18, <1>0 DEF RequestCheckpoint, brokerVars, diskVars, Covered,
       LastCut
<1>19. CASE TakeCommand
    BY <1>19, <1>0 DEF TakeCommand, BeginCheckpoint, Abort, brokerVars,
       diskVars, Covered, LastCut
<1>20. CASE DropCommand
    BY <1>20, <1>0 DEF DropCommand, brokerVars, diskVars, Covered, LastCut
<1>21. ASSUME NEW w \in workers, SendBarrier(w)
      PROVE  Covered'
    BY <1>21, <1>0 DEF SendBarrier, brokerVars, diskVars, Covered, LastCut
<1>22. ASSUME NEW w \in workers, Expire(w)
      PROVE  Covered'
    BY <1>22, <1>0 DEF Expire, workerFrame, brokerVars, diskVars, Covered,
       LastCut
<1>23. ASSUME NEW w \in workers, CancelWorker(w)
      PROVE  Covered'
    BY <1>23, <1>0 DEF CancelWorker, workerFrame, brokerVars, diskVars,
       Covered, LastCut
<1>24. ASSUME NEW w \in workers, Commit(w)
      PROVE  Covered'
    <2>1. CASE hist' = hist
        BY <1>24, <2>1 DEF Commit, workerFrame, brokerVars, Covered, LastCut
    <2>2. CASE hist' = Stored(w)
        <3>1. Attempting /\ Behind(w) /\ w \in Worker /\ consumer' = consumer
            BY <1>24, <1>0 DEF Commit, Behind, workerFrame, brokerVars, Resting, CutTyped
        <3>2. LastCut' = w.cut
            BY <1>0, <2>2, <3>1, StoredHistory DEF Cuts, DiskTyped
        <3>3. ASSUME NEW s \in consumer.acked PROVE s <= w.cut
            <4>1. s <= ledger.committed /\ ledger.committed <= w.cut
                BY <3>1 DEF Committed, Cuts
            <4>2. s \in Nat /\ ledger.committed \in Nat /\ w.cut \in Nat
                BY <1>0, <3>1, LedgerFields DEF BrokerTyped, Consumer, Msgs, ReaderTyped,
                   Worker
            <4> QED
                BY <4>1, <4>2
        <3> QED
            BY <3>1, <3>2, <3>3 DEF Covered
    <2> QED
        BY <1>24, <2>1, <2>2 DEF Commit
<1>25. ASSUME NEW w \in workers, Finish(w)
      PROVE  Covered'
    BY <1>25, <1>0 DEF Finish, workerFrame, brokerVars, diskVars, Covered,
       LastCut
<1>26. ASSUME NEW w \in workers, JoinReturned(w)
      PROVE  Covered'
    BY <1>26, <1>0 DEF JoinReturned, Abort, brokerVars, diskVars, Covered,
       LastCut
<1>27. ASSUME NEW w \in workers, JoinFailed(w)
      PROVE  Covered'
    BY <1>27, <1>0 DEF JoinFailed, Abort, brokerVars, diskVars, workerFrame,
       Covered, LastCut
<1>28. CASE Apply
    BY <1>28, <1>0 DEF Apply, brokerVars, diskVars, Covered, LastCut
<1>29. CASE JobFails
    BY <1>29, <1>0 DEF JobFails, Abort, brokerVars, diskVars, Covered,
       LastCut
<1>30. CASE Crash
    BY <1>30, <1>0 DEF Crash, Forget, brokerVars, diskVars, Covered, LastCut
<1>31. CASE Close
    BY <1>31, <1>0 DEF Close, Forget, brokerVars, diskVars, Covered, LastCut
<1>32. CASE DropFrame
    BY <1>32, <1>0 DEF DropFrame, brokerVars, diskVars, Covered, LastCut
<1>33. CASE Evict
    BY <1>33, <1>0 DEF Evict, diskVars, Covered, LastCut
<1>34. CASE Damage
    BY <1>34, <1>0, DamageHistory DEF Damage, brokerVars, Covered, DiskTyped
<1>35. ASSUME NEW s \in Poison, Purge(s)
      PROVE  Covered'
    BY <1>35, <1>0 DEF Purge, brokerVars, Covered, LastCut
<1>36. CASE UNCHANGED vars
    BY <1>36, <1>0 DEF vars, brokerVars, diskVars, Covered, LastCut
<1> QED
    BY <1>1, <1>2, <1>3, <1>4, <1>5, <1>6, <1>7, <1>8, <1>9, <1>10, <1>11,
       <1>12, <1>13, <1>14, <1>15, <1>16, <1>17, <1>18, <1>19, <1>20, <1>21,
       <1>22, <1>23, <1>24, <1>25, <1>26, <1>27, <1>28, <1>29, <1>30, <1>31,
       <1>32, <1>33, <1>34, <1>35, <1>36 DEF Next, Opening, Input,
       Checkpointing, Ending, Environment

\* The cuts of the retained checkpoints are positions.
LEMMA GenerationTypes ==
    ASSUME hist \in Seq(Generation)
    PROVE  \A i \in DOMAIN hist : hist[i].cut \in Nat /\ hist[i].rows \in Seq(Nat)
<1>1. \A i \in DOMAIN hist : hist[i] \in Generation
    OBVIOUS
<1> QED
    BY <1>1 DEF Generation

\* What the ledger commits is durable, and it alone is acknowledged.
LEMMA CommittedStep ==
    TypeOK /\ Resting /\ Gate /\ Sorted /\ Committed /\ Cuts /\ [Next]_vars => Committed'
<1> SUFFICES ASSUME TypeOK, Resting, Gate, Sorted, Committed, Cuts, [Next]_vars
             PROVE  Committed'
    OBVIOUS
<1>0. /\ BrokerTyped /\ DiskTyped /\ ReaderTyped /\ CutTyped
      /\ hist \in Seq(Generation) /\ ledger.published \in Nat /\ ledger.committed \in Nat
    BY TypeParts, LedgerFields DEF DiskTyped, ReaderTyped
<1>1. CASE Open
    BY <1>1 DEF Open, brokerVars, opening, diskVars, readerVars, Committed,
       Attempting, LastCut, Pending
<1>2. CASE DeleteOld
    BY <1>2 DEF DeleteOld, opening, diskVars, readerVars, Committed,
       Attempting, LastCut, Pending
<1>3. CASE Bind
    BY <1>3 DEF Bind, opening, diskVars, readerVars, Committed, Attempting,
       LastCut, Pending
<1>4. CASE Create
    <2>1. CASE ~CheckStart(Restored.cut)
        BY <1>4, <2>1 DEF Create, Committed, Attempting
    <2>2. CASE CheckStart(Restored.cut)
        <3>1. /\ hist' = hist /\ ledger' = NewLedger(Restored.cut) /\ consumer'.acked = {}
              /\ Restored.cut \in Nat
            BY <1>4, <1>0, <2>2, RestoredTyped DEF Create, Resting, diskVars, NewConsumer
        <3>2. /\ Restored.cut <= LastCut
              /\ \A i \in DOMAIN hist : hist[i].readable => hist[i].cut <= Restored.cut
            BY <1>4, <1>0, RestoredCut DEF Create, Resting
        <3> QED
            BY <3>1, <3>2, FreshTyped DEF Committed, LastCut, Pending
    <2> QED
        BY <2>1, <2>2
<1>5. CASE CreateFails
    BY <1>5 DEF CreateFails, opening, diskVars, readerVars, Committed,
       Attempting, LastCut, Pending
<1>6. CASE PreparePull
    <2>1. PICK again \in Seq(Nat), n \in Nat : Deliver(again, n)
        BY <1>6, <1>0, PullDelivers DEF BrokerTyped, ReaderTyped, LedgerOK, Pending
    <2>2. consumer'.acked = consumer.acked
        BY <1>0, <2>1, DeliverTyped DEF BrokerTyped
    <2> QED
        BY <1>6, <2>2 DEF PreparePull, diskVars, Committed, Attempting, LastCut, Pending
<1>7. CASE ReadFrame
    <2>1. CASE ObserveFails(Head(wire))
        BY <1>7, <2>1 DEF ReadFrame, Running, Abort, brokerVars, diskVars, readerVars,
               cutVars,
           MayRead, Committed, Attempting, LastCut, Pending
    <2>2. CASE ~(ObserveFails(Head(wire)))
        <3>1. /\ wire # <<>> /\ ledger' = Observed(Head(wire)) /\ phase = "running"
              /\ hist' = hist /\ consumer' = consumer
            BY <1>7, <2>2 DEF ReadFrame, MayRead, Running, inputFrame, brokerVars, diskVars
        <3> QED
            BY <2>2, <3>1, ReadPositions DEF Committed, Attempting, LastCut
    <2> QED
        BY <2>1, <2>2
<1>8. CASE ReadDeferred
    BY <1>8 DEF ReadDeferred, MayRead, Running, inputFrame, brokerVars,
       diskVars, readerVars, Committed, Attempting, LastCut, Pending
<1>9. CASE EndPull
    BY <1>9 DEF EndPull, MayRead, Running, inputFrame, brokerVars, diskVars,
       Committed, Attempting, LastCut, Pending
<1>10. CASE DecodeRow
    BY <1>10 DEF DecodeRow, inputFrame, brokerVars, diskVars, readerVars,
       Committed, Attempting, LastCut, Pending
<1>11. CASE Quarantine
    BY <1>11 DEF Quarantine, Abort, brokerVars, diskVars, readerVars,
       inputFrame, Committed, Attempting, LastCut, Pending
<1>12. CASE Poll
    <2>1. CASE ObserveFails(Head(wire))
        BY <1>12, <2>1 DEF Poll, Running, Abort, brokerVars, diskVars, readerVars, cutVars,
           Committed, Attempting, LastCut, Pending
    <2>2. CASE ~(ObserveFails(Head(wire)))
        <3>1. /\ wire # <<>> /\ ledger' = Observed(Head(wire)) /\ phase = "running"
              /\ hist' = hist /\ consumer' = consumer
            BY <1>12, <2>2 DEF Poll, MayRead, Running, inputFrame, brokerVars, diskVars
        <3> QED
            BY <2>2, <3>1, ReadPositions DEF Committed, Attempting, LastCut
    <2> QED
        BY <2>1, <2>2
<1>13. CASE PollNothing
    BY <1>13 DEF PollNothing, inputFrame, brokerVars, diskVars, Committed,
       Attempting, LastCut, Pending
<1>14. CASE PublishBatch
    <2>1. CASE PublishFails(build.first, build.last)
        BY <1>14, <2>1 DEF PublishBatch, Running, Abort, brokerVars, diskVars,
               readerVars, cutVars,
           Committed, Attempting, LastCut, Pending
    <2>2. CASE ~(PublishFails(build.first, build.last))
        <3>1. hist' = hist /\ consumer' = consumer /\ Attempting
            BY <1>14, <2>2 DEF PublishBatch, brokerVars, diskVars, Attempting
        <3>2. /\ \A i \in DOMAIN hist : hist[i].readable =>
                    hist[i].cut \in Nat /\ hist[i].cut <= ledger.published
              /\ ledger.committed <= ledger.published
            BY <1>0, <3>1, GenerationTypes DEF Committed
        <3>3. /\ ledger'.committed = ledger.committed /\ ledger.published <= ledger'.published
              /\ ledger'.published \in Nat /\ Pending' = Pending
              /\ \A s \in Pending : ledger'.entries[s].confirm = ledger.entries[s].confirm
            BY <1>14, <2>2, PublishPositions
        <3>4. /\ ledger'.committed <= ledger'.published
              /\ \A i \in DOMAIN hist : hist[i].readable => hist[i].cut <= ledger'.published
            BY <1>0, <3>2, <3>3
        <3> QED
            BY <3>1, <3>3, <3>4 DEF Committed, LastCut
    <2> QED
        BY <2>1, <2>2
<1>15. CASE ServiceAcks
    <2>1. CASE AckFailed
        BY <1>15, <2>1 DEF ServiceAcks, Running, Abort, brokerVars, diskVars,
               readerVars, cutVars,
           Committed, Attempting, LastCut, Pending
    <2>2. CASE ~(AckFailed)
        BY <1>15, <2>2, ServicePositions DEF ServiceAcks, Running, brokerVars, diskVars,
           Committed, Attempting, LastCut
    <2> QED
        BY <2>1, <2>2
<1>16. ASSUME NEW s \in Msgs, Confirm(s)
      PROVE  Committed'
    <2>1. /\ phase = phase' /\ Attempting /\ hist' = hist /\ s \in Pending
          /\ ledger.entries[s].confirm = "asking"
        BY <1>16 DEF Confirm, Attempting, diskVars
    <2>2. consumer'.acked \subseteq consumer.acked \cup {s}
        BY <1>16, <1>0, AckTyped DEF Confirm, BrokerTyped
    <2>3. s <= ledger.committed
        BY <2>1 DEF Committed
    <2> QED
        BY <1>16, <1>0, <2>1, <2>2, <2>3, ConfirmEffect DEF Committed, LastCut, Pending,
           ReaderTyped
<1>17. CASE ForceCheckpoint
    BY <1>17 DEF ForceCheckpoint, Running, BeginCheckpoint, Abort,
       brokerVars, diskVars, readerVars, Committed, Attempting, LastCut,
       Pending
<1>18. CASE RequestCheckpoint
    BY <1>18 DEF RequestCheckpoint, brokerVars, diskVars, readerVars,
       Committed, Attempting, LastCut, Pending
<1>19. CASE TakeCommand
    BY <1>19 DEF TakeCommand, Running, BeginCheckpoint, Abort, brokerVars,
       diskVars, readerVars, Committed, Attempting, LastCut, Pending
<1>20. CASE DropCommand
    BY <1>20 DEF DropCommand, Running, brokerVars, diskVars, readerVars,
       Committed, Attempting, LastCut, Pending
<1>21. ASSUME NEW w \in workers, SendBarrier(w)
      PROVE  Committed'
    BY <1>21 DEF SendBarrier, brokerVars, diskVars, readerVars, Committed,
       Attempting, LastCut, Pending
<1>22. ASSUME NEW w \in workers, Expire(w)
      PROVE  Committed'
    BY <1>22 DEF Expire, workerFrame, brokerVars, readerVars, diskVars,
       Committed, Attempting, LastCut, Pending
<1>23. ASSUME NEW w \in workers, CancelWorker(w)
      PROVE  Committed'
    BY <1>23 DEF CancelWorker, workerFrame, brokerVars, readerVars,
       diskVars, Committed, Attempting, LastCut, Pending
<1>24. ASSUME NEW w \in workers, Commit(w)
      PROVE  Committed'
    <2>0. /\ Attempting /\ Behind(w) /\ w \in Worker /\ consumer' = consumer
          /\ ledger' = ledger
        BY <1>24, <1>0 DEF Commit, Behind, workerFrame, brokerVars, readerVars, Resting,
           CutTyped
    <2>1. CASE hist' = hist
        BY <2>0, <2>1 DEF Committed, LastCut, Pending
    <2>2. CASE hist' = Stored(w)
        <3>1. /\ LastCut' = w.cut
              /\ \A i \in DOMAIN hist' : \/ hist'[i].cut = w.cut
                                         \/ \E j \in DOMAIN hist : hist'[i] = hist[j]
            BY <1>0, <2>0, <2>2, StoredHistory DEF Cuts, DiskTyped
        <3>2. ledger.committed <= w.cut /\ w.cut <= ledger.published
            BY <2>0 DEF Cuts, Gate
        <3> QED
            BY <2>0, <3>1, <3>2 DEF Committed, Pending
    <2> QED
        BY <1>24, <2>1, <2>2 DEF Commit
<1>25. ASSUME NEW w \in workers, Finish(w)
      PROVE  Committed'
    BY <1>25 DEF Finish, workerFrame, brokerVars, readerVars, diskVars,
       Committed, Attempting, LastCut, Pending
<1>26. ASSUME NEW w \in workers, JoinReturned(w)
      PROVE  Committed'
    <2>1. CASE CutRefused(w.cut) \/ AckFailed
        BY <1>26, <2>1 DEF JoinReturned, Running, Abort, brokerVars, diskVars,
               readerVars, cutVars,
           Committed, Attempting, LastCut, Pending
    <2>2. CASE ~(CutRefused(w.cut) \/ AckFailed)
        <3>1. /\ hist' = hist /\ consumer' = consumer /\ Attempting
              /\ w.cut <= LastCut
            BY <1>26, <2>2 DEF JoinReturned, Running, brokerVars, diskVars, Attempting, Cuts
        <3>2. /\ ledger'.committed = w.cut /\ ledger.committed <= w.cut
              /\ w.cut <= ledger.published /\ ledger'.published = ledger.published
              /\ Pending' \subseteq Pending
              /\ \A s \in Pending' : \/ ledger'.entries[s].confirm = ledger.entries[s].confirm
                                     \/ s <= w.cut
            BY <1>26, <2>2, JoinPositions
        <3>3. /\ \A s \in consumer.acked : s \in Nat /\ s <= ledger.committed
              /\ Pending \subseteq Nat /\ w.cut \in Nat
              /\ \A s \in Pending : ledger.entries[s].confirm # "none" => s <= ledger.committed
            <4>1. consumer.acked \subseteq Nat
                BY <1>0 DEF BrokerTyped, Consumer, Msgs
            <4>2. Pending \subseteq Nat
                BY <1>0, LedgerFields DEF ReaderTyped, Pending
            <4>3. w.cut \in Nat
                BY <1>0 DEF CutTyped, Worker
            <4> QED
                BY <3>1, <4>1, <4>2, <4>3 DEF Committed
        <3>4. /\ \A s \in consumer.acked : s <= w.cut
              /\ \A s \in Pending' : ledger'.entries[s].confirm # "none" => s <= w.cut
            BY <1>0, <3>2, <3>3
        <3> QED
            BY <3>1, <3>2, <3>4 DEF Committed, LastCut
    <2> QED
        BY <2>1, <2>2
<1>27. ASSUME NEW w \in workers, JoinFailed(w)
      PROVE  Committed'
    BY <1>27 DEF JoinFailed, Running, Abort, brokerVars, diskVars,
       readerVars, workerFrame, Committed, Attempting, LastCut, Pending
<1>28. CASE Apply
    BY <1>28 DEF Apply, brokerVars, diskVars, readerVars, Committed,
       Attempting, LastCut, Pending
<1>29. CASE JobFails
    BY <1>29 DEF JobFails, Abort, brokerVars, diskVars, readerVars,
       Committed, Attempting, LastCut, Pending
<1>30. CASE Crash
    BY <1>30 DEF Crash, Forget, NewLedger, brokerVars, diskVars, Committed,
       Attempting, LastCut, Pending
<1>31. CASE Close
    BY <1>31 DEF Close, Forget, NewLedger, brokerVars, diskVars, Committed,
       Attempting, LastCut, Pending
<1>32. CASE DropFrame
    BY <1>32 DEF DropFrame, brokerVars, diskVars, Committed, Attempting,
       LastCut, Pending
<1>33. CASE Evict
    BY <1>33 DEF Evict, diskVars, idleVars, readerVars, Committed,
       Attempting, LastCut, Pending
<1>34. CASE Damage
    BY <1>34 DEF Damage, idleVars, Committed, Attempting
<1>35. ASSUME NEW s \in Poison, Purge(s)
      PROVE  Committed'
    BY <1>35 DEF Purge, brokerVars, idleVars, readerVars, Committed,
       Attempting, LastCut, Pending
<1>36. CASE UNCHANGED vars
    BY <1>36 DEF vars, brokerVars, diskVars, readerVars, Committed,
       Attempting, LastCut, Pending
<1> QED
    BY <1>1, <1>2, <1>3, <1>4, <1>5, <1>6, <1>7, <1>8, <1>9, <1>10, <1>11,
       <1>12, <1>13, <1>14, <1>15, <1>16, <1>17, <1>18, <1>19, <1>20, <1>21,
       <1>22, <1>23, <1>24, <1>25, <1>26, <1>27, <1>28, <1>29, <1>30, <1>31,
       <1>32, <1>33, <1>34, <1>35, <1>36 DEF Next, Opening, Input,
       Checkpointing, Ending, Environment

\* A cut under way never falls behind one that is durable.
LEMMA CutsStep ==
    TypeOK /\ Resting /\ Gate /\ Sorted /\ Committed /\ Cuts /\ [Next]_vars => Cuts'
<1> SUFFICES ASSUME TypeOK, Resting, Gate, Sorted, Committed, Cuts, [Next]_vars
             PROVE  Cuts'
    OBVIOUS
<1>0. DiskTyped /\ ReaderTyped /\ CutTyped /\ hist \in Seq(Generation)
    BY TypeParts DEF DiskTyped
<1>1. CASE Open
    BY <1>1 DEF Open, opening, diskVars, readerVars, cutVars, Cuts, Behind,
       LastCut
<1>2. CASE DeleteOld
    BY <1>2 DEF DeleteOld, opening, diskVars, readerVars, cutVars, Cuts,
       Behind, LastCut
<1>3. CASE Bind
    BY <1>3 DEF Bind, opening, diskVars, readerVars, cutVars, Cuts, Behind,
       LastCut
<1>4. CASE Create
    BY <1>4 DEF Create, Resting, Attempting, Cuts
<1>5. CASE CreateFails
    BY <1>5 DEF CreateFails, opening, diskVars, readerVars, cutVars, Cuts,
       Behind, LastCut
<1>6. CASE PreparePull
    BY <1>6 DEF PreparePull, diskVars, cutVars, Cuts, Behind, LastCut
<1>7. CASE ReadFrame
    <2>1. CASE ObserveFails(Head(wire))
        BY <1>7, <2>1 DEF ReadFrame, Running, Abort, brokerVars, diskVars, readerVars,
               cutVars,
           Cuts, Behind, LastCut
    <2>2. CASE ~(ObserveFails(Head(wire)))
        <3>1. /\ wire # <<>> /\ ledger' = Observed(Head(wire))
              /\ hist' = hist /\ workers' = workers
            BY <1>7, <2>2 DEF ReadFrame, inputFrame, cutVars, diskVars
        <3> QED
            BY <2>2, <3>1, ReadPositions DEF Cuts, Behind, LastCut
    <2> QED
        BY <2>1, <2>2
<1>8. CASE ReadDeferred
    BY <1>8 DEF ReadDeferred, inputFrame, cutVars, diskVars, readerVars,
       Cuts, Behind, LastCut
<1>9. CASE EndPull
    BY <1>9 DEF EndPull, inputFrame, cutVars, diskVars, Cuts, Behind,
       LastCut
<1>10. CASE DecodeRow
    BY <1>10 DEF DecodeRow, inputFrame, cutVars, diskVars, readerVars, Cuts,
       Behind, LastCut
<1>11. CASE Quarantine
    BY <1>11 DEF Quarantine, Abort, diskVars, readerVars, cutVars,
       inputFrame, Cuts, Behind, LastCut
<1>12. CASE Poll
    <2>1. CASE ObserveFails(Head(wire))
        BY <1>12, <2>1 DEF Poll, Running, Abort, brokerVars, diskVars, readerVars, cutVars,
           Cuts, Behind, LastCut
    <2>2. CASE ~(ObserveFails(Head(wire)))
        <3>1. /\ wire # <<>> /\ ledger' = Observed(Head(wire))
              /\ hist' = hist /\ workers' = workers
            BY <1>12, <2>2 DEF Poll, inputFrame, cutVars, diskVars
        <3> QED
            BY <2>2, <3>1, ReadPositions DEF Cuts, Behind, LastCut
    <2> QED
        BY <2>1, <2>2
<1>13. CASE PollNothing
    BY <1>13 DEF PollNothing, inputFrame, cutVars, diskVars, Cuts, Behind,
       LastCut
<1>14. CASE PublishBatch
    <2>1. CASE PublishFails(build.first, build.last)
        BY <1>14, <2>1 DEF PublishBatch, Running, Abort, brokerVars, diskVars,
               readerVars, cutVars,
           Cuts, Behind, LastCut
    <2>2. CASE ~(PublishFails(build.first, build.last))
        BY <1>14, <2>2, PublishPositions DEF PublishBatch, cutVars, diskVars, Cuts, Behind,
           LastCut
    <2> QED
        BY <2>1, <2>2
<1>15. CASE ServiceAcks
    <2>1. CASE AckFailed
        BY <1>15, <2>1 DEF ServiceAcks, Running, Abort, brokerVars, diskVars,
               readerVars, cutVars,
           Cuts, Behind, LastCut
    <2>2. CASE ~(AckFailed)
        BY <1>15, <2>2, ServicePositions DEF ServiceAcks, cutVars, diskVars, Cuts, Behind,
           LastCut
    <2> QED
        BY <2>1, <2>2
<1>16. ASSUME NEW s \in Msgs, Confirm(s)
      PROVE  Cuts'
    BY <1>16, <1>0, ConfirmEffect DEF Confirm, ReaderTyped, cutVars, diskVars, Cuts, Behind,
       LastCut
<1>17. CASE ForceCheckpoint
    <2>1. CASE ~Verified
        BY <1>17, <2>1 DEF ForceCheckpoint, BeginCheckpoint, Abort, diskVars,
               readerVars, cutVars, Cuts,
           Behind, LastCut
    <2>2. CASE Verified
        <3>1. ledger' = ledger /\ hist' = hist /\ Attempting /\ BeginCheckpoint
            BY <1>17, <2>2 DEF ForceCheckpoint, Running, BeginCheckpoint, readerVars,
                   diskVars, Attempting
        <3>2. \A v \in workers' : v \in workers \/ (v.cut = ledger.published /\ v.st = "sending")
            BY <2>2, <3>1, BeginWorkers
        <3>3. /\ ledger.committed <= ledger.published
              /\ \A i \in DOMAIN hist : hist[i].readable => hist[i].cut <= ledger.published
            BY <3>1 DEF Committed
        <3> QED
            BY <3>1, <3>2, <3>3 DEF Cuts, Behind, LastCut
    <2> QED
        BY <2>1, <2>2
<1>18. CASE RequestCheckpoint
    BY <1>18 DEF RequestCheckpoint, diskVars, readerVars, Cuts, Behind,
       LastCut
<1>19. CASE TakeCommand
    <2>1. CASE ~Verified
        BY <1>19, <2>1 DEF TakeCommand, BeginCheckpoint, Abort, diskVars, readerVars,
               cutVars, Cuts,
           Behind, LastCut
    <2>2. CASE Verified
        <3>1. ledger' = ledger /\ hist' = hist /\ Attempting /\ BeginCheckpoint
            BY <1>19, <2>2 DEF TakeCommand, Running, BeginCheckpoint, readerVars,
                   diskVars, Attempting
        <3>2. \A v \in workers' : v \in workers \/ (v.cut = ledger.published /\ v.st = "sending")
            BY <2>2, <3>1, BeginWorkers
        <3>3. /\ ledger.committed <= ledger.published
              /\ \A i \in DOMAIN hist : hist[i].readable => hist[i].cut <= ledger.published
            BY <3>1 DEF Committed
        <3> QED
            BY <3>1, <3>2, <3>3 DEF Cuts, Behind, LastCut
    <2> QED
        BY <2>1, <2>2
<1>20. CASE DropCommand
    BY <1>20 DEF DropCommand, diskVars, readerVars, Cuts, Behind, LastCut
<1>21. ASSUME NEW w \in workers, SendBarrier(w)
      PROVE  Cuts'
    <2>1. PICK st \in {"aligning", "expired"} : Move(w, st)
        BY <1>21 DEF SendBarrier
    <2>2. ledger' = ledger /\ hist' = hist
        BY <1>21 DEF SendBarrier, readerVars, diskVars
    <2>3. st \in States /\ ~(st \in {"sending", "aligned"})
          /\ (st = "aligning" => w.st = "sending")
          /\ (st \in {"finished", "returned"} => w.st \in {"durable", "finished"})
          /\ st # "durable"
        BY <1>21, <2>1 DEF SendBarrier, States
    <2>4. \A v \in workers' : v \in workers \/ (v.cut = w.cut /\ v.st = st)
        BY <1>0, <2>1, <2>3, MoveTyped DEF CutTyped
    <2> QED
        BY <2>2, <2>3, <2>4 DEF Cuts, Behind, LastCut
<1>22. ASSUME NEW w \in workers, Expire(w)
      PROVE  Cuts'
    <2>1. PICK st \in {"expired"} : Move(w, st)
        BY <1>22 DEF Expire
    <2>2. ledger' = ledger /\ hist' = hist
        BY <1>22 DEF Expire, workerFrame, readerVars, diskVars
    <2>3. st \in States /\ ~(st \in {"sending", "aligned"})
          /\ (st = "aligning" => w.st = "sending")
          /\ (st \in {"finished", "returned"} => w.st \in {"durable", "finished"})
          /\ st # "durable"
        BY <1>22, <2>1 DEF Expire, States
    <2>4. \A v \in workers' : v \in workers \/ (v.cut = w.cut /\ v.st = st)
        BY <1>0, <2>1, <2>3, MoveTyped DEF CutTyped
    <2> QED
        BY <2>2, <2>3, <2>4 DEF Cuts, Behind, LastCut
<1>23. ASSUME NEW w \in workers, CancelWorker(w)
      PROVE  Cuts'
    <2>1. PICK st \in {"error"} : Move(w, st)
        BY <1>23 DEF CancelWorker
    <2>2. ledger' = ledger /\ hist' = hist
        BY <1>23 DEF CancelWorker, workerFrame, readerVars, diskVars
    <2>3. st \in States /\ ~(st \in {"sending", "aligned"})
          /\ (st = "aligning" => w.st = "sending")
          /\ (st \in {"finished", "returned"} => w.st \in {"durable", "finished"})
          /\ st # "durable"
        BY <1>23, <2>1 DEF CancelWorker, States
    <2>4. \A v \in workers' : v \in workers \/ (v.cut = w.cut /\ v.st = st)
        BY <1>0, <2>1, <2>3, MoveTyped DEF CutTyped
    <2> QED
        BY <2>2, <2>3, <2>4 DEF Cuts, Behind, LastCut
<1>24. ASSUME NEW w \in workers, Commit(w)
      PROVE  Cuts'
    <2>0. /\ Behind(w) /\ w \in Worker /\ ledger' = ledger /\ w.st = "aligned"
        BY <1>24, <1>0 DEF Commit, Behind, workerFrame, readerVars, CutTyped
    <2>1. PICK st \in {"durable", "error"} :
              Move(w, st) /\ (hist' = Stored(w) \/ (hist' = hist /\ st = "error"))
        BY <1>24 DEF Commit
    <2>2. \A v \in workers' : (v \in workers /\ v # w) \/ (v.cut = w.cut /\ v.st = st)
        BY <1>0, <2>1, MoveTyped DEF CutTyped, States
    <2>3. CASE hist' = hist /\ st = "error"
        BY <2>0, <2>2, <2>3 DEF Cuts, Behind, LastCut
    <2>4. CASE hist' = Stored(w)
        <3>1. LastCut' = w.cut
            BY <1>0, <2>0, <2>4, StoredHistory DEF Cuts, DiskTyped
        <3>2. \A v \in workers : /\ v.cut <= w.cut /\ (v # w => ~Behind(v))
            BY <2>0 DEF Gate, AtGate, Behind
        <3>3. \A v \in workers' : ~Behind(v) /\ v.cut <= w.cut
            BY <1>0, <2>0, <2>2, <3>2 DEF Behind, Worker
        <3> QED
            BY <3>1, <3>3 DEF Cuts, Behind
    <2> QED
        BY <2>1, <2>3, <2>4
<1>25. ASSUME NEW w \in workers, Finish(w)
      PROVE  Cuts'
    <2>1. PICK st \in {"finished", "returned"} : Move(w, st)
        BY <1>25 DEF Finish
    <2>2. ledger' = ledger /\ hist' = hist
        BY <1>25 DEF Finish, workerFrame, readerVars, diskVars
    <2>3. st \in States /\ ~(st \in {"sending", "aligned"})
          /\ (st = "aligning" => w.st = "sending")
          /\ (st \in {"finished", "returned"} => w.st \in {"durable", "finished"})
          /\ st # "durable"
        BY <1>25, <2>1 DEF Finish, States
    <2>4. \A v \in workers' : v \in workers \/ (v.cut = w.cut /\ v.st = st)
        BY <1>0, <2>1, <2>3, MoveTyped DEF CutTyped
    <2> QED
        BY <2>2, <2>3, <2>4 DEF Cuts, Behind, LastCut
<1>26. ASSUME NEW w \in workers, JoinReturned(w)
      PROVE  Cuts'
    <2>1. CASE CutRefused(w.cut) \/ AckFailed
        BY <1>26, <2>1 DEF JoinReturned, Running, Abort, brokerVars, diskVars,
               readerVars, cutVars,
           Cuts, Behind, LastCut
    <2>2. CASE ~(CutRefused(w.cut) \/ AckFailed)
        <3>1. hist' = hist /\ workers' = workers \ {w}
            BY <1>26, <2>2 DEF JoinReturned, diskVars
        <3>2. \A v \in workers' : Behind(v) => w.cut <= v.cut
            BY <3>1 DEF Gate, Behind, AtGate
        <3> QED
            BY <1>26, <2>2, <3>1, <3>2, JoinPositions DEF Cuts, LastCut, Behind
    <2> QED
        BY <2>1, <2>2
<1>27. ASSUME NEW w \in workers, JoinFailed(w)
      PROVE  Cuts'
    BY <1>27 DEF JoinFailed, Abort, diskVars, readerVars, cutVars,
       workerFrame, Cuts, Behind, LastCut
<1>28. CASE Apply
    <2>1. ledger' = ledger /\ hist' = hist
        BY <1>28 DEF Apply, readerVars, diskVars
    <2>2. \A v \in workers' : \/ v \in workers
                              \/ \E u \in workers : /\ u.st = "aligning" /\ v.cut = u.cut
                                                    /\ v.st = "aligned"
        BY <1>28, ApplyWorkers
    <2> QED
        BY <2>1, <2>2 DEF Cuts, Behind, LastCut
<1>29. CASE JobFails
    BY <1>29 DEF JobFails, Abort, diskVars, readerVars, cutVars, Cuts,
       Behind, LastCut
<1>30. CASE Crash
    BY <1>30 DEF Crash, Forget, NewLedger, diskVars, Cuts, Behind, LastCut
<1>31. CASE Close
    BY <1>31 DEF Close, Forget, NewLedger, diskVars, Cuts, Behind, LastCut
<1>32. CASE DropFrame
    BY <1>32 DEF DropFrame, diskVars, cutVars, Cuts, Behind, LastCut
<1>33. CASE Evict
    BY <1>33 DEF Evict, diskVars, idleVars, readerVars, cutVars, Cuts,
       Behind, LastCut
<1>34. CASE Damage
    BY <1>34 DEF Damage, Resting, Attempting, idleVars, cutVars, Cuts
<1>35. ASSUME NEW s \in Poison, Purge(s)
      PROVE  Cuts'
    BY <1>35 DEF Purge, idleVars, readerVars, cutVars, Cuts, Behind, LastCut
<1>36. CASE UNCHANGED vars
    BY <1>36 DEF vars, diskVars, readerVars, cutVars, Cuts, Behind, LastCut
<1> QED
    BY <1>1, <1>2, <1>3, <1>4, <1>5, <1>6, <1>7, <1>8, <1>9, <1>10, <1>11,
       <1>12, <1>13, <1>14, <1>15, <1>16, <1>17, <1>18, <1>19, <1>20, <1>21,
       <1>22, <1>23, <1>24, <1>25, <1>26, <1>27, <1>28, <1>29, <1>30, <1>31,
       <1>32, <1>33, <1>34, <1>35, <1>36 DEF Next, Opening, Input,
       Checkpointing, Ending, Environment

-----------------------------------------------------------------------------
(* The rows of a batch.                                                    *)

\* A batch starts with no row and no poison record behind it.
LEMMA StartSpan ==
    ASSUME NEW s \in Nat, s # 0, StartBatch(s)
    PROVE  Building'
<1>1. /\ build'.first = s /\ build'.last = s - 1 /\ build'.rows = <<>> /\ s - 1 \in Nat
    BY DEF StartBatch
<1>2. Span(<<>>, s - 1, s - 1)
    BY <1>1, SpanNothing
<1>3. \A t \in Poison : ~(s <= t /\ t <= s - 1)
    BY JetStreamAssumption
<1> QED
    BY <1>1, <1>2, <1>3 DEF Building

\* Quarantining takes back no record, and a batch goes past a record only when
\* it was captured.
LEMMA QuarantineKeeps ==
    ASSUME TypeOK, Captured, Quarantine
    PROVE  /\ \A s \in Poison : captured[s] >= 1 => captured'[s] >= 1
           /\ CheckStart(build.record) =>
                 \/ build' = [build EXCEPT !.record = None, !.last = build.last]
                 \/ /\ build' = [build EXCEPT !.record = None, !.last = build.record]
                    /\ captured'[build.record] >= 1
<1>0. captured \in [Poison -> Nat] /\ build.record \in Poison
    BY TypeParts DEF DiskTyped, Quarantine
<1>1. CASE ~CheckStart(build.record)
    BY <1>1 DEF Quarantine, Abort, diskVars
<1>2. CASE CheckStart(build.record)
    <2> DEFINE s == build.record
               kept == s \in dlq
               taken == kept \/ Cardinality(dlq) < DlqEntries
    <2>1. /\ captured' = IF taken /\ ~kept THEN [captured EXCEPT ![s] = @ + 1]
                         ELSE captured
          /\ build' = [build EXCEPT !.record = None, !.last = IF taken THEN s ELSE @]
        BY <1>2 DEF Quarantine
    <2>2. kept => captured[s] >= 1
        BY DEF Captured
    <2>3. \A t \in Poison : captured[t] >= 1 => captured'[t] >= 1
        BY <1>0, <2>1
    <2>4. taken => captured'[s] >= 1
        BY <1>0, <2>1, <2>2
    <2>5. CASE taken
        BY <2>1, <2>3, <2>4, <2>5
    <2>6. CASE ~taken
        BY <2>1, <2>3, <2>6
    <2> QED
        BY <2>5, <2>6
<1> QED
    BY <1>1, <1>2

\* The batch holds the rows from its first record to its last.
LEMMA BuildingStep ==
    TypeOK /\ Resting /\ Reading /\ Captured /\ Building /\ [Next]_vars => Building'
<1> SUFFICES ASSUME TypeOK, Resting, Reading, Captured, Building, [Next]_vars
             PROVE  Building'
    OBVIOUS
<1>0. BuildTyped /\ ledger.received \in Nat
    BY TypeParts, LedgerFields DEF ReaderTyped
<1>1. CASE Open
    BY <1>1 DEF Open, brokerVars, opening, diskVars, buildVars, Building,
       Attempting
<1>2. CASE DeleteOld
    BY <1>2 DEF DeleteOld, opening, diskVars, buildVars, Building,
       Attempting
<1>3. CASE Bind
    BY <1>3 DEF Bind, opening, diskVars, buildVars, Building, Attempting
<1>4. CASE Create
    BY <1>4 DEF Create, Resting, Attempting, buildVars, Building
<1>5. CASE CreateFails
    BY <1>5 DEF CreateFails, opening, diskVars, buildVars, Building,
       Attempting
<1>6. CASE PreparePull
    BY <1>6 DEF PreparePull, MayRead, Running, diskVars, buildVars,
       Building, Attempting
<1>7. CASE ReadFrame
    <2>1. CASE ObserveFails(Head(wire)) \/ Known(Head(wire))
        BY <1>7, <2>1 DEF ReadFrame, MayRead, Running, Abort, buildVars, diskVars,
           inputFrame, Building, Attempting
    <2>2. CASE ~ObserveFails(Head(wire)) /\ ~Known(Head(wire))
        <3>1. StartBatch(Head(wire).seq)
            BY <1>7, <2>2 DEF ReadFrame
        <3>2. Head(wire).seq = ledger.received + 1
            BY <2>2 DEF ObserveFails
        <3> QED
            BY <1>0, <3>1, <3>2, StartSpan
    <2> QED
        BY <2>1, <2>2
<1>8. CASE ReadDeferred
    <2>1. StartBatch(deferred) /\ deferred # 0
        BY <1>8 DEF ReadDeferred, None
    <2> QED
        BY <1>0, <2>1, StartSpan DEF BuildTyped
<1>9. CASE EndPull
    BY <1>9 DEF EndPull, MayRead, Running, inputFrame, brokerVars, diskVars,
       buildVars, Building, Attempting
<1>10. CASE DecodeRow
    <2>0. /\ pc = "decode" /\ Attempting /\ captured' = captured
          /\ build.record \notin Poison
        BY <1>10 DEF DecodeRow, diskVars, Attempting
    <2>1. /\ build \in Build /\ build.first \in Nat /\ build.last \in Nat
          /\ build.rows \in Seq(Nat) /\ build.record = build.last + 1
        BY <1>0, <2>0 DEF BuildTyped, Build, Reading
    <2>2. CASE build' = [build EXCEPT !.rows = Append(@, build.record),
                                      !.last = build.record, !.record = None]
        <3>1. /\ build'.first = build.first /\ build'.last = build.last + 1
              /\ build'.rows = Append(build.rows, build.last + 1)
            BY <2>1, <2>2 DEF Build
        <3>2. /\ build.first # 0 /\ build.first <= build.last + 1
              /\ Span(build.rows, build.first - 1, build.last)
            BY <2>0 DEF Building
        <3>3. Span(Append(build.rows, build.last + 1), build.first - 1, build.last + 1)
            <4>1. build.first - 1 \in Nat /\ build.first - 1 <= build.last
                BY <2>1, <3>2
            <4> QED
                BY <2>0, <2>1, <3>2, <4>1, SpanRow
        <3>4. \A s \in Poison : build.first <= s /\ s <= build.last + 1 => captured[s] >= 1
            BY <2>0, <2>1, JetStreamAssumption DEF Building
        <3> QED
            BY <2>0, <2>1, <3>1, <3>2, <3>3, <3>4 DEF Building
    <2>3. CASE build' = [build EXCEPT !.record = None]
        <3>1. /\ build'.first = build.first /\ build'.last = build.last
              /\ build'.rows = build.rows
            BY <2>1, <2>3 DEF Build
        <3> QED
            BY <2>0, <3>1 DEF Building
    <2> QED
        BY <1>10, <2>2, <2>3 DEF DecodeRow
<1>11. CASE Quarantine
    <2>0. pc = "decode" /\ Attempting /\ build.record \in Poison
        BY <1>11 DEF Quarantine, Attempting
    <2>1. /\ build \in Build /\ build.first \in Nat /\ build.last \in Nat
          /\ build.rows \in Seq(Nat) /\ build.record = build.last + 1
        BY <1>0, <2>0 DEF BuildTyped, Build, Reading
    <2>2. CASE ~CheckStart(build.record)
        BY <1>11, <2>0, <2>2 DEF Quarantine, Abort, buildVars, diskVars, Building
    <2>3. CASE CheckStart(build.record)
        <3>1. \A s \in Poison : captured[s] >= 1 => captured'[s] >= 1
            BY <1>11, QuarantineKeeps
        <3>2. CASE build' = [build EXCEPT !.record = None, !.last = build.last]
            <4>1. /\ build'.first = build.first /\ build'.last = build.last
                  /\ build'.rows = build.rows
                BY <2>1, <3>2 DEF Build
            <4> QED
                BY <2>0, <3>1, <4>1 DEF Building
        <3>3. CASE /\ build' = [build EXCEPT !.record = None, !.last = build.record]
                   /\ captured'[build.record] >= 1
            <4>1. /\ build'.first = build.first /\ build'.last = build.last + 1
                  /\ build'.rows = build.rows
                BY <2>1, <3>3 DEF Build
            <4>2. /\ build.first # 0 /\ build.first <= build.last + 1
                  /\ Span(build.rows, build.first - 1, build.last)
                BY <2>0 DEF Building
            <4>3. Span(build.rows, build.first - 1, build.last + 1)
                <5>1. build.first - 1 \in Nat /\ build.first - 1 <= build.last
                    BY <2>1, <4>2
                <5> QED
                    BY <2>0, <2>1, <4>2, <5>1, SpanPoison
            <4>4. \A s \in Poison :
                     build.first <= s /\ s <= build.last + 1 => captured'[s] >= 1
                <5> SUFFICES ASSUME NEW s \in Poison, build.first <= s, s <= build.last + 1
                             PROVE  captured'[s] >= 1
                    OBVIOUS
                <5>1. s \in Nat
                    BY JetStreamAssumption
                <5>2. CASE s <= build.last
                    BY <2>0, <3>1, <5>2 DEF Building
                <5>3. CASE s = build.last + 1
                    BY <2>1, <3>3, <5>3
                <5> QED
                    BY <2>1, <5>1, <5>2, <5>3
            <4> QED
                BY <2>0, <2>1, <4>1, <4>2, <4>3, <4>4 DEF Building
        <3> QED
            BY <1>11, <2>3, <3>2, <3>3, QuarantineKeeps
    <2> QED
        BY <2>2, <2>3
<1>12. CASE Poll
    <2>1. CASE ObserveFails(Head(wire))
        BY <1>12, <2>1 DEF Poll, Abort, buildVars, diskVars, Building, Attempting
    <2>2. CASE ~ObserveFails(Head(wire))
        <3>1. /\ build'.first = build.first /\ build'.last = build.last
              /\ build'.rows = build.rows
            BY <1>12, <1>0, <2>2 DEF Poll, BuildTyped, Build
        <3> QED
            BY <1>12, <2>2, <3>1 DEF Poll, diskVars, Building, Attempting
    <2> QED
        BY <2>1, <2>2
<1>13. CASE PollNothing
    BY <1>13 DEF PollNothing, inputFrame, brokerVars, diskVars, Building,
       Attempting
<1>14. CASE PublishBatch
    BY <1>14 DEF PublishBatch, Abort, brokerVars, diskVars, buildVars,
       NoBuild, Building, Attempting
<1>15. CASE ServiceAcks
    BY <1>15 DEF ServiceAcks, Running, Abort, brokerVars, diskVars,
       buildVars, Building, Attempting
<1>16. ASSUME NEW s \in Msgs, Confirm(s)
      PROVE  Building'
    BY <1>16 DEF Confirm, diskVars, buildVars, Building, Attempting
<1>17. CASE ForceCheckpoint
    BY <1>17 DEF ForceCheckpoint, Running, BeginCheckpoint, Abort,
       brokerVars, diskVars, buildVars, Building, Attempting
<1>18. CASE RequestCheckpoint
    BY <1>18 DEF RequestCheckpoint, brokerVars, diskVars, buildVars,
       Building, Attempting
<1>19. CASE TakeCommand
    BY <1>19 DEF TakeCommand, Running, BeginCheckpoint, Abort, brokerVars,
       diskVars, buildVars, Building, Attempting
<1>20. CASE DropCommand
    BY <1>20 DEF DropCommand, Running, brokerVars, diskVars, buildVars,
       Building, Attempting
<1>21. ASSUME NEW w \in workers, SendBarrier(w)
      PROVE  Building'
    BY <1>21 DEF SendBarrier, brokerVars, diskVars, Building, Attempting
<1>22. ASSUME NEW w \in workers, Expire(w)
      PROVE  Building'
    BY <1>22 DEF Expire, workerFrame, brokerVars, buildVars, diskVars,
       Building, Attempting
<1>23. ASSUME NEW w \in workers, CancelWorker(w)
      PROVE  Building'
    BY <1>23 DEF CancelWorker, workerFrame, brokerVars, buildVars, diskVars,
       Building, Attempting
<1>24. ASSUME NEW w \in workers, Commit(w)
      PROVE  Building'
    BY <1>24 DEF Commit, workerFrame, brokerVars, buildVars, Building,
       Attempting
<1>25. ASSUME NEW w \in workers, Finish(w)
      PROVE  Building'
    BY <1>25 DEF Finish, workerFrame, brokerVars, buildVars, diskVars,
       Building, Attempting
<1>26. ASSUME NEW w \in workers, JoinReturned(w)
      PROVE  Building'
    BY <1>26 DEF JoinReturned, Running, Abort, brokerVars, diskVars,
       buildVars, Building, Attempting
<1>27. ASSUME NEW w \in workers, JoinFailed(w)
      PROVE  Building'
    BY <1>27 DEF JoinFailed, Running, Abort, brokerVars, diskVars,
       buildVars, workerFrame, Building, Attempting
<1>28. CASE Apply
    BY <1>28 DEF Apply, brokerVars, diskVars, buildVars, Building,
       Attempting
<1>29. CASE JobFails
    BY <1>29 DEF JobFails, Abort, brokerVars, diskVars, buildVars, Building,
       Attempting
<1>30. CASE Crash
    BY <1>30 DEF Crash, Forget, NoBuild, brokerVars, diskVars, Building,
       Attempting
<1>31. CASE Close
    BY <1>31 DEF Close, Forget, NoBuild, brokerVars, diskVars, Building,
       Attempting
<1>32. CASE DropFrame
    BY <1>32 DEF DropFrame, brokerVars, diskVars, buildVars, Building,
       Attempting
<1>33. CASE Evict
    BY <1>33 DEF Evict, diskVars, idleVars, buildVars, Building, Attempting
<1>34. CASE Damage
    BY <1>34 DEF Damage, brokerVars, idleVars, buildVars, Building,
       Attempting
<1>35. ASSUME NEW s \in Poison, Purge(s)
      PROVE  Building'
    BY <1>35 DEF Purge, brokerVars, idleVars, buildVars, Building,
       Attempting
<1>36. CASE UNCHANGED vars
    BY <1>36 DEF vars, brokerVars, diskVars, buildVars, Building, Attempting
<1> QED
    BY <1>1, <1>2, <1>3, <1>4, <1>5, <1>6, <1>7, <1>8, <1>9, <1>10, <1>11,
       <1>12, <1>13, <1>14, <1>15, <1>16, <1>17, <1>18, <1>19, <1>20, <1>21,
       <1>22, <1>23, <1>24, <1>25, <1>26, <1>27, <1>28, <1>29, <1>30, <1>31,
       <1>32, <1>33, <1>34, <1>35, <1>36 DEF Next, Opening, Input,
       Checkpointing, Ending, Environment

\* What an attempt restores holds the rows of its cut.
LEMMA RestoredRows ==
    ASSUME hist \in Seq(Generation), hist = <<>> \/ Readable # {}, DurableExact
    PROVE  Span(Restored.rows, 0, Restored.cut) /\ Caught(Restored.cut)
<1>1. CASE hist = <<>>
    <2>1. Restored.cut = 0 /\ Restored.rows = <<>>
        BY <1>1 DEF Restored
    <2>2. \A s \in Poison : ~(s <= 0)
        BY JetStreamAssumption
    <2> QED
        BY <2>1, <2>2, SpanNothing DEF Caught
<1>2. CASE hist # <<>>
    <2>1. PICK m \in 1..Len(hist) : Restored = hist[m]
        BY <1>2, RestoredNewest
    <2>2. m \in DOMAIN hist
        OBVIOUS
    <2> QED
        BY <2>1, <2>2 DEF DurableExact, Caught
<1> QED
    BY <1>1, <1>2

\* Every poison record up to the published position was captured.
LEMMA CaughtStep ==
    TypeOK /\ Resting /\ Captured /\ Building /\ CaughtUp /\ DurableExact
      /\ [Next]_vars => CaughtUp'
<1> SUFFICES ASSUME TypeOK, Resting, Captured, Building, CaughtUp, DurableExact, [Next]_vars
             PROVE  CaughtUp'
    OBVIOUS
<1>0. /\ hist \in Seq(Generation) /\ LedgerOK(ledger) /\ ledger.published \in Nat
      /\ build.first \in Nat /\ build.last \in Nat
    BY TypeParts, LedgerFields DEF DiskTyped, ReaderTyped, BuildTyped, Build
<1>1. CASE Open
    BY <1>1 DEF Open, opening, diskVars, readerVars, CaughtUp, Caught,
       Attempting
<1>2. CASE DeleteOld
    BY <1>2 DEF DeleteOld, opening, diskVars, readerVars, CaughtUp, Caught,
       Attempting
<1>3. CASE Bind
    BY <1>3 DEF Bind, opening, diskVars, readerVars, CaughtUp, Caught,
       Attempting
<1>4. CASE Create
    <2>1. CASE ~CheckStart(Restored.cut)
        BY <1>4, <2>1 DEF Create, CaughtUp, Attempting
    <2>2. CASE CheckStart(Restored.cut)
        <3>1. /\ captured' = captured /\ ledger' = NewLedger(Restored.cut)
              /\ hist = <<>> \/ Readable # {}
            BY <1>4, <2>2 DEF Create, Resting, diskVars
        <3>2. Restored.cut \in Nat /\ Caught(Restored.cut)
            BY <1>0, <3>1, RestoredTyped, RestoredRows
        <3> QED
            BY <3>1, <3>2, FreshTyped DEF CaughtUp, Caught
    <2> QED
        BY <2>1, <2>2
<1>5. CASE CreateFails
    BY <1>5 DEF CreateFails, opening, diskVars, readerVars, CaughtUp,
       Caught, Attempting
<1>6. CASE PreparePull
    BY <1>6 DEF PreparePull, MayRead, Running, diskVars, CaughtUp, Caught,
       Attempting
<1>7. CASE ReadFrame
    <2>1. CASE ObserveFails(Head(wire))
        BY <1>7, <2>1 DEF ReadFrame, Running, Abort, brokerVars, diskVars, readerVars,
               cutVars,
           MayRead, CaughtUp, Caught, Attempting
    <2>2. CASE ~(ObserveFails(Head(wire)))
        <3>1. /\ wire # <<>> /\ ledger' = Observed(Head(wire)) /\ captured' = captured
              /\ phase = "running"
            BY <1>7, <2>2 DEF ReadFrame, MayRead, Running, diskVars
        <3> QED
            BY <2>2, <3>1, ReadPositions DEF CaughtUp, Caught, Attempting
    <2> QED
        BY <2>1, <2>2
<1>8. CASE ReadDeferred
    BY <1>8 DEF ReadDeferred, MayRead, Running, inputFrame, diskVars,
       readerVars, CaughtUp, Caught, Attempting
<1>9. CASE EndPull
    BY <1>9 DEF EndPull, MayRead, Running, inputFrame, diskVars, CaughtUp,
       Caught, Attempting
<1>10. CASE DecodeRow
    BY <1>10 DEF DecodeRow, inputFrame, diskVars, readerVars, CaughtUp,
       Caught, Attempting
<1>11. CASE Quarantine
    <2>1. Attempting /\ ledger' = ledger
        BY <1>11 DEF Quarantine, Attempting, Abort, readerVars
    <2> QED
        BY <1>11, <2>1, QuarantineKeeps DEF CaughtUp, Caught
<1>12. CASE Poll
    <2>1. CASE ObserveFails(Head(wire))
        BY <1>12, <2>1 DEF Poll, Running, Abort, brokerVars, diskVars, readerVars, cutVars,
           CaughtUp, Caught, Attempting
    <2>2. CASE ~(ObserveFails(Head(wire)))
        <3>1. /\ wire # <<>> /\ ledger' = Observed(Head(wire)) /\ captured' = captured
              /\ phase = "running"
            BY <1>12, <2>2 DEF Poll, MayRead, Running, diskVars
        <3> QED
            BY <2>2, <3>1, ReadPositions DEF CaughtUp, Caught, Attempting
    <2> QED
        BY <2>1, <2>2
<1>13. CASE PollNothing
    BY <1>13 DEF PollNothing, inputFrame, diskVars, CaughtUp, Caught,
       Attempting
<1>14. CASE PublishBatch
    <2>1. CASE PublishFails(build.first, build.last)
        BY <1>14, <2>1 DEF PublishBatch, Running, Abort, brokerVars, diskVars,
               readerVars, cutVars,
           CaughtUp, Caught, Attempting
    <2>2. CASE ~(PublishFails(build.first, build.last))
        <3>1. /\ Attempting /\ pc = "batch" /\ captured' = captured
            BY <1>14, <2>2 DEF PublishBatch, diskVars, Attempting
        <3>2. /\ ledger'.published = IF build.first <= build.last THEN build.last
                                     ELSE ledger.published
              /\ build.first <= build.last => build.first = ledger.published + 1
            BY <1>14, <2>2, PublishPositions
        <3>3. /\ \A s \in Poison : s <= ledger.published => captured[s] >= 1
              /\ \A s \in Poison : build.first <= s /\ s <= build.last => captured[s] >= 1
            BY <3>1 DEF CaughtUp, Caught, Building
        <3>4. \A s \in Poison : s <= ledger'.published => captured[s] >= 1
            BY <1>0, <3>2, <3>3, JetStreamAssumption
        <3> QED
            BY <3>1, <3>4 DEF CaughtUp, Caught
    <2> QED
        BY <2>1, <2>2
<1>15. CASE ServiceAcks
    <2>1. CASE AckFailed
        BY <1>15, <2>1 DEF ServiceAcks, Running, Abort, brokerVars, diskVars,
               readerVars, cutVars,
           CaughtUp, Caught, Attempting
    <2>2. CASE ~(AckFailed)
        BY <1>15, <2>2, ServicePositions DEF ServiceAcks, Running, diskVars, CaughtUp,
               Caught,
           Attempting
    <2> QED
        BY <2>1, <2>2
<1>16. ASSUME NEW s \in Msgs, Confirm(s)
      PROVE  CaughtUp'
    BY <1>16, <1>0, ConfirmEffect DEF Confirm, diskVars, CaughtUp, Caught, Attempting
<1>17. CASE ForceCheckpoint
    BY <1>17 DEF ForceCheckpoint, Running, BeginCheckpoint, Abort, diskVars,
       readerVars, CaughtUp, Caught, Attempting
<1>18. CASE RequestCheckpoint
    BY <1>18 DEF RequestCheckpoint, diskVars, readerVars, CaughtUp, Caught,
       Attempting
<1>19. CASE TakeCommand
    BY <1>19 DEF TakeCommand, Running, BeginCheckpoint, Abort, diskVars,
       readerVars, CaughtUp, Caught, Attempting
<1>20. CASE DropCommand
    BY <1>20 DEF DropCommand, Running, diskVars, readerVars, CaughtUp,
       Caught, Attempting
<1>21. ASSUME NEW w \in workers, SendBarrier(w)
      PROVE  CaughtUp'
    BY <1>21 DEF SendBarrier, diskVars, readerVars, CaughtUp, Caught,
       Attempting
<1>22. ASSUME NEW w \in workers, Expire(w)
      PROVE  CaughtUp'
    BY <1>22 DEF Expire, workerFrame, readerVars, diskVars, CaughtUp,
       Caught, Attempting
<1>23. ASSUME NEW w \in workers, CancelWorker(w)
      PROVE  CaughtUp'
    BY <1>23 DEF CancelWorker, workerFrame, readerVars, diskVars, CaughtUp,
       Caught, Attempting
<1>24. ASSUME NEW w \in workers, Commit(w)
      PROVE  CaughtUp'
    BY <1>24 DEF Commit, workerFrame, readerVars, CaughtUp, Caught,
       Attempting
<1>25. ASSUME NEW w \in workers, Finish(w)
      PROVE  CaughtUp'
    BY <1>25 DEF Finish, workerFrame, readerVars, diskVars, CaughtUp,
       Caught, Attempting
<1>26. ASSUME NEW w \in workers, JoinReturned(w)
      PROVE  CaughtUp'
    <2>1. CASE CutRefused(w.cut) \/ AckFailed
        BY <1>26, <2>1 DEF JoinReturned, Running, Abort, brokerVars, diskVars,
               readerVars, cutVars,
           CaughtUp, Caught, Attempting
    <2>2. CASE ~(CutRefused(w.cut) \/ AckFailed)
        BY <1>26, <2>2, JoinPositions DEF JoinReturned, Running, diskVars, CaughtUp, Caught,
           Attempting
    <2> QED
        BY <2>1, <2>2
<1>27. ASSUME NEW w \in workers, JoinFailed(w)
      PROVE  CaughtUp'
    BY <1>27 DEF JoinFailed, Running, Abort, diskVars, readerVars,
       workerFrame, CaughtUp, Caught, Attempting
<1>28. CASE Apply
    BY <1>28 DEF Apply, diskVars, readerVars, CaughtUp, Caught, Attempting
<1>29. CASE JobFails
    BY <1>29 DEF JobFails, Abort, diskVars, readerVars, CaughtUp, Caught,
       Attempting
<1>30. CASE Crash
    BY <1>30 DEF Crash, Forget, NewLedger, diskVars, CaughtUp, Caught,
       Attempting
<1>31. CASE Close
    BY <1>31 DEF Close, Forget, NewLedger, diskVars, CaughtUp, Caught,
       Attempting
<1>32. CASE DropFrame
    BY <1>32 DEF DropFrame, diskVars, CaughtUp, Caught, Attempting
<1>33. CASE Evict
    BY <1>33 DEF Evict, diskVars, idleVars, readerVars, CaughtUp, Caught,
       Attempting
<1>34. CASE Damage
    BY <1>34 DEF Damage, idleVars, readerVars, CaughtUp, Caught, Attempting
<1>35. ASSUME NEW s \in Poison, Purge(s)
      PROVE  CaughtUp'
    BY <1>35 DEF Purge, idleVars, readerVars, CaughtUp, Caught, Attempting
<1>36. CASE UNCHANGED vars
    BY <1>36 DEF vars, diskVars, readerVars, CaughtUp, Caught, Attempting
<1> QED
    BY <1>1, <1>2, <1>3, <1>4, <1>5, <1>6, <1>7, <1>8, <1>9, <1>10, <1>11,
       <1>12, <1>13, <1>14, <1>15, <1>16, <1>17, <1>18, <1>19, <1>20, <1>21,
       <1>22, <1>23, <1>24, <1>25, <1>26, <1>27, <1>28, <1>29, <1>30, <1>31,
       <1>32, <1>33, <1>34, <1>35, <1>36 DEF Next, Opening, Input,
       Checkpointing, Ending, Environment

\* A checkpoint that is stored holds the rows of its cut.
LEMMA ExactStep ==
    TypeOK /\ Resting /\ Captured /\ Gate /\ Sorted /\ Cuts /\ CaughtUp /\ Aligned
      /\ DurableExact /\ [Next]_vars => DurableExact'
<1> SUFFICES ASSUME TypeOK, Resting, Captured, Gate, Sorted, Cuts, CaughtUp, Aligned,
                    DurableExact, [Next]_vars
             PROVE  DurableExact'
    OBVIOUS
<1>0. /\ hist \in Seq(Generation) /\ workers \subseteq Worker /\ ledger.published \in Nat
    BY TypeParts, LedgerFields DEF DiskTyped, CutTyped, ReaderTyped
<1>1. CASE Open
    BY <1>1 DEF Open, opening, diskVars, DurableExact
<1>2. CASE DeleteOld
    BY <1>2 DEF DeleteOld, opening, diskVars, DurableExact
<1>3. CASE Bind
    BY <1>3 DEF Bind, opening, diskVars, DurableExact
<1>4. CASE Create
    BY <1>4 DEF Create, diskVars, DurableExact
<1>5. CASE CreateFails
    BY <1>5 DEF CreateFails, opening, diskVars, DurableExact
<1>6. CASE PreparePull
    BY <1>6 DEF PreparePull, diskVars, DurableExact
<1>7. CASE ReadFrame
    BY <1>7 DEF ReadFrame, Abort, diskVars, DurableExact
<1>8. CASE ReadDeferred
    BY <1>8 DEF ReadDeferred, diskVars, DurableExact
<1>9. CASE EndPull
    BY <1>9 DEF EndPull, diskVars, DurableExact
<1>10. CASE DecodeRow
    BY <1>10 DEF DecodeRow, diskVars, DurableExact
<1>11. CASE Quarantine
    <2>1. hist' = hist
        BY <1>11 DEF Quarantine, Abort, diskVars
    <2> QED
        BY <1>11, <2>1, QuarantineKeeps DEF DurableExact
<1>12. CASE Poll
    BY <1>12 DEF Poll, Abort, diskVars, DurableExact
<1>13. CASE PollNothing
    BY <1>13 DEF PollNothing, diskVars, DurableExact
<1>14. CASE PublishBatch
    BY <1>14 DEF PublishBatch, Abort, diskVars, DurableExact
<1>15. CASE ServiceAcks
    BY <1>15 DEF ServiceAcks, Abort, diskVars, DurableExact
<1>16. ASSUME NEW s \in Msgs, Confirm(s)
      PROVE  DurableExact'
    BY <1>16 DEF Confirm, diskVars, DurableExact
<1>17. CASE ForceCheckpoint
    BY <1>17 DEF ForceCheckpoint, BeginCheckpoint, Abort, diskVars,
       DurableExact
<1>18. CASE RequestCheckpoint
    BY <1>18 DEF RequestCheckpoint, diskVars, DurableExact
<1>19. CASE TakeCommand
    BY <1>19 DEF TakeCommand, BeginCheckpoint, Abort, diskVars, DurableExact
<1>20. CASE DropCommand
    BY <1>20 DEF DropCommand, diskVars, DurableExact
<1>21. ASSUME NEW w \in workers, SendBarrier(w)
      PROVE  DurableExact'
    BY <1>21 DEF SendBarrier, diskVars, DurableExact
<1>22. ASSUME NEW w \in workers, Expire(w)
      PROVE  DurableExact'
    BY <1>22 DEF Expire, diskVars, DurableExact
<1>23. ASSUME NEW w \in workers, CancelWorker(w)
      PROVE  DurableExact'
    BY <1>23 DEF CancelWorker, diskVars, DurableExact
<1>24. ASSUME NEW w \in workers, Commit(w)
      PROVE  DurableExact'
    <2>0. /\ Behind(w) /\ w \in Worker /\ w.st = "aligned" /\ captured' = captured
          /\ Attempting
        BY <1>24, <1>0 DEF Commit, Behind, Resting
    <2>1. CASE hist' = hist
        BY <2>0, <2>1 DEF DurableExact
    <2>2. CASE hist' = Stored(w)
        <3>1. \A i \in DOMAIN hist' : \/ hist'[i].cut = w.cut /\ hist'[i].rows = w.rows
                                      \/ \E j \in DOMAIN hist : hist'[i] = hist[j]
            BY <1>0, <2>0, <2>2, StoredHistory DEF Cuts
        <3>2. Span(w.rows, 0, w.cut)
            BY <2>0 DEF Aligned
        <3>3. \A s \in Poison : s <= w.cut => captured[s] >= 1
            <4>1. /\ w.cut <= ledger.published /\ w.cut \in Nat /\ Poison \subseteq Nat
                  /\ \A s \in Poison : s <= ledger.published => captured[s] >= 1
                BY <2>0, JetStreamAssumption DEF Gate, CaughtUp, Caught, Worker
            <4> QED
                BY <1>0, <4>1
        <3> QED
            BY <2>0, <3>1, <3>2, <3>3 DEF DurableExact
    <2> QED
        BY <1>24, <2>1, <2>2 DEF Commit
<1>25. ASSUME NEW w \in workers, Finish(w)
      PROVE  DurableExact'
    BY <1>25 DEF Finish, diskVars, DurableExact
<1>26. ASSUME NEW w \in workers, JoinReturned(w)
      PROVE  DurableExact'
    BY <1>26 DEF JoinReturned, Abort, diskVars, DurableExact
<1>27. ASSUME NEW w \in workers, JoinFailed(w)
      PROVE  DurableExact'
    BY <1>27 DEF JoinFailed, Abort, diskVars, DurableExact
<1>28. CASE Apply
    BY <1>28 DEF Apply, diskVars, DurableExact
<1>29. CASE JobFails
    BY <1>29 DEF JobFails, Abort, diskVars, DurableExact
<1>30. CASE Crash
    BY <1>30 DEF Crash, Forget, diskVars, DurableExact
<1>31. CASE Close
    BY <1>31 DEF Close, Forget, diskVars, DurableExact
<1>32. CASE DropFrame
    BY <1>32 DEF DropFrame, diskVars, DurableExact
<1>33. CASE Evict
    BY <1>33 DEF Evict, diskVars, DurableExact
<1>34. CASE Damage
    <2>1. captured' = captured
        BY <1>34 DEF Damage
    <2> QED
        BY <1>34, <1>0, <2>1, DamageHistory DEF DurableExact
<1>35. ASSUME NEW s \in Poison, Purge(s)
      PROVE  DurableExact'
    BY <1>35 DEF Purge, DurableExact
<1>36. CASE UNCHANGED vars
    BY <1>36 DEF vars, diskVars, DurableExact
<1> QED
    BY <1>1, <1>2, <1>3, <1>4, <1>5, <1>6, <1>7, <1>8, <1>9, <1>10, <1>11,
       <1>12, <1>13, <1>14, <1>15, <1>16, <1>17, <1>18, <1>19, <1>20, <1>21,
       <1>22, <1>23, <1>24, <1>25, <1>26, <1>27, <1>28, <1>29, <1>30, <1>31,
       <1>32, <1>33, <1>34, <1>35, <1>36 DEF Next, Opening, Input,
       Checkpointing, Ending, Environment

\* The batches of the inbox, typed.
LEMMA BatchTypes ==
    ASSUME inbox \in Seq(Batch)
    PROVE  \A i \in 1..Len(inbox) : inbox[i].barrier \in Nat /\ inbox[i].rows \in Seq(Nat)
<1>1. \A i \in 1..Len(inbox) : inbox[i] \in Batch
    OBVIOUS
<1> QED
    BY <1>1 DEF Batch

-----------------------------------------------------------------------------
(* The inbox.                                                              *)

\* The workers serve the same barriers when those that changed wait for none.
LEMMA PlacedKept ==
    ASSUME TypeOK, Placed, Attempting, inbox' = inbox, applied' = applied,
           ledger'.published = ledger.published, nextId' \in Nat, nextId <= nextId',
           \A v \in workers' : \/ v \in workers \/ v.st \notin {"sending", "aligning"}
                               \/ v.id = nextId
    PROVE  Placed'
<1>0. inbox \in Seq(Batch) /\ nextId \in Nat
    BY TypeParts DEF JobTyped, CutTyped
<1>1. PICK pos \in [0..Len(inbox) -> Nat] : Places(pos)
    BY DEF Placed
<1>2. \A i \in 1..Len(inbox) : inbox[i].barrier \in Nat
    BY <1>0, BatchTypes
<1>3. ASSUME NEW i \in 1..Len(inbox)
      PROVE  /\ inbox[i].barrier < nextId'
             /\ \A v \in workers' : Serves(v, inbox[i].barrier, pos[i])
    <2>1. inbox[i].barrier < nextId
        BY <1>1 DEF Places
    <2>2. inbox[i].barrier < nextId' /\ inbox[i].barrier # nextId
        BY <1>0, <1>2, <2>1
    <2> QED
        BY <1>1, <2>2 DEF Places, Serves
<1>4. Places(pos)'
    BY <1>1, <1>3 DEF Places
<1> QED
    BY <1>4 DEF Placed

\* A batch that is sent stands behind the others.
LEMMA PlacedAppend ==
    ASSUME TypeOK, NEW e \in Batch, inbox' = Append(inbox, e), applied' = applied,
           nextId' = nextId, NEW pos \in [0..Len(inbox) -> Nat], Places(pos),
           ledger'.published \in Nat, pos[Len(inbox)] <= ledger'.published,
           Span(e.rows, pos[Len(inbox)], ledger'.published),
           e.barrier # None => e.rows = <<>>, e.barrier < nextId,
           \A v \in workers' :
              /\ \A i \in 1..Len(inbox) : Serves(v, inbox[i].barrier, pos[i])
              /\ Serves(v, e.barrier, ledger'.published)
    PROVE  Placed'
<1>0. /\ inbox \in Seq(Batch) /\ Len(inbox) \in Nat /\ Len(inbox') = Len(inbox) + 1
      /\ \A i \in 1..Len(inbox) : inbox'[i] = inbox[i]
      /\ inbox'[Len(inbox) + 1] = e
    BY TypeParts DEF JobTyped
<1>1. PICK p \in [0..Len(inbox') -> Nat] :
         /\ p[Len(inbox')] = ledger'.published /\ p[Len(inbox) + 1] = ledger'.published
         /\ \A i \in 0..Len(inbox) : p[i] = pos[i]
    <2> DEFINE q == [i \in 0..Len(inbox) + 1 |->
                       IF i \in 0..Len(inbox) THEN pos[i] ELSE ledger'.published]
    <2>1. /\ q \in [0..Len(inbox') -> Nat] /\ q[Len(inbox')] = ledger'.published
          /\ \A i \in 0..Len(inbox) : q[i] = pos[i]
          /\ q[Len(inbox) + 1] = ledger'.published
        BY <1>0
    <2> HIDE DEF q
    <2> QED
        BY <2>1
<1>2. Span(<<>>, p[Len(inbox')], ledger'.published) /\ p[Len(inbox')] <= ledger'.published
    BY <1>1, SpanNothing
<1>3. Span(applied', 0, p[0])
    BY <1>0, <1>1 DEF Places
<1>4. ASSUME NEW i \in 1..Len(inbox')
      PROVE  /\ p[i - 1] <= p[i] /\ Span(inbox'[i].rows, p[i - 1], p[i])
             /\ inbox'[i].barrier # None => inbox'[i].rows = <<>>
             /\ inbox'[i].barrier < nextId'
             /\ \A v \in workers' : Serves(v, inbox'[i].barrier, p[i])
    <2>1. CASE i \in 1..Len(inbox)
        <3>1. i \in 0..Len(inbox) /\ i - 1 \in 0..Len(inbox)
            BY <1>0, <2>1
        <3>2. inbox'[i] = inbox[i] /\ p[i] = pos[i] /\ p[i - 1] = pos[i - 1]
            BY <1>0, <1>1, <2>1, <3>1
        <3> QED
            BY <2>1, <3>2 DEF Places
    <2>2. CASE i = Len(inbox) + 1
        <3>1. inbox'[i] = e /\ p[i] = ledger'.published /\ p[i - 1] = pos[Len(inbox)]
            BY <1>0, <1>1, <2>2
        <3> QED
            BY <3>1
    <2> QED
        BY <1>0, <2>1, <2>2
<1>5. Places(p)'
    BY <1>2, <1>3, <1>4 DEF Places
<1> QED
    BY <1>1, <1>5 DEF Placed

\* A batch that is applied moves the job to where it stands, and the worker that
\* its barrier aligns cut there.
LEMMA AppliedRows ==
    ASSUME TypeOK, Placed, Gate, Apply
    PROVE  /\ Placed'
           /\ \A v \in workers' : \/ v \in workers
                                  \/ v.rows = applied /\ Span(applied, 0, v.cut)
<1>0. /\ inbox \in Seq(Batch) /\ inbox # <<>> /\ applied \in Seq(Nat)
      /\ inbox' = Tail(inbox) /\ applied' = applied \o Head(inbox).rows
      /\ Attempting /\ ledger' = ledger /\ nextId' = nextId
    BY TypeParts DEF Apply, JobTyped, Attempting, readerVars
<1>1. /\ Len(inbox) \in Nat \ {0} /\ Head(inbox) = inbox[1]
      /\ Tail(inbox) \in Seq(Batch) /\ Len(Tail(inbox)) = Len(inbox) - 1
      /\ \A i \in 1..Len(inbox) - 1 : Tail(inbox)[i] = inbox[i + 1]
    BY <1>0
<1>2. PICK pos \in [0..Len(inbox) -> Nat] : Places(pos)
    BY <1>0 DEF Placed
<1>3. /\ 0 \in 0..Len(inbox) /\ 1 \in 0..Len(inbox) /\ 1 \in 1..Len(inbox)
      /\ pos[0] \in Nat /\ pos[1] \in Nat /\ inbox[1].rows \in Seq(Nat)
    <2>1. 0 \in 0..Len(inbox) /\ 1 \in 0..Len(inbox) /\ 1 \in 1..Len(inbox)
        BY <1>1
    <2> QED
        BY <1>0, <1>2, <2>1, BatchTypes
<1>4. /\ Span(applied, 0, pos[0]) /\ pos[0] <= pos[1] /\ Span(inbox[1].rows, pos[0], pos[1])
      /\ inbox[1].barrier # None => inbox[1].rows = <<>>
      /\ \A w \in workers : Serves(w, inbox[1].barrier, pos[1])
    <2>1. 1 - 1 = 0
        OBVIOUS
    <2> QED
        BY <1>2, <1>3, <2>1 DEF Places
<1>5. Span(applied \o inbox[1].rows, 0, pos[1])
    BY <1>0, <1>3, <1>4, SpanJoin
<1>6. \A v \in workers' : \/ v \in workers
                          \/ v.rows = applied /\ Span(applied, 0, v.cut)
    <2> SUFFICES ASSUME NEW v \in workers', v \notin workers
                 PROVE  v.rows = applied /\ Span(applied, 0, v.cut)
        OBVIOUS
    <2>1. PICK u \in workers : /\ u.id = inbox[1].barrier /\ u.st = "aligning"
                               /\ v.cut = u.cut /\ v.rows = applied
        <3>1. Head(inbox) = inbox[1]
            BY <1>0, <1>1
        <3>2. \E u \in workers : /\ u.id = Head(inbox).barrier /\ u.st = "aligning"
                                 /\ v.cut = u.cut /\ v.rows = applied
            BY ApplyWorkers
        <3> QED
            BY <3>1, <3>2
    <2>2. u.cut = pos[1] /\ u.id # 0
        BY <1>4, <2>1 DEF Serves, Gate
    <2>3. inbox[1].rows = <<>>
        BY <1>4, <2>1, <2>2 DEF None
    <2>4. applied \o inbox[1].rows = applied
        BY <1>0, <2>3
    <2> QED
        BY <1>5, <2>1, <2>2, <2>4
<1>7. PICK p \in [0..Len(inbox') -> Nat] :
         /\ p[Len(inbox')] = pos[Len(inbox)] /\ p[0] = pos[1]
         /\ \A i \in 0..Len(inbox') : p[i] = pos[i + 1]
    <2> DEFINE q == [i \in 0..Len(inbox) - 1 |-> pos[i + 1]]
    <2>1. /\ q \in [0..Len(inbox') -> Nat] /\ q[Len(inbox')] = pos[Len(inbox)]
          /\ \A i \in 0..Len(inbox') : q[i] = pos[i + 1]
          /\ q[0] = pos[1]
        BY <1>0, <1>1
    <2> HIDE DEF q
    <2> QED
        BY <2>1
<1>8. ASSUME NEW i \in 1..Len(inbox')
      PROVE  /\ p[i - 1] <= p[i] /\ Span(inbox'[i].rows, p[i - 1], p[i])
             /\ inbox'[i].barrier # None => inbox'[i].rows = <<>>
             /\ inbox'[i].barrier < nextId'
             /\ \A v \in workers' : Serves(v, inbox'[i].barrier, p[i])
    <2>1. /\ i + 1 \in 1..Len(inbox) /\ inbox'[i] = inbox[i + 1] /\ p[i] = pos[i + 1]
          /\ p[i - 1] = pos[(i + 1) - 1]
        BY <1>0, <1>1, <1>7
    <2>2. \A v \in workers' : v \in workers \/ v.st = "aligned"
        BY ApplyWorkers
    <2>3. \A v \in workers' : Serves(v, inbox[i + 1].barrier, pos[i + 1])
        BY <1>2, <2>1, <2>2 DEF Places, Serves
    <2> QED
        BY <1>0, <1>2, <2>1, <2>3 DEF Places
<1>9. Places(p)'
    BY <1>0, <1>1, <1>2, <1>5, <1>7, <1>8 DEF Places
<1> QED
    BY <1>6, <1>7, <1>9 DEF Placed

\* No rows lie in an empty stretch.
LEMMA SpanEmpty ==
    ASSUME NEW a \in Nat, NEW r \in Seq(Nat), Span(r, a, a)
    PROVE  r = <<>>
<1>1. Range(r) = {}
    BY DEF Span
<1>2. DOMAIN r = 1..Len(r) /\ Len(r) \in Nat
    OBVIOUS
<1>3. ~(1 \in DOMAIN r)
    BY <1>1 DEF Range
<1>4. Len(r) = 0
    BY <1>2, <1>3
<1> QED
    BY <1>4

\* Every batch in the inbox stands where the next one begins.
LEMMA PlacedStep ==
    TypeOK /\ Resting /\ Gate /\ Building /\ Placed /\ DurableExact
      /\ [Next]_vars => Placed'
<1> SUFFICES ASSUME TypeOK, Resting, Gate, Building, Placed, DurableExact, [Next]_vars
             PROVE  Placed'
    OBVIOUS
<1>0. /\ hist \in Seq(Generation) /\ LedgerOK(ledger) /\ ledger.published \in Nat
      /\ build.first \in Nat /\ build.last \in Nat /\ build.rows \in Seq(Nat)
      /\ inbox \in Seq(Batch) /\ Len(inbox) \in Nat /\ nextId \in Nat /\ workers \subseteq Worker
    BY TypeParts, LedgerFields DEF DiskTyped, ReaderTyped, BuildTyped, Build, JobTyped,
       CutTyped
<1>1. CASE Open
    BY <1>1 DEF Open, Placed, Attempting
<1>2. CASE DeleteOld
    BY <1>2 DEF DeleteOld, Placed, Attempting
<1>3. CASE Bind
    BY <1>3 DEF Bind, Placed, Attempting
<1>4. CASE Create
    <2>1. CASE ~CheckStart(Restored.cut)
        BY <1>4, <2>1 DEF Create, Placed, Attempting
    <2>2. CASE CheckStart(Restored.cut)
        <3>1. /\ ledger' = NewLedger(Restored.cut) /\ applied' = Restored.rows
              /\ inbox' = <<>> /\ (hist = <<>> \/ Readable # {})
            BY <1>4, <2>2 DEF Create, Resting, Attempting
        <3>2. Restored.cut \in Nat /\ Span(Restored.rows, 0, Restored.cut)
            BY <1>0, <3>1, RestoredTyped, RestoredRows
        <3>3. ledger'.published = Restored.cut
            BY <3>1, <3>2, FreshTyped
        <3>4. PICK p \in [0..Len(inbox') -> Nat] : p[0] = Restored.cut /\ Len(inbox') = 0
            <4> DEFINE q == [i \in 0..0 |-> Restored.cut]
            <4>1. q \in [0..0 -> Nat] /\ q[0] = Restored.cut
                BY <3>2
            <4>2. Len(inbox') = 0
                BY <3>1
            <4> HIDE DEF q
            <4> QED
                BY <4>1, <4>2
        <3>5. Span(<<>>, Restored.cut, Restored.cut)
            BY <3>2, SpanNothing
        <3>6. Places(p)'
            BY <3>1, <3>2, <3>3, <3>4, <3>5 DEF Places
        <3> QED
            BY <3>4, <3>6 DEF Placed
    <2> QED
        BY <2>1, <2>2
<1>5. CASE CreateFails
    BY <1>5 DEF CreateFails, Placed, Attempting
<1>6. CASE PreparePull
    <2>1. /\ Attempting /\ inbox' = inbox /\ applied' = applied
          /\ ledger'.published = ledger.published /\ nextId' = nextId /\ workers' = workers
        BY <1>6, <1>0 DEF PreparePull, MayRead, Running, Fault, diskVars, buildVars,
               cutVars, jobVars, Attempting
    <2> QED
        BY <1>0, <2>1, PlacedKept
<1>7. CASE ReadFrame
    <2>1. CASE ObserveFails(Head(wire))
        <3>1. /\ Attempting /\ inbox' = inbox /\ applied' = applied /\ ledger' = ledger
              /\ nextId' = nextId /\ workers' = workers
            BY <1>7, <2>1 DEF ReadFrame, MayRead, Running, Abort, readerVars, cutVars,
                   jobVars, Attempting
        <3> QED
            BY <1>0, <3>1, PlacedKept
    <2>2. CASE ~(ObserveFails(Head(wire)))
        <3>1. /\ Attempting /\ inbox' = inbox /\ applied' = applied /\ wire # <<>>
              /\ nextId' = nextId /\ workers' = workers /\ ledger' = Observed(Head(wire))
            BY <1>7, <2>2 DEF ReadFrame, MayRead, Running, inputFrame, cutVars,
                   jobVars, Attempting
        <3>2. ledger'.published = ledger.published
            BY <2>2, <3>1, ReadPositions
        <3> QED
            BY <1>0, <3>1, <3>2, PlacedKept
    <2> QED
        BY <2>1, <2>2
<1>8. CASE ReadDeferred
    <2>1. /\ Attempting /\ inbox' = inbox /\ applied' = applied
          /\ ledger'.published = ledger.published /\ nextId' = nextId /\ workers' = workers
        BY <1>8, <1>0 DEF ReadDeferred, MayRead, Running, inputFrame, brokerVars,
               cutVars, jobVars, boundVars, diskVars, readerVars, Attempting
    <2> QED
        BY <1>0, <2>1, PlacedKept
<1>9. CASE EndPull
    <2>1. /\ Attempting /\ inbox' = inbox /\ applied' = applied
          /\ ledger'.published = ledger.published /\ nextId' = nextId /\ workers' = workers
        BY <1>9, <1>0 DEF EndPull, MayRead, Running, inputFrame, brokerVars, cutVars,
               jobVars, boundVars, diskVars, buildVars, Attempting
    <2> QED
        BY <1>0, <2>1, PlacedKept
<1>10. CASE DecodeRow
    <2>1. /\ Attempting /\ inbox' = inbox /\ applied' = applied
          /\ ledger'.published = ledger.published /\ nextId' = nextId /\ workers' = workers
        BY <1>10, <1>0 DEF DecodeRow, inputFrame, brokerVars, cutVars, jobVars,
               boundVars, diskVars, readerVars, Attempting
    <2> QED
        BY <1>0, <2>1, PlacedKept
<1>11. CASE Quarantine
    <2>1. /\ Attempting /\ inbox' = inbox /\ applied' = applied
          /\ ledger'.published = ledger.published /\ nextId' = nextId /\ workers' = workers
        BY <1>11, <1>0 DEF Quarantine, Abort, brokerVars, diskVars, readerVars,
               buildVars, cutVars, jobVars, inputFrame, boundVars, Attempting
    <2> QED
        BY <1>0, <2>1, PlacedKept
<1>12. CASE Poll
    <2>1. CASE ObserveFails(Head(wire))
        <3>1. /\ Attempting /\ inbox' = inbox /\ applied' = applied /\ ledger' = ledger
              /\ nextId' = nextId /\ workers' = workers
            BY <1>12, <2>1 DEF Poll, MayRead, Running, Abort, readerVars, cutVars,
                   jobVars, Attempting
        <3> QED
            BY <1>0, <3>1, PlacedKept
    <2>2. CASE ~(ObserveFails(Head(wire)))
        <3>1. /\ Attempting /\ inbox' = inbox /\ applied' = applied /\ wire # <<>>
              /\ nextId' = nextId /\ workers' = workers /\ ledger' = Observed(Head(wire))
            BY <1>12, <2>2 DEF Poll, MayRead, Running, inputFrame, cutVars, jobVars,
                   Attempting
        <3>2. ledger'.published = ledger.published
            BY <2>2, <3>1, ReadPositions
        <3> QED
            BY <1>0, <3>1, <3>2, PlacedKept
    <2> QED
        BY <2>1, <2>2
<1>13. CASE PollNothing
    <2>1. /\ Attempting /\ inbox' = inbox /\ applied' = applied
          /\ ledger'.published = ledger.published /\ nextId' = nextId /\ workers' = workers
        BY <1>13, <1>0 DEF PollNothing, inputFrame, brokerVars, cutVars, jobVars,
               boundVars, diskVars, Attempting
    <2> QED
        BY <1>0, <2>1, PlacedKept
<1>14. CASE PublishBatch
    <2>1. CASE PublishFails(build.first, build.last)
        <3>1. /\ Attempting /\ inbox' = inbox /\ applied' = applied /\ ledger' = ledger
              /\ nextId' = nextId /\ workers' = workers
            BY <1>14, <2>1 DEF PublishBatch, Running, Abort, readerVars, cutVars,
                   jobVars, Attempting
        <3> QED
            BY <1>0, <3>1, PlacedKept
    <2>2. CASE ~(PublishFails(build.first, build.last))
        <3>1. /\ Attempting /\ pc = "batch" /\ applied' = applied /\ nextId' = nextId
              /\ workers' = workers
              /\ inbox' = IF build.rows = <<>> THEN inbox
                          ELSE Append(inbox, [barrier |-> None, rows |-> build.rows])
            BY <1>14, <2>2 DEF PublishBatch, cutVars, Attempting
        <3>2. /\ build.first # 0 /\ build.first <= build.last + 1
              /\ Span(build.rows, build.first - 1, build.last)
              /\ build.first \in Nat /\ build.last \in Nat /\ build.rows \in Seq(Nat)
            BY <1>0, <3>1 DEF Building
        <3>3. /\ ledger'.published = IF build.first <= build.last THEN build.last
                                     ELSE ledger.published
              /\ build.first <= build.last => build.first = ledger.published + 1
              /\ ledger.published <= ledger'.published /\ ledger'.published \in Nat
            BY <1>14, <2>2, PublishPositions
        <3>4. Span(build.rows, ledger.published, ledger'.published)
            <4>1. CASE build.first <= build.last
                <5>1. build.first - 1 = ledger.published /\ ledger'.published = build.last
                    <6>1. ledger.published \in Nat
                        BY <1>0, LedgerFields DEF ReaderTyped
                    <6>2. /\ build.first = ledger.published + 1
                          /\ ledger'.published = build.last
                        BY <3>3, <4>1
                    <6> QED
                        BY <6>1, <6>2
                <5> QED
                    BY <3>2, <5>1
            <4>2. CASE ~(build.first <= build.last)
                <5>1. build.first - 1 = build.last /\ ledger'.published = ledger.published
                    BY <3>2, <3>3, <4>2
                <5>2. build.rows = <<>>
                    BY <3>2, <5>1, SpanEmpty
                <5> QED
                    BY <1>0, <5>1, <5>2, SpanNothing
            <4> QED
                BY <4>1, <4>2
        <3>5. PICK pos \in [0..Len(inbox) -> Nat] : Places(pos)
            BY <3>1 DEF Placed
        <3>6. /\ pos[Len(inbox)] \in Nat /\ pos[Len(inbox)] <= ledger.published
              /\ Span(<<>>, pos[Len(inbox)], ledger.published)
            BY <1>0, <3>5 DEF Places
        <3>7. /\ Span(build.rows, pos[Len(inbox)], ledger'.published)
              /\ pos[Len(inbox)] <= ledger'.published
            <4>0. <<>> \in Seq(Nat)
                OBVIOUS
            <4>1. Span(<<>> \o build.rows, pos[Len(inbox)], ledger'.published)
                BY <1>0, <3>2, <3>3, <3>4, <3>6, <4>0, SpanJoin
            <4>2. <<>> \o build.rows = build.rows
                BY <3>2
            <4> QED
                BY <1>0, <3>3, <3>6, <4>1, <4>2
        <3>8. CASE build.rows = <<>>
            <4>1. inbox' = inbox
                BY <3>1, <3>8
            <4>2. Places(pos)'
                BY <3>1, <3>5, <3>7, <3>8, <4>1 DEF Places
            <4> QED
                BY <4>1, <4>2 DEF Placed
        <3>9. CASE build.rows # <<>>
            <4> DEFINE e == [barrier |-> None, rows |-> build.rows]
            <4>1. e \in Batch /\ e.barrier = 0 /\ e.rows = build.rows
                BY <3>2 DEF Batch, None
            <4>2. inbox' = Append(inbox, e)
                BY <3>1, <3>9
            <4> HIDE DEF e
            <4>3. \A v \in workers' :
                     /\ \A i \in 1..Len(inbox) : Serves(v, inbox[i].barrier, pos[i])
                     /\ Serves(v, e.barrier, ledger'.published)
                BY <3>1, <3>5, <4>1 DEF Places, Serves, Gate
            <4>4. e.barrier < nextId /\ (e.barrier # None => e.rows = <<>>)
                BY <1>0, <4>1 DEF Gate, None
            <4> QED
                BY <3>1, <3>3, <3>5, <3>7, <4>1, <4>2, <4>3, <4>4, PlacedAppend
        <3> QED
            BY <3>8, <3>9
    <2> QED
        BY <2>1, <2>2
<1>15. CASE ServiceAcks
    <2>1. CASE AckFailed
        <3>1. /\ Attempting /\ inbox' = inbox /\ applied' = applied /\ ledger' = ledger
              /\ nextId' = nextId /\ workers' = workers
            BY <1>15, <2>1 DEF ServiceAcks, Running, Abort, readerVars, cutVars,
                   jobVars, Attempting
        <3> QED
            BY <1>0, <3>1, PlacedKept
    <2>2. CASE ~(AckFailed)
        <3>1. /\ Attempting /\ inbox' = inbox /\ applied' = applied
              /\ nextId' = nextId /\ workers' = workers
            BY <1>15, <2>2 DEF ServiceAcks, Running, cutVars, jobVars, Attempting
        <3> QED
            BY <1>15, <1>0, <2>2, <3>1, ServicePositions, PlacedKept
    <2> QED
        BY <2>1, <2>2
<1>16. ASSUME NEW s \in Msgs, Confirm(s)
      PROVE  Placed'
    <2>1. /\ Attempting /\ inbox' = inbox /\ applied' = applied
          /\ ledger'.published = ledger.published /\ nextId' = nextId /\ workers' = workers
        BY <1>16, <1>0, ConfirmEffect DEF Confirm, Fault, diskVars, buildVars, cutVars,
               jobVars, Attempting
    <2> QED
        BY <1>0, <2>1, PlacedKept
<1>17. CASE ForceCheckpoint
    <2>1. CASE ~Verified
        <3>1. /\ Attempting /\ inbox' = inbox /\ applied' = applied /\ ledger' = ledger
              /\ nextId' = nextId /\ workers' = workers
            BY <1>17, <2>1 DEF ForceCheckpoint, BeginCheckpoint, Running, Abort,
                   readerVars, cutVars, jobVars, Attempting
        <3> QED
            BY <1>0, <3>1, PlacedKept
    <2>2. CASE ~(~Verified)
        <3>1. /\ Attempting /\ inbox' = inbox /\ applied' = applied /\ ledger' = ledger
              /\ nextId' = nextId + 1 /\ BeginCheckpoint /\ Verified
            BY <1>17, <2>2 DEF ForceCheckpoint, Running, BeginCheckpoint, readerVars,
                   jobVars, Attempting
        <3>2. \A v \in workers' : v \in workers \/ v.id = nextId
            BY <3>1, BeginWorkers
        <3> QED
            BY <1>0, <3>1, <3>2, PlacedKept
    <2> QED
        BY <2>1, <2>2
<1>18. CASE RequestCheckpoint
    <2>1. /\ Attempting /\ inbox' = inbox /\ applied' = applied
          /\ ledger'.published = ledger.published /\ nextId' = nextId /\ workers' = workers
        BY <1>18, <1>0 DEF RequestCheckpoint, brokerVars, diskVars, readerVars,
               buildVars, jobVars, Attempting
    <2> QED
        BY <1>0, <2>1, PlacedKept
<1>19. CASE TakeCommand
    <2>1. CASE ~Verified
        <3>1. /\ Attempting /\ inbox' = inbox /\ applied' = applied /\ ledger' = ledger
              /\ nextId' = nextId /\ workers' = workers
            BY <1>19, <2>1 DEF TakeCommand, BeginCheckpoint, Running, Abort,
                   readerVars, cutVars, jobVars, Attempting
        <3> QED
            BY <1>0, <3>1, PlacedKept
    <2>2. CASE ~(~Verified)
        <3>1. /\ Attempting /\ inbox' = inbox /\ applied' = applied /\ ledger' = ledger
              /\ nextId' = nextId + 1 /\ BeginCheckpoint /\ Verified
            BY <1>19, <2>2 DEF TakeCommand, Running, BeginCheckpoint, readerVars,
                   jobVars, Attempting
        <3>2. \A v \in workers' : v \in workers \/ v.id = nextId
            BY <3>1, BeginWorkers
        <3> QED
            BY <1>0, <3>1, <3>2, PlacedKept
    <2> QED
        BY <2>1, <2>2
<1>20. CASE DropCommand
    <2>1. /\ Attempting /\ inbox' = inbox /\ applied' = applied
          /\ ledger'.published = ledger.published /\ nextId' = nextId /\ workers' = workers
        BY <1>20, <1>0 DEF DropCommand, Running, brokerVars, diskVars, readerVars,
               buildVars, jobVars, boundVars, Attempting
    <2> QED
        BY <1>0, <2>1, PlacedKept
<1>21. ASSUME NEW w \in workers, SendBarrier(w)
      PROVE  Placed'
    <2>0. /\ Attempting /\ applied' = applied /\ ledger' = ledger /\ nextId' = nextId
          /\ w.st = "sending"
        BY <1>21 DEF SendBarrier, readerVars, Attempting
    <2>1. CASE inbox' = inbox /\ Move(w, "expired")
        <3>1. \A v \in workers' : v \in workers \/ v.st \notin {"sending", "aligning"}
            BY <1>0, <2>1, MoveTyped DEF States
        <3> QED
            BY <1>0, <2>0, <2>1, <3>1, PlacedKept
    <2>2. CASE inbox' = Append(inbox, [barrier |-> w.id, rows |-> <<>>]) /\ Move(w, "aligning")
        <3> DEFINE e == [barrier |-> w.id, rows |-> <<>>]
        <3>1. e \in Batch /\ e.barrier = w.id /\ e.rows = <<>> /\ e.barrier < nextId
            BY WorkerTypes DEF Batch, Gate
        <3>2. inbox' = Append(inbox, e)
            BY <2>2
        <3> HIDE DEF e
        <3>3. PICK pos \in [0..Len(inbox) -> Nat] : Places(pos)
            BY <2>0 DEF Placed
        <3>4. /\ pos[Len(inbox)] <= ledger'.published /\ ledger'.published \in Nat
              /\ Span(e.rows, pos[Len(inbox)], ledger'.published)
            BY <1>0, <2>0, <3>1, <3>3 DEF Places
        <3>5. \A v \in workers' : \/ v \in workers /\ v # w
                                  \/ v.id = w.id /\ v.cut = w.cut /\ v.st = "aligning"
            BY <1>0, <2>2, MoveTyped DEF States
        <3>6. ASSUME NEW v \in workers', NEW i \in 1..Len(inbox)
              PROVE  Serves(v, inbox[i].barrier, pos[i])
            BY <2>0, <3>3, <3>5 DEF Places, Serves
        <3>7. ASSUME NEW v \in workers'
              PROVE  Serves(v, e.barrier, ledger'.published)
            BY <2>0, <3>1, <3>5 DEF Serves, Gate, AtGate
        <3> QED
            BY <2>0, <3>1, <3>2, <3>3, <3>4, <3>6, <3>7, PlacedAppend
    <2> QED
        BY <1>21, <2>1, <2>2 DEF SendBarrier
<1>22. ASSUME NEW w \in workers, Expire(w)
      PROVE  Placed'
    <2>1. PICK st \in {"expired"} : Move(w, st)
        BY <1>22 DEF Expire
    <2>2. /\ Attempting /\ inbox' = inbox /\ applied' = applied /\ ledger' = ledger
          /\ nextId' = nextId
        BY <1>22 DEF Expire, workerFrame, readerVars, jobVars, Resting
    <2>3. \A v \in workers' : v \in workers \/ v.st \notin {"sending", "aligning"}
        BY <1>0, <2>1, MoveTyped DEF States
    <2> QED
        BY <1>0, <2>2, <2>3, PlacedKept
<1>23. ASSUME NEW w \in workers, CancelWorker(w)
      PROVE  Placed'
    <2>1. PICK st \in {"error"} : Move(w, st)
        BY <1>23 DEF CancelWorker
    <2>2. /\ Attempting /\ inbox' = inbox /\ applied' = applied /\ ledger' = ledger
          /\ nextId' = nextId
        BY <1>23 DEF CancelWorker, workerFrame, readerVars, jobVars, Resting
    <2>3. \A v \in workers' : v \in workers \/ v.st \notin {"sending", "aligning"}
        BY <1>0, <2>1, MoveTyped DEF States
    <2> QED
        BY <1>0, <2>2, <2>3, PlacedKept
<1>24. ASSUME NEW w \in workers, Commit(w)
      PROVE  Placed'
    <2>1. PICK st \in {"durable", "error"} : Move(w, st)
        BY <1>24 DEF Commit
    <2>2. /\ Attempting /\ inbox' = inbox /\ applied' = applied /\ ledger' = ledger
          /\ nextId' = nextId
        BY <1>24 DEF Commit, workerFrame, readerVars, jobVars, Resting
    <2>3. \A v \in workers' : v \in workers \/ v.st \notin {"sending", "aligning"}
        BY <1>0, <2>1, MoveTyped DEF States
    <2> QED
        BY <1>0, <2>2, <2>3, PlacedKept
<1>25. ASSUME NEW w \in workers, Finish(w)
      PROVE  Placed'
    <2>1. PICK st \in {"finished", "returned"} : Move(w, st)
        BY <1>25 DEF Finish
    <2>2. /\ Attempting /\ inbox' = inbox /\ applied' = applied /\ ledger' = ledger
          /\ nextId' = nextId
        BY <1>25 DEF Finish, workerFrame, readerVars, jobVars, Resting
    <2>3. \A v \in workers' : v \in workers \/ v.st \notin {"sending", "aligning"}
        BY <1>0, <2>1, MoveTyped DEF States
    <2> QED
        BY <1>0, <2>2, <2>3, PlacedKept
<1>26. ASSUME NEW w \in workers, JoinReturned(w)
      PROVE  Placed'
    <2>1. CASE CutRefused(w.cut) \/ AckFailed
        <3>1. /\ Attempting /\ inbox' = inbox /\ applied' = applied /\ ledger' = ledger
              /\ nextId' = nextId /\ workers' = workers
            BY <1>26, <2>1 DEF JoinReturned, Running, Abort, readerVars, cutVars,
                   jobVars, Attempting
        <3> QED
            BY <1>0, <3>1, PlacedKept
    <2>2. CASE ~(CutRefused(w.cut) \/ AckFailed)
        <3>1. /\ Attempting /\ inbox' = inbox /\ applied' = applied
              /\ nextId' = nextId /\ workers' \subseteq workers
            BY <1>26, <2>2 DEF JoinReturned, Running, jobVars, Attempting
        <3> QED
            BY <1>26, <1>0, <2>2, <3>1, JoinPositions, PlacedKept
    <2> QED
        BY <2>1, <2>2
<1>27. ASSUME NEW w \in workers, JoinFailed(w)
      PROVE  Placed'
    <2>1. /\ Attempting /\ inbox' = inbox /\ applied' = applied /\ ledger' = ledger
          /\ nextId' = nextId /\ workers' \subseteq workers
        BY <1>27 DEF JoinFailed, Running, Abort, workerFrame, readerVars, cutVars, jobVars,
           Attempting
    <2> QED
        BY <1>0, <2>1, PlacedKept
<1>28. CASE Apply
    BY <1>28, AppliedRows
<1>29. CASE JobFails
    <2>1. /\ Attempting /\ inbox' = inbox /\ applied' = applied
          /\ ledger'.published = ledger.published /\ nextId' = nextId /\ workers' = workers
        BY <1>29, <1>0 DEF JobFails, Fault, Abort, brokerVars, diskVars, readerVars,
               buildVars, cutVars, jobVars, Attempting
    <2> QED
        BY <1>0, <2>1, PlacedKept
<1>30. CASE Crash
    BY <1>30 DEF Crash, Forget, Placed, Attempting
<1>31. CASE Close
    BY <1>31 DEF Close, Forget, Placed, Attempting
<1>32. CASE DropFrame
    <2>1. /\ phase' = phase /\ inbox' = inbox /\ applied' = applied
          /\ ledger'.published = ledger.published /\ nextId' = nextId /\ workers' = workers
        BY <1>32 DEF DropFrame, Fault, brokerVars, diskVars, buildVars, cutVars, jobVars
    <2> QED
        BY <1>0, <2>1, PlacedKept DEF Placed, Attempting
<1>33. CASE Evict
    <2>1. /\ phase' = phase /\ inbox' = inbox /\ applied' = applied
          /\ ledger'.published = ledger.published /\ nextId' = nextId /\ workers' = workers
        BY <1>33 DEF Evict, Fault, diskVars, idleVars, readerVars, buildVars, cutVars,
               jobVars
    <2> QED
        BY <1>0, <2>1, PlacedKept DEF Placed, Attempting
<1>34. CASE Damage
    BY <1>34 DEF Damage, idleVars, Placed, Attempting
<1>35. ASSUME NEW s \in Poison, Purge(s)
      PROVE  Placed'
    BY <1>35 DEF Purge, idleVars, Placed, Attempting
<1>36. CASE UNCHANGED vars
    BY <1>36 DEF vars, readerVars, cutVars, jobVars, Placed, Places,
       Attempting
<1> QED
    BY <1>1, <1>2, <1>3, <1>4, <1>5, <1>6, <1>7, <1>8, <1>9, <1>10, <1>11,
       <1>12, <1>13, <1>14, <1>15, <1>16, <1>17, <1>18, <1>19, <1>20, <1>21,
       <1>22, <1>23, <1>24, <1>25, <1>26, <1>27, <1>28, <1>29, <1>30, <1>31,
       <1>32, <1>33, <1>34, <1>35, <1>36 DEF Next, Opening, Input,
       Checkpointing, Ending, Environment

\* A barrier finds the job holding the rows of the worker's cut.
LEMMA AlignedStep ==
    TypeOK /\ Gate /\ Placed /\ Aligned /\ [Next]_vars => Aligned'
<1> SUFFICES ASSUME TypeOK, Gate, Placed, Aligned, [Next]_vars
             PROVE  Aligned'
    OBVIOUS
<1>0. workers \subseteq Worker
    BY TypeParts DEF CutTyped
<1>1. CASE Open
    BY <1>1 DEF Open, opening, cutVars, Aligned
<1>2. CASE DeleteOld
    BY <1>2 DEF DeleteOld, opening, cutVars, Aligned
<1>3. CASE Bind
    BY <1>3 DEF Bind, opening, cutVars, Aligned
<1>4. CASE Create
    BY <1>4 DEF Create, Aligned
<1>5. CASE CreateFails
    BY <1>5 DEF CreateFails, opening, cutVars, Aligned
<1>6. CASE PreparePull
    BY <1>6 DEF PreparePull, cutVars, Aligned
<1>7. CASE ReadFrame
    BY <1>7 DEF ReadFrame, Abort, cutVars, inputFrame, Aligned
<1>8. CASE ReadDeferred
    BY <1>8 DEF ReadDeferred, inputFrame, cutVars, Aligned
<1>9. CASE EndPull
    BY <1>9 DEF EndPull, inputFrame, cutVars, Aligned
<1>10. CASE DecodeRow
    BY <1>10 DEF DecodeRow, inputFrame, cutVars, Aligned
<1>11. CASE Quarantine
    BY <1>11 DEF Quarantine, Abort, cutVars, inputFrame, Aligned
<1>12. CASE Poll
    BY <1>12 DEF Poll, Abort, cutVars, inputFrame, Aligned
<1>13. CASE PollNothing
    BY <1>13 DEF PollNothing, inputFrame, cutVars, Aligned
<1>14. CASE PublishBatch
    BY <1>14 DEF PublishBatch, Abort, cutVars, Aligned
<1>15. CASE ServiceAcks
    BY <1>15 DEF ServiceAcks, Abort, cutVars, Aligned
<1>16. ASSUME NEW s \in Msgs, Confirm(s)
      PROVE  Aligned'
    BY <1>16 DEF Confirm, cutVars, Aligned
<1>17. CASE ForceCheckpoint
    <2>1. \A v \in workers' : v \in workers \/ v.st = "sending"
        BY <1>17, BeginWorkers DEF ForceCheckpoint, BeginCheckpoint, Abort, cutVars
    <2> QED
        BY <2>1 DEF Aligned
<1>18. CASE RequestCheckpoint
    BY <1>18 DEF RequestCheckpoint, Aligned
<1>19. CASE TakeCommand
    <2>1. \A v \in workers' : v \in workers \/ v.st = "sending"
        BY <1>19, BeginWorkers DEF TakeCommand, BeginCheckpoint, Abort, cutVars
    <2> QED
        BY <2>1 DEF Aligned
<1>20. CASE DropCommand
    BY <1>20 DEF DropCommand, Aligned
<1>21. ASSUME NEW w \in workers, SendBarrier(w)
      PROVE  Aligned'
    <2>1. PICK st \in {"aligning", "expired"} : Move(w, st)
        BY <1>21 DEF SendBarrier
    <2>2. \A v \in workers' : v \in workers \/ v.st # "aligned"
        BY <1>0, <2>1, MoveTyped DEF States
    <2> QED
        BY <2>2 DEF Aligned
<1>22. ASSUME NEW w \in workers, Expire(w)
      PROVE  Aligned'
    <2>1. PICK st \in {"expired"} : Move(w, st)
        BY <1>22 DEF Expire
    <2>2. \A v \in workers' : v \in workers \/ v.st # "aligned"
        BY <1>0, <2>1, MoveTyped DEF States
    <2> QED
        BY <2>2 DEF Aligned
<1>23. ASSUME NEW w \in workers, CancelWorker(w)
      PROVE  Aligned'
    <2>1. PICK st \in {"error"} : Move(w, st)
        BY <1>23 DEF CancelWorker
    <2>2. \A v \in workers' : v \in workers \/ v.st # "aligned"
        BY <1>0, <2>1, MoveTyped DEF States
    <2> QED
        BY <2>2 DEF Aligned
<1>24. ASSUME NEW w \in workers, Commit(w)
      PROVE  Aligned'
    <2>1. PICK st \in {"durable", "error"} : Move(w, st)
        BY <1>24 DEF Commit
    <2>2. \A v \in workers' : v \in workers \/ v.st # "aligned"
        BY <1>0, <2>1, MoveTyped DEF States
    <2> QED
        BY <2>2 DEF Aligned
<1>25. ASSUME NEW w \in workers, Finish(w)
      PROVE  Aligned'
    <2>1. PICK st \in {"finished", "returned"} : Move(w, st)
        BY <1>25 DEF Finish
    <2>2. \A v \in workers' : v \in workers \/ v.st # "aligned"
        BY <1>0, <2>1, MoveTyped DEF States
    <2> QED
        BY <2>2 DEF Aligned
<1>26. ASSUME NEW w \in workers, JoinReturned(w)
      PROVE  Aligned'
    BY <1>26 DEF JoinReturned, Abort, cutVars, Aligned
<1>27. ASSUME NEW w \in workers, JoinFailed(w)
      PROVE  Aligned'
    BY <1>27 DEF JoinFailed, Abort, cutVars, Aligned
<1>28. CASE Apply
    BY <1>28, AppliedRows DEF Aligned
<1>29. CASE JobFails
    BY <1>29 DEF JobFails, Abort, cutVars, Aligned
<1>30. CASE Crash
    BY <1>30 DEF Crash, Forget, Aligned
<1>31. CASE Close
    BY <1>31 DEF Close, Forget, Aligned
<1>32. CASE DropFrame
    BY <1>32 DEF DropFrame, cutVars, Aligned
<1>33. CASE Evict
    BY <1>33 DEF Evict, idleVars, cutVars, Aligned
<1>34. CASE Damage
    BY <1>34 DEF Damage, idleVars, cutVars, Aligned
<1>35. ASSUME NEW s \in Poison, Purge(s)
      PROVE  Aligned'
    BY <1>35 DEF Purge, idleVars, cutVars, Aligned
<1>36. CASE UNCHANGED vars
    BY <1>36 DEF vars, cutVars, Aligned
<1> QED
    BY <1>1, <1>2, <1>3, <1>4, <1>5, <1>6, <1>7, <1>8, <1>9, <1>10, <1>11,
       <1>12, <1>13, <1>14, <1>15, <1>16, <1>17, <1>18, <1>19, <1>20, <1>21,
       <1>22, <1>23, <1>24, <1>25, <1>26, <1>27, <1>28, <1>29, <1>30, <1>31,
       <1>32, <1>33, <1>34, <1>35, <1>36 DEF Next, Opening, Input,
       Checkpointing, Ending, Environment

-----------------------------------------------------------------------------
(* The limits.                                                             *)

\* The bounds of what the source keeps: the retained generations, the input
\* DLQ, the ledger and the inbox.
StoreLimits == Len(hist) <= Retain /\ Cardinality(dlq) <= DlqEntries
FlightLimits == Cardinality(Pending) <= MaxPending /\ Len(inbox) <= InboxCap

\* prune keeps at most Retain generations (CheckpointStore::commit).
LEMMA KeepLength ==
    ASSUME NEW h \in Seq(Generation), NEW g \in Generation
    PROVE  Len(Keep(Append(h, g))) <= Retain
<1> DEFINE a == Append(h, g)
           m == IF Len(a) > Retain THEN Len(a) - Retain + 1 ELSE 1
<1>1. a \in Seq(Generation) /\ Len(a) = Len(h) + 1 /\ Len(a) \in Nat
    OBVIOUS
<1>2. m \in 1..Len(a) /\ Keep(a) = SubSeq(a, m, Len(a)) /\ Len(a) - m + 1 <= Retain
    BY <1>1, JetStreamAssumption DEF Keep
<1> HIDE DEF a, m
<1>3. Len(Keep(a)) = Len(a) - m + 1
    BY <1>1, <1>2
<1> QED
    BY <1>2, <1>3 DEF a

\* Every step keeps the store and the input DLQ within their limits.
LEMMA StoreLimitsStep == TypeOK /\ StoreLimits /\ [Next]_vars => StoreLimits'
<1> SUFFICES ASSUME TypeOK, StoreLimits, [Next]_vars
             PROVE  StoreLimits'
    OBVIOUS
<1>0. /\ hist \in Seq(Generation) /\ CutTyped /\ IsFiniteSet(dlq)
      /\ Cardinality(dlq) \in Nat /\ DlqEntries \in Nat
    <2>1. dlq \subseteq 1..NumMsgs /\ hist \in Seq(Generation) /\ CutTyped
        BY TypeParts, JetStreamAssumption DEF DiskTyped
    <2>2. IsFiniteSet(1..NumMsgs)
        BY JetStreamAssumption, FS_Interval
    <2> QED
        BY <2>1, <2>2, FS_Subset, FS_CardinalityType, JetStreamAssumption
<1>1. CASE Open
    BY <1>1 DEF Open, None, opening, diskVars, StoreLimits
<1>2. CASE DeleteOld
    BY <1>2 DEF DeleteOld, opening, diskVars, StoreLimits
<1>3. CASE Bind
    BY <1>3 DEF Bind, opening, diskVars, StoreLimits
<1>4. CASE Create
    BY <1>4 DEF Create, diskVars, StoreLimits
<1>5. CASE CreateFails
    BY <1>5 DEF CreateFails, opening, diskVars, StoreLimits
<1>6. CASE PreparePull
    BY <1>6 DEF PreparePull, None, diskVars, StoreLimits
<1>7. CASE ReadFrame
    BY <1>7 DEF ReadFrame, None, Abort, diskVars, StartBatch, StoreLimits
<1>8. CASE ReadDeferred
    BY <1>8 DEF ReadDeferred, None, StartBatch, diskVars, StoreLimits
<1>9. CASE EndPull
    BY <1>9 DEF EndPull, None, diskVars, StoreLimits
<1>10. CASE DecodeRow
    BY <1>10 DEF DecodeRow, None, diskVars, StoreLimits
<1>11. CASE Quarantine
    <2>1. CASE ~CheckStart(build.record)
        BY <1>11, <2>1 DEF Quarantine, Abort, diskVars, StoreLimits
    <2>2. CASE CheckStart(build.record)
        <3>1. hist' = hist /\ \/ dlq' = dlq
                              \/ /\ dlq' = dlq \cup {build.record}
                                 /\ build.record \in dlq \/ Cardinality(dlq) < DlqEntries
            BY <1>11, <2>2 DEF Quarantine
        <3>2. build.record \notin dlq =>
                 Cardinality(dlq \cup {build.record}) = Cardinality(dlq) + 1
            BY <1>0, FS_AddElement
        <3>3. build.record \in dlq => dlq \cup {build.record} = dlq
            OBVIOUS
        <3>4. Cardinality(dlq') <= DlqEntries
            <4>1. CASE dlq' = dlq
                BY <4>1 DEF StoreLimits
            <4>2. CASE dlq' # dlq
                <5>1. /\ dlq' = dlq \cup {build.record} /\ build.record \notin dlq
                      /\ Cardinality(dlq) < DlqEntries
                    BY <3>1, <3>3, <4>2
                <5> QED
                    BY <1>0, <3>2, <5>1
            <4> QED
                BY <4>1, <4>2
        <3> QED
            BY <3>1, <3>4 DEF StoreLimits
    <2> QED
        BY <2>1, <2>2
<1>12. CASE Poll
    BY <1>12 DEF Poll, None, Abort, diskVars, StoreLimits
<1>13. CASE PollNothing
    BY <1>13 DEF PollNothing, diskVars, StoreLimits
<1>14. CASE PublishBatch
    BY <1>14 DEF PublishBatch, Abort, diskVars, None, StoreLimits
<1>15. CASE ServiceAcks
    BY <1>15 DEF ServiceAcks, Abort, diskVars, StoreLimits
<1>16. ASSUME NEW s \in Msgs, Confirm(s)
      PROVE  StoreLimits'
    BY <1>16 DEF Confirm, diskVars, StoreLimits
<1>17. CASE ForceCheckpoint
    BY <1>17 DEF ForceCheckpoint, BeginCheckpoint, Abort, diskVars,
       StoreLimits
<1>18. CASE RequestCheckpoint
    BY <1>18 DEF RequestCheckpoint, diskVars, StoreLimits
<1>19. CASE TakeCommand
    BY <1>19 DEF TakeCommand, BeginCheckpoint, Abort, diskVars, StoreLimits
<1>20. CASE DropCommand
    BY <1>20 DEF DropCommand, diskVars, StoreLimits
<1>21. ASSUME NEW w \in workers, SendBarrier(w)
      PROVE  StoreLimits'
    BY <1>21 DEF SendBarrier, diskVars, StoreLimits
<1>22. ASSUME NEW w \in workers, Expire(w)
      PROVE  StoreLimits'
    BY <1>22 DEF Expire, diskVars, StoreLimits
<1>23. ASSUME NEW w \in workers, CancelWorker(w)
      PROVE  StoreLimits'
    BY <1>23 DEF CancelWorker, diskVars, StoreLimits
<1>24. ASSUME NEW w \in workers, Commit(w)
      PROVE  StoreLimits'
    <2>1. [cut |-> w.cut, rows |-> w.rows, readable |-> TRUE] \in Generation
        BY <1>0 DEF CutTyped, Worker, Generation
    <2>2. Len(Stored(w)) <= Retain
        BY <1>0, <2>1, KeepLength DEF Stored
    <2>3. hist' \in {hist, Stored(w)} /\ dlq' = dlq
        BY <1>24 DEF Commit
    <2> QED
        BY <2>2, <2>3 DEF StoreLimits
<1>25. ASSUME NEW w \in workers, Finish(w)
      PROVE  StoreLimits'
    BY <1>25 DEF Finish, diskVars, StoreLimits
<1>26. ASSUME NEW w \in workers, JoinReturned(w)
      PROVE  StoreLimits'
    BY <1>26 DEF JoinReturned, Abort, diskVars, StoreLimits
<1>27. ASSUME NEW w \in workers, JoinFailed(w)
      PROVE  StoreLimits'
    BY <1>27 DEF JoinFailed, Abort, diskVars, StoreLimits
<1>28. CASE Apply
    BY <1>28 DEF Apply, diskVars, StoreLimits
<1>29. CASE JobFails
    BY <1>29 DEF JobFails, Abort, diskVars, StoreLimits
<1>30. CASE Crash
    BY <1>30 DEF Crash, Forget, None, diskVars, StoreLimits
<1>31. CASE Close
    BY <1>31 DEF Close, Forget, None, diskVars, StoreLimits
<1>32. CASE DropFrame
    BY <1>32 DEF DropFrame, diskVars, StoreLimits
<1>33. CASE Evict
    BY <1>33 DEF Evict, diskVars, StoreLimits
<1>34. CASE Damage
    <2>1. Len(hist') = Len(hist) /\ dlq' = dlq
        BY <1>34, <1>0 DEF Damage
    <2> QED
        BY <2>1 DEF StoreLimits
<1>35. ASSUME NEW s \in Poison, Purge(s)
      PROVE  StoreLimits'
    <2>1. hist' = hist /\ dlq' = dlq \ {s}
        BY <1>35 DEF Purge
    <2>2. Cardinality(dlq \ {s}) \in {Cardinality(dlq), Cardinality(dlq) - 1}
        BY <1>0, FS_RemoveElement
    <2> QED
        BY <1>0, <2>1, <2>2 DEF StoreLimits
<1>36. CASE UNCHANGED vars
    BY <1>36 DEF vars, diskVars, StoreLimits
<1> QED
    BY <1>1, <1>2, <1>3, <1>4, <1>5, <1>6, <1>7, <1>8, <1>9, <1>10, <1>11,
       <1>12, <1>13, <1>14, <1>15, <1>16, <1>17, <1>18, <1>19, <1>20, <1>21,
       <1>22, <1>23, <1>24, <1>25, <1>26, <1>27, <1>28, <1>29, <1>30, <1>31,
       <1>32, <1>33, <1>34, <1>35, <1>36 DEF Next, Opening, Input,
       Checkpointing, Ending, Environment

\* Every step keeps the ledger and the inbox within their limits.
LEMMA FlightLimitsStep ==
    TypeOK /\ FlightLimits /\ [Next]_vars => FlightLimits'
<1> SUFFICES ASSUME TypeOK, FlightLimits, [Next]_vars
             PROVE  FlightLimits'
    OBVIOUS
<1>0. /\ LedgerOK(ledger) /\ inbox \in Seq(Batch) /\ build \in Build
      /\ workers \subseteq Worker /\ wire \in Seq(Frame)
      /\ IsFiniteSet(Pending) /\ Cardinality(Pending) \in Nat /\ Len(inbox) \in Nat
      /\ wire # <<>> => Head(wire) \in Frame
      /\ MaxPending \in Nat /\ InboxCap \in Nat
    <2>1. /\ LedgerOK(ledger) /\ inbox \in Seq(Batch) /\ build \in Build
          /\ workers \subseteq Worker /\ wire \in Seq(Frame)
        BY TypeParts DEF ReaderTyped, JobTyped, BuildTyped, CutTyped
    <2>2. IsFiniteSet(Pending) /\ Len(inbox) \in Nat
        BY <2>1 DEF LedgerOK, Pending
    <2>3. wire # <<>> => Head(wire) \in Frame
        BY <2>1
    <2> QED
        BY <2>1, <2>2, <2>3, FS_CardinalityType, JetStreamAssumption
<1>1. CASE Open
    BY <1>1 DEF Open, None, opening, readerVars, jobVars, Pending,
       FlightLimits
<1>2. CASE DeleteOld
    BY <1>2 DEF DeleteOld, opening, readerVars, jobVars, Pending,
       FlightLimits
<1>3. CASE Bind
    BY <1>3 DEF Bind, opening, readerVars, jobVars, Pending, FlightLimits
<1>4. CASE Create
    <2>1. CASE CheckStart(Restored.cut)
        <3>1. Pending' = {} /\ inbox' = inbox
            BY <1>4, <2>1 DEF Create, NewLedger, Pending
        <3> QED
            BY <3>1, FS_EmptySet, JetStreamAssumption DEF FlightLimits
    <2>2. CASE ~CheckStart(Restored.cut)
        BY <1>4, <2>2 DEF Create, Pending, FlightLimits
    <2> QED
        BY <2>1, <2>2
<1>5. CASE CreateFails
    BY <1>5 DEF CreateFails, opening, readerVars, jobVars, Pending,
       FlightLimits
<1>6. CASE PreparePull
    BY <1>6 DEF PreparePull, None, jobVars, Pending, FlightLimits
<1>7. CASE ReadFrame
    <2>1. CASE ObserveFails(Head(wire))
        BY <1>7, <2>1 DEF ReadFrame, Abort, readerVars, jobVars, Pending, FlightLimits
    <2>2. CASE ~ObserveFails(Head(wire))
        <3>1. ledger' = Observed(Head(wire)) /\ inbox' = inbox /\ wire # <<>>
            BY <1>7, <2>2 DEF ReadFrame, inputFrame, jobVars
        <3>2. CASE Known(Head(wire))
            BY <1>0, <2>2, <3>1, <3>2, ObservedEffect DEF Pending, FlightLimits
        <3>3. CASE ~Known(Head(wire))
            <4>1. Pending' = Pending \cup {Head(wire).seq} /\ ~Full
                BY <1>0, <2>2, <3>1, <3>3, ObservedEffect DEF Pending, ObserveFails
            <4>2. Cardinality(Pending \cup {Head(wire).seq})
                     \in {Cardinality(Pending), Cardinality(Pending) + 1}
                BY <1>0, FS_AddElement
            <4> QED
                BY <1>0, <3>1, <4>1, <4>2 DEF Full, FlightLimits
        <3> QED
            BY <3>2, <3>3
    <2> QED
        BY <2>1, <2>2
<1>8. CASE ReadDeferred
    BY <1>8 DEF ReadDeferred, None, StartBatch, inputFrame, jobVars,
       readerVars, Pending, FlightLimits
<1>9. CASE EndPull
    BY <1>9 DEF EndPull, None, inputFrame, jobVars, Pending, FlightLimits
<1>10. CASE DecodeRow
    BY <1>10 DEF DecodeRow, None, inputFrame, jobVars, readerVars, Pending,
       FlightLimits
<1>11. CASE Quarantine
    BY <1>11 DEF Quarantine, Abort, readerVars, jobVars, None, inputFrame,
       Pending, FlightLimits
<1>12. CASE Poll
    <2>1. CASE ObserveFails(Head(wire))
        BY <1>12, <2>1 DEF Poll, Abort, readerVars, jobVars, Pending, FlightLimits
    <2>2. CASE ~ObserveFails(Head(wire))
        <3>1. ledger' = Observed(Head(wire)) /\ inbox' = inbox /\ wire # <<>>
            BY <1>12, <2>2 DEF Poll, inputFrame, jobVars
        <3>2. CASE Known(Head(wire))
            BY <1>0, <2>2, <3>1, <3>2, ObservedEffect DEF Pending, FlightLimits
        <3>3. CASE ~Known(Head(wire))
            <4>1. Pending' = Pending \cup {Head(wire).seq} /\ ~Full
                BY <1>0, <2>2, <3>1, <3>3, ObservedEffect DEF Pending, ObserveFails
            <4>2. Cardinality(Pending \cup {Head(wire).seq})
                     \in {Cardinality(Pending), Cardinality(Pending) + 1}
                BY <1>0, FS_AddElement
            <4> QED
                BY <1>0, <3>1, <4>1, <4>2 DEF Full, FlightLimits
        <3> QED
            BY <3>2, <3>3
    <2> QED
        BY <2>1, <2>2
<1>13. CASE PollNothing
    BY <1>13 DEF PollNothing, inputFrame, jobVars, Pending, FlightLimits
<1>14. CASE PublishBatch
    <2>1. CASE PublishFails(build.first, build.last)
        BY <1>14, <2>1 DEF PublishBatch, Abort, readerVars, jobVars, Pending, FlightLimits
    <2>2. CASE ~PublishFails(build.first, build.last)
        <3>1. Pending' = Pending
            BY <1>14, <2>2, PublishPositions
        <3>2. \/ inbox' = inbox
              \/ /\ Len(inbox) < InboxCap
                 /\ inbox' = Append(inbox, [barrier |-> None, rows |-> build.rows])
            BY <1>14, <2>2 DEF PublishBatch
        <3>3. [barrier |-> None, rows |-> build.rows] \in Batch
            BY <1>0 DEF Build, Batch, None
        <3> QED
            BY <1>0, <3>1, <3>2, <3>3, JetStreamAssumption DEF FlightLimits
    <2> QED
        BY <2>1, <2>2
<1>15. CASE ServiceAcks
    <2>1. CASE AckFailed
        BY <1>15, <2>1 DEF ServiceAcks, Abort, readerVars, jobVars, Pending, FlightLimits
    <2>2. CASE ~(AckFailed)
        <3>1. Pending' \subseteq Pending /\ inbox' = inbox
            BY <1>15, <2>2, ServicePositions DEF ServiceAcks, jobVars
        <3> QED
            BY <1>0, <3>1, FS_Subset, FS_CardinalityType, JetStreamAssumption
               DEF FlightLimits
    <2> QED
        BY <2>1, <2>2
<1>16. ASSUME NEW s \in Msgs, Confirm(s)
      PROVE  FlightLimits'
    <2>1. Pending' = Pending /\ inbox' = inbox
        BY <1>16, <1>0, ConfirmEffect DEF Confirm, jobVars, Pending
    <2> QED
        BY <2>1 DEF FlightLimits
<1>17. CASE ForceCheckpoint
    BY <1>17 DEF ForceCheckpoint, BeginCheckpoint, Abort, readerVars,
       jobVars, Pending, FlightLimits
<1>18. CASE RequestCheckpoint
    BY <1>18 DEF RequestCheckpoint, readerVars, jobVars, Pending,
       FlightLimits
<1>19. CASE TakeCommand
    BY <1>19 DEF TakeCommand, BeginCheckpoint, Abort, readerVars, jobVars,
       Pending, FlightLimits
<1>20. CASE DropCommand
    BY <1>20 DEF DropCommand, readerVars, jobVars, Pending, FlightLimits
<1>21. ASSUME NEW w \in workers, SendBarrier(w)
      PROVE  FlightLimits'
    <2>1. [barrier |-> w.id, rows |-> <<>>] \in Batch
        BY <1>0 DEF Worker, Batch
    <2>2. /\ ledger' = ledger
          /\ \/ inbox' = inbox
             \/ /\ Len(inbox) < InboxCap
                /\ inbox' = Append(inbox, [barrier |-> w.id, rows |-> <<>>])
        BY <1>21 DEF SendBarrier, readerVars
    <2> QED
        BY <1>0, <2>1, <2>2, JetStreamAssumption DEF Pending, FlightLimits
<1>22. ASSUME NEW w \in workers, Expire(w)
      PROVE  FlightLimits'
    BY <1>22 DEF Expire, workerFrame, readerVars, jobVars, Pending,
       FlightLimits
<1>23. ASSUME NEW w \in workers, CancelWorker(w)
      PROVE  FlightLimits'
    BY <1>23 DEF CancelWorker, workerFrame, readerVars, jobVars, Pending,
       FlightLimits
<1>24. ASSUME NEW w \in workers, Commit(w)
      PROVE  FlightLimits'
    BY <1>24 DEF Commit, workerFrame, readerVars, jobVars, Pending,
       FlightLimits
<1>25. ASSUME NEW w \in workers, Finish(w)
      PROVE  FlightLimits'
    BY <1>25 DEF Finish, workerFrame, readerVars, jobVars, Pending,
       FlightLimits
<1>26. ASSUME NEW w \in workers, JoinReturned(w)
      PROVE  FlightLimits'
    <2>1. CASE CutRefused(w.cut) \/ AckFailed
        BY <1>26, <2>1 DEF JoinReturned, Abort, readerVars, jobVars, Pending, FlightLimits
    <2>2. CASE ~(CutRefused(w.cut) \/ AckFailed)
        <3>1. Pending' \subseteq Pending /\ inbox' = inbox
            BY <1>26, <2>2, JoinPositions DEF JoinReturned, jobVars
        <3> QED
            BY <1>0, <3>1, FS_Subset, FS_CardinalityType, JetStreamAssumption
               DEF FlightLimits
    <2> QED
        BY <2>1, <2>2
<1>27. ASSUME NEW w \in workers, JoinFailed(w)
      PROVE  FlightLimits'
    BY <1>27 DEF JoinFailed, Abort, readerVars, jobVars, workerFrame,
       Pending, FlightLimits
<1>28. CASE Apply
    <2>1. ledger' = ledger /\ inbox' = Tail(inbox) /\ inbox # <<>>
        BY <1>28 DEF Apply, readerVars
    <2>2. Len(inbox') <= Len(inbox) /\ Len(inbox') \in Nat
        BY <1>0, <2>1
    <2> QED
        BY <1>0, <2>1, <2>2, JetStreamAssumption DEF Pending, FlightLimits
<1>29. CASE JobFails
    BY <1>29 DEF JobFails, Abort, readerVars, jobVars, Pending, FlightLimits
<1>30. CASE Crash
    <2>1. Pending' = {} /\ inbox' = <<>>
        BY <1>30 DEF Crash, Forget, NewLedger, Pending
    <2> QED
        BY <2>1, FS_EmptySet, JetStreamAssumption DEF FlightLimits
<1>31. CASE Close
    <2>1. Pending' = {} /\ inbox' = <<>>
        BY <1>31 DEF Close, Forget, NewLedger, Pending
    <2> QED
        BY <2>1, FS_EmptySet, JetStreamAssumption DEF FlightLimits
<1>32. CASE DropFrame
    BY <1>32 DEF DropFrame, jobVars, Pending, FlightLimits
<1>33. CASE Evict
    BY <1>33 DEF Evict, idleVars, readerVars, jobVars, Pending, FlightLimits
<1>34. CASE Damage
    BY <1>34 DEF Damage, idleVars, readerVars, jobVars, Pending,
       FlightLimits
<1>35. ASSUME NEW s \in Poison, Purge(s)
      PROVE  FlightLimits'
    BY <1>35 DEF Purge, idleVars, readerVars, jobVars, Pending, FlightLimits
<1>36. CASE UNCHANGED vars
    BY <1>36 DEF vars, readerVars, jobVars, Pending, FlightLimits
<1> QED
    BY <1>1, <1>2, <1>3, <1>4, <1>5, <1>6, <1>7, <1>8, <1>9, <1>10, <1>11,
       <1>12, <1>13, <1>14, <1>15, <1>16, <1>17, <1>18, <1>19, <1>20, <1>21,
       <1>22, <1>23, <1>24, <1>25, <1>26, <1>27, <1>28, <1>29, <1>30, <1>31,
       <1>32, <1>33, <1>34, <1>35, <1>36 DEF Next, Opening, Input,
       Checkpointing, Ending, Environment

-----------------------------------------------------------------------------
(* The theorems.                                                           *)

\* The inductive invariant of the source.
SourceInv ==
    /\ TypeOK /\ ConsumerInv /\ Resting /\ Reading /\ Captured /\ Gate
    /\ Sorted /\ Covered /\ Committed /\ Cuts
    /\ Building /\ CaughtUp /\ Placed /\ Aligned /\ DurableExact

\* The invariant holds before the first attempt.
LEMMA SourceInit == Init => SourceInv
<1> SUFFICES ASSUME Init PROVE SourceInv
    OBVIOUS
<1>1. /\ BrokerTyped /\ DiskTyped /\ ReaderTyped /\ BuildTyped /\ CutTyped /\ JobTyped
    <2>1. BrokerTyped
        BY FreshTyped DEF Init, BrokerTyped, None
    <2>2. DiskTyped
        BY DEF Init, DiskTyped
    <2>3. ReaderTyped
        <3>1. <<>> \in Seq(Frame) /\ FALSE \in BOOLEAN /\ LedgerOK(NewLedger(0))
            BY FreshTyped
        <3> QED
            BY <3>1 DEF Init, ReaderTyped
    <2>4. BuildTyped
        BY NoBuildTyped DEF Init, BuildTyped, None
    <2>5. CutTyped
        BY DEF Init, CutTyped
    <2>6. JobTyped
        BY DEF Init, JobTyped
    <2> QED
        BY <2>1, <2>2, <2>3, <2>4, <2>5, <2>6
<1>2. TypeOK
    BY <1>1, TypeParts
<1>3. ConsumerInv /\ Resting /\ Reading /\ Building /\ CaughtUp /\ Placed /\ Committed
    BY DEF Init, ConsumerInv, Resting, Reading, Building, CaughtUp, Placed, Committed,
       Attempting
<1>4. Captured
    BY DEF Init, Captured
<1>5. Gate /\ Cuts /\ Aligned
    BY DEF Init, Gate, Cuts, Aligned
<1>6. Sorted /\ DurableExact
    BY DEF Init, Sorted, DurableExact
<1>7. Covered
    BY DEF Init, Covered, NewConsumer
<1> QED
    BY <1>2, <1>3, <1>4, <1>5, <1>6, <1>7 DEF SourceInv

\* Every step of the source keeps the invariant.
LEMMA SourceStep == SourceInv /\ [Next]_vars => SourceInv'
<1> SUFFICES ASSUME SourceInv, [Next]_vars PROVE SourceInv'
    OBVIOUS
<1>0. /\ TypeOK /\ ConsumerInv /\ Resting /\ Reading /\ Captured /\ Gate
      /\ Sorted /\ Covered /\ Committed /\ Cuts
      /\ Building /\ CaughtUp /\ Placed /\ Aligned /\ DurableExact
    BY DEF SourceInv
<1>1. TypeOK'
    <2>1. BrokerTyped' /\ DiskTyped' /\ ReaderTyped' /\ BuildTyped' /\ CutTyped' /\ JobTyped'
        BY <1>0, BrokerTypedStep, DiskTypedStep, ReaderTypedStep, BuildTypedStep,
           CutTypedStep, JobTypedStep
    <2> QED
        BY <2>1 DEF TypeOK, BrokerTyped, DiskTyped, ReaderTyped, BuildTyped, CutTyped,
           JobTyped
<1>2. ConsumerInv' /\ Resting' /\ Reading' /\ Captured' /\ Gate'
    BY <1>0, ConsumerStep, RestingStep, ReadingStep, CapturedStep, GateStep
<1>3. Sorted' /\ Covered' /\ Committed' /\ Cuts'
    BY <1>0, SortedStep, CoveredStep, CommittedStep, CutsStep
<1>4. Building' /\ CaughtUp' /\ Placed' /\ Aligned' /\ DurableExact'
    BY <1>0, BuildingStep, CaughtStep, PlacedStep, AlignedStep, ExactStep
<1> QED
    BY <1>1, <1>2, <1>3, <1>4 DEF SourceInv

\* The inductive invariant of the reliable source: what the actor, its workers,
\* its ledger, the job's inbox and the disk know of each other at every step of
\* every attempt.
THEOREM SourceInvariant == Spec => []SourceInv
<1>1. Init => SourceInv
    BY SourceInit
<1>2. SourceInv /\ [Next]_vars => SourceInv'
    BY SourceStep
<1> QED
    BY <1>1, <1>2, PTL DEF Spec

\* Every variable of the source keeps its type.
THEOREM TypeCorrect == Spec => []TypeOK
<1>1. SourceInv => TypeOK
    BY DEF SourceInv
<1> QED
    BY <1>1, SourceInvariant, PTL

\* The broker never holds an ACK of a message that no published checkpoint
\* covers, for any stream, any limits and any faults: a message it forgets can
\* never be needed again (AckDriver, Reader::checkpoint_committed).
THEOREM AcksFollowCheckpoints == Spec => []AckedIsDurable
<1>1. SourceInv => AckedIsDurable
    <2> SUFFICES ASSUME SourceInv, NEW s \in consumer.acked
                 PROVE  hist # <<>> /\ s <= Last(hist).cut
        BY DEF AckedIsDurable
    <2>1. s <= LastCut /\ s \in Nat \ {0}
        BY DEF SourceInv, Covered, TypeOK, Consumer, Msgs
    <2>2. hist # <<>>
        BY <2>1 DEF LastCut
    <2> QED
        BY <2>1, <2>2 DEF LastCut
<1> QED
    BY <1>1, SourceInvariant, PTL

\* Every retained checkpoint holds the rows up to its source cut, each once and
\* in order, and the poison records up to it were quarantined, whatever the
\* broker dropped or redelivered and wherever an attempt ended
\* (Actor::checkpoint, Actor::publish_input).
THEOREM CheckpointsAreExact == Spec => []DurableExact
<1>1. SourceInv => DurableExact
    BY DEF SourceInv
<1> QED
    BY <1>1, SourceInvariant, PTL

\* No poison record is inserted into the input DLQ twice, over any number of
\* replays and purges (InputDlq::capture, ::purge, ::check_start).
THEOREM PoisonIsCapturedOnce == Spec => []QuarantinedOnce
<1>1. SourceInv => QuarantinedOnce
    BY DEF SourceInv, Captured, QuarantinedOnce
<1> QED
    BY <1>1, SourceInvariant, PTL

\* No consumer at the broker escapes the binding: the attempt that follows a
\* crash or a failed request finds the one that is left (Reader::open).
THEOREM BindingNamesTheConsumer == Spec => []NoOrphanConsumer
<1>1. SourceInv => NoOrphanConsumer
    BY DEF SourceInv, ConsumerInv, NoOrphanConsumer
<1> QED
    BY <1>1, SourceInvariant, PTL

\* The source never keeps more than it may, whatever is redelivered, blocked or
\* restarted: retained generations, quarantined records, pending messages and
\* batches in the inbox (CheckpointStore::commit, InputDlq::capture,
\* DeliveryLedger::observe, the bounded channel of the Kernel).
THEOREM SourceKeepsLimits == Spec => [](StoreLimits /\ FlightLimits)
<1>1. Init => StoreLimits /\ FlightLimits
    <2>1. ASSUME Init PROVE /\ hist = <<>> /\ dlq = {} /\ inbox = <<>> /\ Pending = {}
        BY <2>1 DEF Init, NewLedger, Pending
    <2> QED
        BY <2>1, FS_EmptySet, JetStreamAssumption DEF StoreLimits, FlightLimits
<1>2. TypeOK /\ (StoreLimits /\ FlightLimits) /\ [Next]_vars
         => (StoreLimits /\ FlightLimits)'
    BY StoreLimitsStep, FlightLimitsStep
<1> QED
    BY <1>1, <1>2, TypeCorrect, PTL DEF Spec

====
