---------------------------- MODULE MailboxProofs ----------------------------
(***************************************************************************)
(* Theorems about Mailbox, for any number of senders, any sizes and any    *)
(* limits: byte credit, slots and gauges account for the same envelopes.   *)
(* Sums are numbers of units (Total), so that what a step adds to a sum is *)
(* a matter of disjoint finite sets.                                       *)
(***************************************************************************)
EXTENDS Mailbox, SequenceTheorems, FunctionTheorems, FiniteSetTheorems, TLAPS

\* The types that the accounts rest on; the queues of waiters play no part.
Typed ==
    /\ free \in Nat /\ slots \in Nat
    /\ chan \in Seq(Fits)
    /\ held \in Counts /\ refunds \in Counts
    /\ tx \in [Senders -> SendRecord]
    /\ rx \in {"open", "marked", "bytes", "closed"}
    /\ gauge \in Gauge

\* A send under way has a size, and the observer knows that the receiver lives.
Working ==
    /\ \A s \in Senders : tx[s].pc # "idle" => tx[s].n \in Fits
    /\ gauge.open <=> rx = "open"

\* What the observer has counted.  That an envelope in the consumer's hands is
\* counted as held is what keeps DropHeld from an underflow.
Counted ==
    /\ gauge.errors = 0
    /\ gauge.queued = (IF gauge.open THEN Len(chan) ELSE 0)
    /\ gauge.queuedBytes = (IF gauge.open THEN Queued ELSE 0)
    /\ gauge.stamps = gauge.queued
    /\ gauge.pending = gauge.queued
    /\ gauge.reserved = OfSenders(Counting) + Queued + Bytes(held)
    /\ gauge.held = Total(held)

AccountsInv == Typed /\ Working /\ CreditConserved /\ Counted

-----------------------------------------------------------------------------
(* Sums.                                                                   *)

\* The units of one argument of a function.
Share(x, n) == {x} \X (1 .. n)

\* The size of a union of disjoint sets.
LEMMA DisjointSize ==
    ASSUME NEW S, IsFiniteSet(S), NEW T, IsFiniteSet(T), S \cap T = {}
    PROVE  Cardinality(S \cup T) = Cardinality(S) + Cardinality(T)
<1>1. Cardinality(S) \in Nat /\ Cardinality(T) \in Nat
    BY FS_CardinalityType
<1>2. Cardinality(S \cap T) = 0
    BY FS_EmptySet
<1>3. Cardinality(S \cup T) = Cardinality(S) + Cardinality(T) - Cardinality(S \cap T)
    BY FS_Union
<1> QED
    BY <1>1, <1>2, <1>3

\* The size of what is left of a set without a part of it.
LEMMA RestSize ==
    ASSUME NEW S, IsFiniteSet(S), NEW T \in SUBSET S
    PROVE  /\ IsFiniteSet(S \ T)
           /\ Cardinality(S \ T) = Cardinality(S) - Cardinality(T)
<1>1. S \cap T = T
    OBVIOUS
<1>2. /\ IsFiniteSet(S \ T)
      /\ Cardinality(S \ T) = Cardinality(S) - Cardinality(S \cap T)
    BY FS_Difference
<1> QED
    BY <1>1, <1>2

\* One argument has as many units as its value.
LEMMA ShareSize ==
    ASSUME NEW x, NEW n \in Nat
    PROVE  IsFiniteSet(Share(x, n)) /\ Cardinality(Share(x, n)) = n
<1>1. IsFiniteSet({x}) /\ Cardinality({x}) = 1
    BY FS_Singleton
<1>2. IsFiniteSet(1 .. n) /\ Cardinality(1 .. n) = n
    BY FS_Interval
<1>3. /\ IsFiniteSet({x} \X (1 .. n))
      /\ Cardinality({x} \X (1 .. n)) = Cardinality({x}) * Cardinality(1 .. n)
    BY <1>1, <1>2, FS_Product
<1> QED
    BY <1>1, <1>2, <1>3 DEF Share

\* A sum of finitely many naturals is a natural.
LEMMA TotalFinite ==
    ASSUME NEW D, IsFiniteSet(D), NEW f \in [D -> Nat]
    PROVE  IsFiniteSet(Units(f)) /\ Total(f) \in Nat
<1> DEFINE all == {Share(x, f[x]) : x \in D}
           F == [x \in D |-> Share(x, f[x])]
<1>1. F \in Surjection(D, all)
    BY DEF Surjection
<1>2. IsFiniteSet(all)
    BY <1>1, FS_Surjection
<1>3. \A T \in all : IsFiniteSet(T)
    BY ShareSize
<1>4. Units(f) = UNION all
    BY DEF Units, Share
<1> HIDE DEF all, F
<1>5. IsFiniteSet(Units(f))
    BY <1>2, <1>3, <1>4, FS_UNION
<1> QED
    BY <1>5, FS_CardinalityType DEF Total

\* Membership in the units of a function.
LEMMA InUnits ==
    ASSUME NEW D, NEW f \in [D -> Nat], NEW u
    PROVE  u \in Units(f) <=> \E x \in D : u \in Share(x, f[x])
BY DEF Units, Share

\* A sum changes by what one of its terms changes.
LEMMA TotalUpdate ==
    ASSUME NEW D, IsFiniteSet(D), NEW f \in [D -> Nat], NEW g \in [D -> Nat],
           NEW x \in D, \A y \in D : y # x => g[y] = f[y]
    PROVE  Total(g) + f[x] = Total(f) + g[x]
<1> DEFINE rest == Units(f) \ Share(x, f[x])
<1>1. /\ IsFiniteSet(Units(f)) /\ IsFiniteSet(rest)
      /\ Share(x, f[x]) \subseteq Units(f)
    BY TotalFinite, FS_Difference, InUnits
<1>2. Cardinality(rest) = Total(f) - f[x]
    <2>1. Cardinality(rest) = Cardinality(Units(f)) - Cardinality(Share(x, f[x]))
        BY <1>1, RestSize
    <2> QED
        BY <2>1, ShareSize DEF Total
<1>3. \A u, y, n : u \in Share(y, n) => u[1] = y
    BY DEF Share
<1>4. Units(g) = rest \cup Share(x, g[x]) /\ rest \cap Share(x, g[x]) = {}
    <2>1. ASSUME NEW u \in Units(g) PROVE u \in rest \cup Share(x, g[x])
        <3>1. PICK y \in D : u \in Share(y, g[y])
            BY InUnits
        <3>2. CASE y = x
            BY <3>1, <3>2
        <3>3. CASE y # x
            <4>1. u \in Units(f) /\ u \notin Share(x, f[x])
                BY <1>3, <3>1, <3>3, InUnits
            <4> QED
                BY <4>1
        <3> QED
            BY <3>2, <3>3
    <2>2. ASSUME NEW u \in rest PROVE u \in Units(g) /\ u \notin Share(x, g[x])
        <3>1. PICK y \in D : u \in Share(y, f[y])
            BY InUnits
        <3>2. y # x
            BY <3>1
        <3> QED
            BY <1>3, <3>1, <3>2, InUnits
    <2>3. Share(x, g[x]) \subseteq Units(g)
        BY InUnits
    <2> QED
        BY <2>1, <2>2, <2>3
<1> HIDE DEF rest
<1>5. Total(g) = Cardinality(rest) + g[x]
    <2>1. IsFiniteSet(Share(x, g[x])) /\ Cardinality(Share(x, g[x])) = g[x]
        BY ShareSize
    <2> QED
        BY <1>1, <1>4, <2>1, DisjointSize DEF Total
<1> QED
    BY <1>2, <1>5, TotalFinite

\* A sum of zeros is zero.
LEMMA TotalZero ==
    ASSUME NEW D, NEW f \in [D -> Nat], \A x \in D : f[x] = 0
    PROVE  Total(f) = 0
<1>1. \A x \in D : Share(x, f[x]) = {}
    BY DEF Share
<1>2. Units(f) = {}
    BY <1>1, InUnits
<1> QED
    BY <1>2, FS_EmptySet DEF Total

\* A sum is at least each of its terms.
LEMMA TotalCovers ==
    ASSUME NEW D, IsFiniteSet(D), NEW f \in [D -> Nat], NEW x \in D
    PROVE  f[x] <= Total(f)
<1>1. Share(x, f[x]) \subseteq Units(f)
    BY InUnits
<1> QED
    BY <1>1, ShareSize, TotalFinite, FS_Subset DEF Total

\* What is appended to a sequence is added to its sum.
LEMMA TotalAppend ==
    ASSUME NEW c \in Seq(Nat), NEW n \in Nat
    PROVE  Total(Append(c, n)) = Total(c) + n
<1> DEFINE g == Append(c, n)
           k == Len(c) + 1
<1>1. /\ c \in [1 .. Len(c) -> Nat] /\ g \in [1 .. k -> Nat] /\ g[k] = n
      /\ \A i \in 1 .. Len(c) : g[i] = c[i]
      /\ k \in Nat /\ Len(c) \in Nat
    <2>1. Len(c) \in Nat /\ k \in Nat /\ DOMAIN c = 1 .. Len(c)
        OBVIOUS
    <2>2. c \in [1 .. Len(c) -> Nat]
        BY <2>1
    <2>3. g \in Seq(Nat) /\ Len(g) = k /\ DOMAIN g = 1 .. k
        OBVIOUS
    <2>4. g \in [1 .. k -> Nat]
        BY <2>3, LenProperties
    <2>5. g[k] = n /\ \A i \in 1 .. Len(c) : g[i] = c[i]
        OBVIOUS
    <2> QED
        BY <2>1, <2>2, <2>4, <2>5
<1> HIDE DEF g
<1>2. IsFiniteSet(Units(c)) /\ Total(c) \in Nat
    <2>1. IsFiniteSet(1 .. Len(c))
        BY <1>1, FS_Interval
    <2> QED
        BY <1>1, <2>1, TotalFinite
<1>3. \A u, y, m : u \in Share(y, m) => u[1] = y
    BY DEF Share
<1>4. Units(g) = Units(c) \cup Share(k, n)
    <2>1. \A u : u \in Units(g) <=> \E i \in 1 .. k : u \in Share(i, g[i])
        BY <1>1, InUnits
    <2>2. \A u : u \in Units(c) <=> \E i \in 1 .. Len(c) : u \in Share(i, c[i])
        BY <1>1, InUnits
    <2>3. \A i \in 1 .. k : i = k \/ i \in 1 .. Len(c)
        BY <1>1
    <2>4. 1 .. Len(c) \subseteq 1 .. k /\ k \in 1 .. k
        BY <1>1
    <2> QED
        BY <1>1, <2>1, <2>2, <2>3, <2>4
<1>5. Units(c) \cap Share(k, n) = {}
    <2>1. \A u \in Units(c) : \E i \in 1 .. Len(c) : u[1] = i
        BY <1>1, <1>3, InUnits
    <2>2. k \notin 1 .. Len(c)
        BY <1>1
    <2> QED
        BY <1>3, <2>1, <2>2
<1>6. IsFiniteSet(Share(k, n)) /\ Cardinality(Share(k, n)) = n
    BY ShareSize
<1>7. Cardinality(Units(c) \cup Share(k, n)) = Cardinality(Units(c)) + n
    BY <1>2, <1>5, <1>6, DisjointSize
<1> QED
    BY <1>4, <1>7 DEF Total, g

\* What leaves a sequence at its head is taken from its sum.
LEMMA TotalTail ==
    ASSUME NEW c \in Seq(Nat), c # <<>>
    PROVE  Head(c) \in Nat /\ Total(Tail(c)) + Head(c) = Total(c)
<1> DEFINE t == Tail(c)
           m == Len(c) - 1
           later == Units(c) \ Share(1, c[1])
           F == [u \in Units(t) |-> <<u[1] + 1, u[2]>>]
<1>1. /\ c \in [1 .. Len(c) -> Nat] /\ t \in [1 .. m -> Nat] /\ Head(c) = c[1]
      /\ \A i \in 1 .. m : t[i] = c[i + 1] /\ i + 1 \in 1 .. Len(c)
      /\ m \in Nat /\ Len(c) = m + 1 /\ Head(c) \in Nat /\ 1 \in 1 .. Len(c)
    <2>1. /\ Len(c) \in Nat \ {0} /\ m \in Nat
          /\ Len(c) = m + 1 /\ DOMAIN c = 1 .. Len(c)
        OBVIOUS
    <2>2. c \in [1 .. Len(c) -> Nat] /\ 1 \in 1 .. Len(c)
        BY <2>1
    <2>3. t \in Seq(Nat) /\ Len(t) = m /\ DOMAIN t = 1 .. m
        OBVIOUS
    <2>4. t \in [1 .. m -> Nat]
        BY <2>3, LenProperties
    <2>5. Head(c) = c[1] /\ Head(c) \in Nat
        OBVIOUS
    <2>6. \A i \in 1 .. m : t[i] = c[i + 1] /\ i + 1 \in 1 .. Len(c)
        BY <2>1
    <2> QED
        BY <2>1, <2>2, <2>4, <2>5, <2>6
<1> HIDE DEF t, m
<1>2. /\ IsFiniteSet(Units(c)) /\ Total(c) \in Nat
      /\ IsFiniteSet(Units(t)) /\ Total(t) \in Nat
    <2>1. IsFiniteSet(1 .. Len(c)) /\ IsFiniteSet(1 .. m)
        BY <1>1, FS_Interval
    <2> QED
        BY <1>1, <2>1, TotalFinite
<1>3. \A u : u \in Units(t) <=> \E i \in 1 .. m : \E j \in 1 .. t[i] : u = <<i, j>>
    <2>1. \A u : u \in Units(t) <=> \E i \in 1 .. m : u \in Share(i, t[i])
        BY <1>1, InUnits
    <2> QED
        BY <2>1 DEF Share
<1>4. \A u : u \in Units(c) <=> \E i \in 1 .. Len(c) : \E j \in 1 .. c[i] : u = <<i, j>>
    <2>1. \A u : u \in Units(c) <=> \E i \in 1 .. Len(c) : u \in Share(i, c[i])
        BY <1>1, InUnits
    <2> QED
        BY <2>1 DEF Share
<1>5. ASSUME NEW u
      PROVE  u \in later <=> \E i \in 1 .. m : \E j \in 1 .. t[i] : u = <<i + 1, j>>
    <2>1. ASSUME NEW i \in 1 .. m, NEW j \in 1 .. t[i], u = <<i + 1, j>>
          PROVE  u \in later
        <3>1. u \in Units(c)
            BY <1>1, <1>4, <2>1
        <3>2. u[1] # 1
            BY <1>1, <2>1
        <3> QED
            BY <3>1, <3>2 DEF Share
    <2>2. ASSUME u \in later
          PROVE  \E i \in 1 .. m : \E j \in 1 .. t[i] : u = <<i + 1, j>>
        <3>1. PICK k \in 1 .. Len(c) : \E j \in 1 .. c[k] : u = <<k, j>>
            BY <1>4, <2>2
        <3>2. PICK j \in 1 .. c[k] : u = <<k, j>>
            BY <3>1
        <3>3. k # 1
            BY <2>2, <3>2 DEF Share
        <3>4. k - 1 \in 1 .. m /\ t[k - 1] = c[k] /\ u = <<(k - 1) + 1, j>>
            BY <1>1, <3>2, <3>3
        <3> QED
            BY <3>4
    <2> QED
        BY <2>1, <2>2
<1>6. F \in [Units(t) -> later]
    BY <1>1, <1>3, <1>5
<1>7. \A u, v \in Units(t) : F[u] = F[v] => u = v
    <2> SUFFICES ASSUME NEW u \in Units(t), NEW v \in Units(t), F[u] = F[v]
                 PROVE  u = v
        OBVIOUS
    <2>1. PICK i \in 1 .. m : \E j \in 1 .. t[i] : u = <<i, j>>
        BY <1>3
    <2>2. PICK j \in 1 .. t[i] : u = <<i, j>>
        BY <2>1
    <2>3. PICK k \in 1 .. m : \E l \in 1 .. t[k] : v = <<k, l>>
        BY <1>3
    <2>4. PICK l \in 1 .. t[k] : v = <<k, l>>
        BY <2>3, LenProperties
    <2>5. F[u] = <<i + 1, j>> /\ F[v] = <<k + 1, l>>
        BY <2>2, <2>4
    <2> QED
        BY <1>1, <2>2, <2>4, <2>5
<1>8. \A v \in later : \E u \in Units(t) : F[u] = v
    <2> SUFFICES ASSUME NEW v \in later PROVE \E u \in Units(t) : F[u] = v
        OBVIOUS
    <2>1. PICK i \in 1 .. m : \E j \in 1 .. t[i] : v = <<i + 1, j>>
        BY <1>5
    <2>2. PICK j \in 1 .. t[i] : v = <<i + 1, j>>
        BY <2>1
    <2>3. <<i, j>> \in Units(t) /\ F[<<i, j>>] = v
        BY <1>3, <2>2
    <2> QED
        BY <2>3, LenProperties
<1> HIDE DEF F, later
<1>9. ExistsBijection(Units(t), later)
    <2>1. F \in Bijection(Units(t), later)
        BY <1>6, <1>7, <1>8, Fun_IsBij
    <2> QED
        BY <2>1 DEF ExistsBijection
<1>10. Cardinality(later) = Total(t)
    BY <1>2, <1>9, FS_Bijection DEF Total
<1>11. Share(1, c[1]) \subseteq Units(c)
    BY <1>1, InUnits
<1>12. Cardinality(later) = Total(c) - c[1]
    <2>1. Cardinality(later) = Cardinality(Units(c)) - Cardinality(Share(1, c[1]))
        BY <1>2, <1>11, RestSize DEF later
    <2> QED
        BY <1>1, <2>1, ShareSize DEF Total
<1> QED
    BY <1>1, <1>2, <1>10, <1>12 DEF t

\* A sum of smaller terms is smaller.
LEMMA TotalMonotone ==
    ASSUME NEW D, IsFiniteSet(D), NEW f \in [D -> Nat], NEW g \in [D -> Nat],
           \A x \in D : f[x] <= g[x]
    PROVE  Total(f) <= Total(g)
<1>1. Units(f) \subseteq Units(g)
    <2> SUFFICES ASSUME NEW u \in Units(f) PROVE u \in Units(g)
        OBVIOUS
    <2>1. PICK x \in D : u \in Share(x, f[x])
        BY InUnits
    <2>2. f[x] \in Nat /\ g[x] \in Nat /\ f[x] <= g[x]
        OBVIOUS
    <2>3. 1 .. f[x] \subseteq 1 .. g[x]
        BY <2>2
    <2>4. u \in Share(x, g[x])
        BY <2>1, <2>3 DEF Share
    <2> QED
        BY <2>4, InUnits
<1> QED
    BY <1>1, TotalFinite, FS_Subset DEF Total

-----------------------------------------------------------------------------
(* The sums of the mailbox.                                                *)

\* The sizes that fit are positive numbers, and there are finitely many.
LEMMA FitsFinite == Fits \subseteq Nat \ {0} /\ IsFiniteSet(Fits)
<1>1. Fits \in SUBSET Sizes
    BY DEF Fits
<1> QED
    BY <1>1, MailboxAssumption, FS_Subset DEF Fits

\* What a send adds to a sum over senders.
Weight(r, pcs) == IF r.pc \in pcs THEN r.n ELSE 0

\* The size of a send is a number.
LEMMA SendSizes == \A x \in SendRecord : x.n \in Nat
<1>1. \A x \in SendRecord : x.n \in {0} \cup Fits
    BY DEF SendRecord
<1>2. {0} \cup Fits \subseteq Nat
    BY FitsFinite
<1> QED
    BY <1>1, <1>2

\* A step of the send of s alone, which it leaves as r.
Moves(s, r) == tx' = [tx EXCEPT ![s] = r]

\* A step of one sender changes a sum over senders by its own weight.
LEMMA SendMoves ==
    ASSUME tx \in [Senders -> SendRecord], NEW s \in Senders, NEW r \in SendRecord,
           Moves(s, r), NEW pcs
    PROVE  /\ OfSenders(pcs) \in Nat /\ OfSenders(pcs)' \in Nat
           /\ OfSenders(pcs)' + Weight(tx[s], pcs) = OfSenders(pcs) + Weight(r, pcs)
<1>0. \A x \in SendRecord : Weight(x, pcs) \in Nat
    BY SendSizes DEF Weight
<1>1. PICK f : f = [x \in Senders |-> Weight(tx[x], pcs)]
    OBVIOUS
<1>2. PICK g : g = [x \in Senders |-> Weight(tx'[x], pcs)]
    OBVIOUS
<1>3. OfSenders(pcs) = Total(f) /\ OfSenders(pcs)' = Total(g)
    BY <1>1, <1>2 DEF OfSenders, Weight
<1>4. /\ f \in [Senders -> Nat] /\ g \in [Senders -> Nat]
      /\ f[s] = Weight(tx[s], pcs) /\ g[s] = Weight(r, pcs)
      /\ \A x \in Senders : x # s => g[x] = f[x]
    BY <1>0, <1>1, <1>2 DEF Moves
<1>a. IsFiniteSet(Senders)
    BY MailboxAssumption
<1>5. Total(g) + f[s] = Total(f) + g[s]
    <2>1. /\ f \in [Senders -> Nat] /\ g \in [Senders -> Nat]
          /\ \A x \in Senders : x # s => g[x] = f[x]
        BY <1>4
    <2> QED
        BY <1>a, <2>1, TotalUpdate
<1>6. Total(f) \in Nat /\ Total(g) \in Nat
    BY <1>4, <1>a, TotalFinite
<1> QED
    BY <1>3, <1>4, <1>5, <1>6

\* A sum over senders is a number, it covers each of its sends, and it grows
\* with the places it ranges over.
LEMMA SendTotals ==
    ASSUME tx \in [Senders -> SendRecord]
    PROVE  /\ OfSenders(Counting) \in Nat /\ OfSenders(Crediting) \in Nat
           /\ OfSenders(Counting) <= OfSenders(Crediting)
           /\ \A s \in Senders : Weight(tx[s], Counting) <= OfSenders(Counting)
<1>0. \A x \in SendRecord : /\ Weight(x, Counting) \in Nat /\ Weight(x, Crediting) \in Nat
                            /\ Weight(x, Counting) <= Weight(x, Crediting)
    BY SendSizes DEF Weight, Crediting
<1>1. PICK f : f = [x \in Senders |-> Weight(tx[x], Counting)]
    OBVIOUS
<1>2. PICK g : g = [x \in Senders |-> Weight(tx[x], Crediting)]
    OBVIOUS
<1>3. OfSenders(Counting) = Total(f) /\ OfSenders(Crediting) = Total(g)
    BY <1>1, <1>2 DEF OfSenders, Weight
<1>4. /\ f \in [Senders -> Nat] /\ g \in [Senders -> Nat]
      /\ \A x \in Senders : f[x] <= g[x] /\ f[x] = Weight(tx[x], Counting)
    BY <1>0, <1>1, <1>2
<1>5. IsFiniteSet(Senders)
    BY MailboxAssumption
<1>6. Total(f) \in Nat /\ Total(g) \in Nat
    BY <1>4, <1>5, TotalFinite
<1>7. Total(f) <= Total(g)
    BY <1>4, <1>5, TotalMonotone
<1>8. \A x \in Senders : f[x] <= Total(f)
    BY <1>4, <1>5, TotalCovers
<1> QED
    BY <1>3, <1>4, <1>5, <1>6, <1>7, <1>8

Slot(r) == IF r.pc \in {"reserved", "publish"} THEN 1 ELSE 0

\* The sends that have a slot, after a step of one sender.
LEMMA SlotMoves ==
    ASSUME tx \in [Senders -> SendRecord], NEW s \in Senders, NEW r \in SendRecord,
           Moves(s, r)
    PROVE  /\ Cardinality(Reserving) \in Nat /\ Cardinality(Reserving') \in Nat
           /\ Cardinality(Reserving') + Slot(tx[s]) = Cardinality(Reserving) + Slot(r)
<1>1. Reserving \in SUBSET Senders /\ Reserving' \in SUBSET Senders
    BY DEF Reserving
<1>2. IsFiniteSet(Reserving) /\ IsFiniteSet(Reserving')
    BY <1>1, MailboxAssumption, FS_Subset
<1>3. Cardinality(Reserving) \in Nat /\ Cardinality(Reserving') \in Nat
    BY <1>2, FS_CardinalityType
<1>4. /\ s \in Reserving <=> Slot(tx[s]) = 1
      /\ s \in Reserving' <=> Slot(r) = 1
      /\ Slot(tx[s]) \in {0, 1} /\ Slot(r) \in {0, 1}
      /\ \A x \in Senders : x # s => (x \in Reserving' <=> x \in Reserving)
    BY DEF Reserving, Slot, Moves
<1>5. CASE s \in Reserving'
    <2>1. Reserving' = Reserving \cup {s}
        BY <1>1, <1>4, <1>5
    <2>2. Cardinality(Reserving \cup {s}) = IF s \in Reserving THEN Cardinality(Reserving)
                                            ELSE Cardinality(Reserving) + 1
        BY <1>2, FS_AddElement
    <2> QED
        BY <1>3, <1>4, <1>5, <2>1, <2>2
<1>6. CASE s \notin Reserving'
    <2>1. Reserving' = Reserving \ {s}
        BY <1>1, <1>4, <1>6
    <2>2. Cardinality(Reserving \ {s}) = IF s \in Reserving THEN Cardinality(Reserving) - 1
                                         ELSE Cardinality(Reserving)
        BY <1>2, FS_RemoveElement
    <2> QED
        BY <1>3, <1>4, <1>6, <2>1, <2>2
<1> QED
    BY <1>5, <1>6

\* One more envelope of a size adds its bytes, and one to the number of them.
LEMMA OneMore ==
    ASSUME NEW f \in Counts, NEW g \in Counts, NEW n \in Fits,
           g[n] = f[n] + 1, \A x \in Fits : x # n => g[x] = f[x]
    PROVE  /\ Bytes(f) \in Nat /\ Bytes(g) \in Nat /\ Bytes(g) = Bytes(f) + n
           /\ Total(f) \in Nat /\ Total(g) \in Nat /\ Total(g) = Total(f) + 1
<1>0. /\ Fits \subseteq Nat /\ IsFiniteSet(Fits) /\ n \in Nat
      /\ f \in [Fits -> Nat] /\ g \in [Fits -> Nat] /\ g[n] = f[n] + 1
    BY FitsFinite DEF Counts
<1>1. PICK F : F = [x \in Fits |-> x * f[x]]
    OBVIOUS
<1>2. PICK G : G = [x \in Fits |-> x * g[x]]
    OBVIOUS
<1>3. \A a, b \in Nat : a * b \in Nat /\ a * (b + 1) = a * b + a
    OBVIOUS
<1>4. F \in [Fits -> Nat] /\ G \in [Fits -> Nat]
    BY <1>0, <1>1, <1>2, <1>3
<1>5. F[n] = n * f[n] /\ G[n] = n * g[n] /\ \A x \in Fits : x # n => G[x] = F[x]
    BY <1>0, <1>1, <1>2
<1>6. G[n] = F[n] + n
    BY <1>0, <1>3, <1>5
<1>a. IsFiniteSet(Fits)
    BY <1>0
<1>b. \A x \in Fits : x # n => G[x] = F[x]
    BY <1>5
<1>c. f \in [Fits -> Nat] /\ g \in [Fits -> Nat] /\ \A x \in Fits : x # n => g[x] = f[x]
    BY <1>0
<1>d. Total(G) + F[n] = Total(F) + G[n]
    BY <1>4, <1>a, <1>b, TotalUpdate
<1>e. Total(g) + f[n] = Total(f) + g[n]
    BY <1>c, <1>a, TotalUpdate
<1>7. /\ Total(G) + F[n] = Total(F) + G[n] /\ Total(F) \in Nat /\ Total(G) \in Nat
      /\ F[n] \in Nat
    BY <1>4, <1>a, <1>d, TotalFinite
<1>8. Bytes(f) = Total(F) /\ Bytes(g) = Total(G)
    BY <1>1, <1>2 DEF Bytes
<1>9. Total(g) + f[n] = Total(f) + g[n] /\ Total(f) \in Nat /\ Total(g) \in Nat
    BY <1>c, <1>a, <1>e, TotalFinite
<1>10. f[n] \in Nat
    BY <1>0
<1> QED
    BY <1>0, <1>6, <1>7, <1>8, <1>9, <1>10

\* The bytes of some envelopes are a number.
LEMMA BytesTyped ==
    ASSUME NEW f \in Counts
    PROVE  Bytes(f) \in Nat /\ Total(f) \in Nat
<1>1. PICK F : F = [x \in Fits |-> x * f[x]]
    OBVIOUS
<1>2. \A a, b \in Nat : a * b \in Nat
    OBVIOUS
<1>3. F \in [Fits -> Nat]
    BY <1>1, <1>2, FitsFinite DEF Counts
<1> QED
    BY <1>1, <1>3, FitsFinite, TotalFinite DEF Bytes, Counts

\* The bytes in the channel are a number.
LEMMA QueueTyped ==
    ASSUME NEW c \in Seq(Fits)
    PROVE  Total(c) \in Nat /\ c \in Seq(Nat) /\ Len(c) \in Nat
<1>1. Len(c) \in Nat /\ c \in [1 .. Len(c) -> Fits]
    BY LenProperties
<1>2. c \in [1 .. Len(c) -> Nat] /\ c \in Seq(Nat)
    <2>1. Fits \subseteq Nat
        BY FitsFinite
    <2>2. c \in [1 .. Len(c) -> Nat]
        BY <1>1, <2>1
    <2>3. c \in Seq(Nat)
        BY <1>1, <2>2, SeqDef
    <2> QED
        BY <2>2, <2>3
<1>3. IsFiniteSet(1 .. Len(c))
    BY <1>1, FS_Interval
<1> QED
    BY <1>1, <1>2, <1>3, TotalFinite


-----------------------------------------------------------------------------
(* Effects.                                                                *)

Pcs == {"idle", "credit", "waitCredit", "count", "slot", "waitSlot", "reserved",
        "publish", "uncount", "refund"}

\* A send that goes on keeps its size.
LEMMA GoesOn ==
    ASSUME tx \in [Senders -> SendRecord], NEW s \in Senders, NEW pc \in Pcs, Goto(s, pc)
    PROVE  \E r \in SendRecord : Moves(s, r) /\ r.pc = pc /\ r.n = tx[s].n
<1>1. PICK r : r = [tx[s] EXCEPT !.pc = pc]
    OBVIOUS
<1>2. r \in SendRecord /\ r.pc = pc /\ r.n = tx[s].n
    BY <1>1 DEF SendRecord, Pcs
<1>3. Moves(s, r)
    BY <1>1 DEF Goto, Moves
<1> QED
    BY <1>2, <1>3

\* A send that ends has no size.
LEMMA Ends == NoSend \in SendRecord /\ NoSend.pc = "idle" /\ NoSend.n = 0
BY DEF NoSend, SendRecord

\* Envelope::drop takes n bytes off the gauges and leaves h envelopes held.
Uncounts(n, h) ==
    /\ gauge' \in Gauge /\ gauge'.reserved = gauge.reserved - n /\ gauge'.errors = 0
    /\ gauge'.held = h
    /\ gauge'.open = gauge.open /\ gauge'.queued = gauge.queued
    /\ gauge'.queuedBytes = gauge.queuedBytes /\ gauge'.stamps = gauge.stamps
    /\ gauge'.pending = gauge.pending

\* It takes off what was counted, without an underflow.
LEMMA UncountSent ==
    ASSUME gauge \in Gauge, NEW n \in Nat, n <= gauge.reserved, gauge.errors = 0,
           NEW isHeld \in BOOLEAN, isHeld => gauge.held # 0,
           gauge' = Uncounted(n, isHeld)
    PROVE  Uncounts(n, IF isHeld THEN gauge.held - 1 ELSE gauge.held)
<1>0. gauge.reserved \in Nat /\ gauge.held \in Nat
    BY DEF Gauge
<1>1. PICK a \in Nat : a = gauge.reserved - n /\ a = Saturating(gauge.reserved, n)
    BY <1>0 DEF Saturating
<1>2. PICK h \in Nat : /\ h = (IF isHeld THEN gauge.held - 1 ELSE gauge.held)
                       /\ h = (IF isHeld THEN Saturating(gauge.held, 1) ELSE gauge.held)
    BY <1>0 DEF Saturating
<1>3. PICK e : /\ e = 0
               /\ e = (IF gauge.reserved < n \/ (isHeld /\ gauge.held = 0) THEN 1
                       ELSE gauge.errors)
    BY <1>0
<1>4. gauge' = [gauge EXCEPT !.reserved = a, !.held = h, !.errors = e]
    BY <1>1, <1>2, <1>3 DEF Uncounted
<1>5. e \in Nat
    BY <1>3
<1>6. /\ gauge' \in Gauge /\ gauge'.reserved = a
      /\ gauge'.held = h /\ gauge'.errors = e
      /\ gauge'.open = gauge.open /\ gauge'.queued = gauge.queued
      /\ gauge'.queuedBytes = gauge.queuedBytes /\ gauge'.stamps = gauge.stamps
      /\ gauge'.pending = gauge.pending
    BY <1>4, <1>5 DEF Gauge
<1> QED
    BY <1>1, <1>2, <1>3, <1>6 DEF Uncounts

\* The same for an envelope in the consumer's hands.
LEMMA UncountHeld ==
    ASSUME gauge \in Gauge, NEW n \in Nat, n <= gauge.reserved, gauge.errors = 0,
           gauge.held # 0, gauge' = Uncounted(n, TRUE)
    PROVE  Uncounts(n, gauge.held - 1)
BY UncountSent

\* The same for any other envelope.
LEMMA UncountLoose ==
    ASSUME gauge \in Gauge, NEW n \in Nat, n <= gauge.reserved, gauge.errors = 0,
           gauge' = Uncounted(n, FALSE)
    PROVE  Uncounts(n, gauge.held)
BY UncountSent

\* What a sender's step leaves alone: the envelopes, and every gauge but the
\* reserved bytes.
EnvelopesStay == chan' = chan /\ held' = held /\ refunds' = refunds /\ rx' = rx
OtherGauges ==
    /\ gauge' \in Gauge
    /\ gauge'.open = gauge.open /\ gauge'.queued = gauge.queued
    /\ gauge'.queuedBytes = gauge.queuedBytes /\ gauge'.stamps = gauge.stamps
    /\ gauge'.pending = gauge.pending /\ gauge'.errors = gauge.errors
    /\ gauge'.held = gauge.held

\* The numbers of the accounts.
LEMMA Numbers ==
    ASSUME Typed
    PROVE  /\ free \in Nat /\ slots \in Nat /\ Queued \in Nat /\ Len(chan) \in Nat
           /\ Bytes(held) \in Nat /\ Bytes(refunds) \in Nat /\ Total(held) \in Nat
           /\ OfSenders(Counting) \in Nat /\ OfSenders(Crediting) \in Nat
           /\ gauge.reserved \in Nat /\ gauge.queued \in Nat /\ gauge.held \in Nat
           /\ gauge.queuedBytes \in Nat /\ gauge.stamps \in Nat /\ gauge.pending \in Nat
           /\ gauge.open \in BOOLEAN
           /\ \A s \in Senders : tx[s] \in SendRecord /\ tx[s].n \in Nat
<1>1. free \in Nat /\ slots \in Nat
    BY DEF Typed
<1>2. Queued \in Nat /\ Len(chan) \in Nat
    BY QueueTyped DEF Typed, Queued
<1>3. Bytes(held) \in Nat /\ Bytes(refunds) \in Nat /\ Total(held) \in Nat
    BY BytesTyped DEF Typed
<1>4. OfSenders(Counting) \in Nat /\ OfSenders(Crediting) \in Nat
    BY SendTotals DEF Typed
<1>5. /\ gauge.reserved \in Nat /\ gauge.queued \in Nat /\ gauge.held \in Nat
      /\ gauge.queuedBytes \in Nat /\ gauge.stamps \in Nat /\ gauge.pending \in Nat
      /\ gauge.open \in BOOLEAN
    BY DEF Typed, Gauge
<1>6. \A s \in Senders : tx[s] \in SendRecord /\ tx[s].n \in Nat
    BY SendSizes DEF Typed
<1> QED
    BY <1>1, <1>2, <1>3, <1>4, <1>5, <1>6

\* The credit and the slots that a sender's step takes are taken off what is
\* free, and what it counts is counted.
Pays(s, r) ==
    /\ r.pc # "idle" => r.n \in Fits
    /\ EnvelopesStay /\ OtherGauges
    /\ free' \in Nat /\ free' + Weight(r, Crediting) = free + Weight(tx[s], Crediting)
    /\ slots' \in Nat /\ slots' + Slot(r) = slots + Slot(tx[s])
    /\ gauge'.reserved + Weight(tx[s], Counting) = gauge.reserved + Weight(r, Counting)

\* A sender's step that pays for what it takes keeps the accounts.
LEMMA MoveKeeps ==
    ASSUME AccountsInv, NEW s \in Senders, NEW r \in SendRecord, Moves(s, r),
           Pays(s, r)
    PROVE  AccountsInv'
<1>0. Typed /\ Working /\ CreditConserved /\ Counted
    BY DEF AccountsInv
<1>1. /\ Queued' = Queued /\ Bytes(held)' = Bytes(held)
      /\ Bytes(refunds)' = Bytes(refunds)
    BY DEF Pays, EnvelopesStay, Queued, Bytes, Total, Units
<1>12. Len(chan)' = Len(chan) /\ Total(held)' = Total(held)
    BY DEF Pays, EnvelopesStay, Total, Units
<1>2. tx \in [Senders -> SendRecord]
    BY <1>0 DEF Typed
<1>3. /\ OfSenders(Crediting) \in Nat /\ OfSenders(Crediting)' \in Nat
      /\ OfSenders(Crediting)' + Weight(tx[s], Crediting)
            = OfSenders(Crediting) + Weight(r, Crediting)
    BY <1>2, SendMoves
<1>4. /\ OfSenders(Counting) \in Nat /\ OfSenders(Counting)' \in Nat
      /\ OfSenders(Counting)' + Weight(tx[s], Counting)
            = OfSenders(Counting) + Weight(r, Counting)
    BY <1>2, SendMoves
<1>5. /\ Cardinality(Reserving) \in Nat /\ Cardinality(Reserving') \in Nat
      /\ Cardinality(Reserving') + Slot(tx[s]) = Cardinality(Reserving) + Slot(r)
    BY <1>2, SlotMoves
<1>6. /\ Weight(tx[s], Crediting) \in Nat /\ Weight(r, Crediting) \in Nat
      /\ Weight(tx[s], Counting) \in Nat /\ Weight(r, Counting) \in Nat
    BY <1>2, SendSizes DEF Weight
<1>14. Slot(tx[s]) \in Nat /\ Slot(r) \in Nat
    BY DEF Slot
<1>13. slots \in Nat /\ Len(chan) \in Nat
    BY <1>0, Numbers
<1>11. /\ free \in Nat /\ Queued \in Nat
       /\ Bytes(held) \in Nat /\ Bytes(refunds) \in Nat /\ gauge.reserved \in Nat
    BY <1>0, Numbers
<1>7. Typed'
    BY <1>0 DEF Typed, Pays, EnvelopesStay, OtherGauges, Moves
<1>8. Working'
    BY <1>0, <1>2 DEF Working, Pays, EnvelopesStay, OtherGauges, Moves
<1>9. CreditConserved'
    <2>1. free + OfSenders(Crediting) + Queued + Bytes(held) + Bytes(refunds) = MaxBytes
        BY <1>0 DEF CreditConserved
    <2>5. /\ free' \in Nat
          /\ free' + Weight(r, Crediting) = free + Weight(tx[s], Crediting)
        BY DEF Pays
    <2>6. slots' \in Nat /\ slots' + Slot(r) = slots + Slot(tx[s])
        BY DEF Pays
    <2>2. free' + OfSenders(Crediting)' + Queued' + Bytes(held)' + Bytes(refunds)' = MaxBytes
        BY <1>1, <1>3, <1>6, <1>11, <2>1, <2>5
    <2>3. slots + Len(chan) + Cardinality(Reserving) = MaxItems
        BY <1>0 DEF CreditConserved
    <2>4. slots' + Len(chan)' + Cardinality(Reserving') = MaxItems
        <3>1. PICK k \in Nat : k = Len(chan) /\ k = Len(chan)'
            BY <1>12, <1>13
        <3>2. PICK a \in Nat : a = Cardinality(Reserving)
            BY <1>5
        <3>3. PICK b \in Nat : b = Cardinality(Reserving')
            BY <1>5
        <3>4. /\ b + Slot(tx[s]) = a + Slot(r) /\ slots + k + a = MaxItems
              /\ slots' \in Nat /\ slots' + Slot(r) = slots + Slot(tx[s])
              /\ slots \in Nat
            BY <1>5, <1>13, <2>3, <2>6, <3>1, <3>2, <3>3
        <3>5. slots' + k + b = MaxItems
            BY <1>14, <3>4
        <3> QED
            BY <3>1, <3>3, <3>5
    <2> QED
        BY <2>2, <2>4 DEF CreditConserved
<1>10. Counted'
    <2>1. gauge'.reserved = OfSenders(Counting)' + Queued' + Bytes(held)'
        <3>1. gauge.reserved = OfSenders(Counting) + Queued + Bytes(held)
            BY <1>0 DEF Counted
        <3>2. gauge'.reserved \in Nat
            BY DEF Pays, OtherGauges, Gauge
        <3>3. gauge'.reserved + Weight(tx[s], Counting) = gauge.reserved + Weight(r, Counting)
            BY DEF Pays
        <3>4. /\ Queued \in Nat /\ Bytes(held) \in Nat /\ gauge.reserved \in Nat
              /\ Queued' = Queued /\ Bytes(held)' = Bytes(held)
            BY <1>1, <1>11
        <3>5. Weight(tx[s], Counting) \in Nat /\ Weight(r, Counting) \in Nat
            BY <1>6
        <3> QED
            BY <1>4, <3>1, <3>2, <3>3, <3>4, <3>5
    <2>2. gauge'.held = Total(held)'
        BY <1>0, <1>12 DEF Counted, Pays, OtherGauges
    <2> QED
        BY <1>0, <1>1, <1>12, <2>1, <2>2 DEF Counted, Pays, OtherGauges
<1> QED
    BY <1>7, <1>8, <1>9, <1>10 DEF AccountsInv

\* What a send weighs, by where it is.
LEMMA Weights ==
    ASSUME NEW r
    PROVE  /\ r.pc \in {"idle", "credit", "waitCredit"} =>
                 Weight(r, Crediting) = 0 /\ Weight(r, Counting) = 0 /\ Slot(r) = 0
           /\ r.pc \in {"count", "refund"} =>
                 Weight(r, Crediting) = r.n /\ Weight(r, Counting) = 0 /\ Slot(r) = 0
           /\ r.pc \in {"slot", "waitSlot", "uncount"} =>
                 Weight(r, Crediting) = r.n /\ Weight(r, Counting) = r.n /\ Slot(r) = 0
           /\ r.pc \in {"reserved", "publish"} =>
                 Weight(r, Crediting) = r.n /\ Weight(r, Counting) = r.n /\ Slot(r) = 1
BY DEF Weight, Slot, Crediting, Counting

\* Every step of a sender that leaves the envelopes alone keeps the accounts.
LEMMA SenderStep ==
    ASSUME AccountsInv, NEW s \in Senders,
           \/ \E n \in Sizes, wait \in BOOLEAN : Send(s, n, wait)
           \/ Step(s) /\ ~(Publish(s) /\ gauge.open)
           \/ CreditGivenUp(s)
           \/ SlotRefused(s)
    PROVE  AccountsInv'
<1>0. Typed /\ Working /\ Counted
    BY DEF AccountsInv
<1>1. /\ tx \in [Senders -> SendRecord] /\ gauge \in Gauge
      /\ free \in Nat /\ slots \in Nat
      /\ gauge.reserved \in Nat
    BY <1>0 DEF Typed, Gauge
<1>2. PICK n \in Nat : n = tx[s].n
    BY <1>1, SendSizes
<1>3. tx[s].pc # "idle" => n \in Fits
    BY <1>0, <1>2 DEF Working
<1>4. gauge' = gauge => OtherGauges /\ gauge'.reserved = gauge.reserved
    BY <1>1 DEF OtherGauges
<1>5. CASE \E m \in Sizes, wait \in BOOLEAN : Send(s, m, wait)
    <2>1. tx[s].pc = "idle"
        BY <1>5 DEF Send
    <2>2. PICK r \in SendRecord : Moves(s, r) /\ r.pc = "credit" /\ r.n \in Fits
        <3>1. PICK m \in Sizes, wait \in BOOLEAN : Send(s, m, wait)
            BY <1>5
        <3>2. PICK r : r = [pc |-> "credit", n |-> m, wait |-> wait]
            OBVIOUS
        <3>3. m \in Fits /\ Moves(s, r)
            BY <3>1, <3>2 DEF Send, Moves
        <3>4. r \in SendRecord /\ r.pc = "credit" /\ r.n = m
            BY <3>2, <3>3 DEF SendRecord
        <3> QED
            BY <3>3, <3>4
    <2>3. /\ Weight(tx[s], Crediting) = 0 /\ Weight(tx[s], Counting) = 0
          /\ Slot(tx[s]) = 0
        BY <1>2, <2>1, Weights
    <2>4. Weight(r, Crediting) = 0 /\ Weight(r, Counting) = 0 /\ Slot(r) = 0
        BY <2>2, Weights
    <2>5. EnvelopesStay /\ free' = free /\ slots' = slots
        BY <1>5 DEF Send, EnvelopesStay
    <2>7. OtherGauges /\ gauge'.reserved = gauge.reserved
        BY <1>4, <1>5 DEF Send
    <2>8. Pays(s, r)
        BY <1>3, <2>1, <2>2, <1>1, <1>2, <2>3, <2>4, <2>5, <2>7 DEF Pays
    <2> QED
        BY <2>2, <2>8, MoveKeeps
<1>6. CASE TryCredit(s)
    <2>1. CASE byteWait = <<>> /\ free >= tx[s].n
        <3>1. tx[s].pc = "credit"
            BY <1>6, <2>1 DEF TryCredit
        <3>2. PICK r \in SendRecord : Moves(s, r) /\ r.pc = "count" /\ r.n = n
            <4>1. Goto(s, "count")
                BY <1>6, <2>1 DEF TryCredit
            <4> QED
                BY <1>1, <1>2, <4>1, GoesOn DEF Pcs
        <3>3. /\ Weight(tx[s], Crediting) = 0 /\ Weight(tx[s], Counting) = 0
              /\ Slot(tx[s]) = 0
            BY <1>2, <3>1, Weights
        <3>4. Weight(r, Crediting) = n /\ Weight(r, Counting) = 0 /\ Slot(r) = 0
            BY <3>2, Weights
        <3>5. EnvelopesStay /\ slots' = slots
            BY <1>6, <2>1 DEF TryCredit, EnvelopesStay
        <3>6. free' = free - n /\ free' \in Nat
            BY <1>1, <1>2, <1>6, <2>1 DEF TryCredit
        <3>7. OtherGauges /\ gauge'.reserved = gauge.reserved
            BY <1>4, <1>6, <2>1 DEF TryCredit
        <3>8. Pays(s, r)
            BY <1>3, <3>1, <3>2, <1>1, <1>2, <3>3, <3>4, <3>5, <3>7, <3>6 DEF Pays
        <3> QED
            BY <3>2, <3>8, MoveKeeps
    <2>2. CASE ~(byteWait = <<>> /\ free >= tx[s].n)
        <3>1. tx[s].pc = "credit"
            BY <1>6, <2>2 DEF TryCredit
        <3>2. PICK r \in SendRecord : Moves(s, r) /\ r.pc = "waitCredit" /\ r.n = n
            <4>1. Goto(s, "waitCredit")
                BY <1>6, <2>2 DEF TryCredit
            <4> QED
                BY <1>1, <1>2, <4>1, GoesOn DEF Pcs
        <3>3. /\ Weight(tx[s], Crediting) = 0 /\ Weight(tx[s], Counting) = 0
              /\ Slot(tx[s]) = 0
            BY <1>2, <3>1, Weights
        <3>4. Weight(r, Crediting) = 0 /\ Weight(r, Counting) = 0 /\ Slot(r) = 0
            BY <3>2, Weights
        <3>5. EnvelopesStay /\ free' = free /\ slots' = slots
            BY <1>6, <2>2 DEF TryCredit, EnvelopesStay
        <3>7. OtherGauges /\ gauge'.reserved = gauge.reserved
            BY <1>4, <1>6, <2>2 DEF TryCredit
        <3>8. Pays(s, r)
            BY <1>3, <3>1, <3>2, <1>1, <1>2, <3>3, <3>4, <3>5, <3>7 DEF Pays
        <3> QED
            BY <3>2, <3>8, MoveKeeps
    <2> QED
        BY <2>1, <2>2
<1>7. CASE CreditRefused(s)
    <2>1. tx[s].pc = "credit"
        BY <1>7 DEF CreditRefused, Return
    <2>2. PICK r \in SendRecord : Moves(s, r) /\ r.pc = "idle" /\ r.n = 0
        BY <1>7, Ends DEF CreditRefused, Return, Moves
    <2>3. /\ Weight(tx[s], Crediting) = 0 /\ Weight(tx[s], Counting) = 0
          /\ Slot(tx[s]) = 0
        BY <1>2, <2>1, Weights
    <2>4. Weight(r, Crediting) = 0 /\ Weight(r, Counting) = 0 /\ Slot(r) = 0
        BY <2>2, Weights
    <2>5. EnvelopesStay /\ free' = free /\ slots' = slots
        BY <1>7 DEF CreditRefused, Return, EnvelopesStay
    <2>7. OtherGauges /\ gauge'.reserved = gauge.reserved
        BY <1>4, <1>7 DEF CreditRefused, Return
    <2>8. Pays(s, r)
        BY <1>3, <2>1, <2>2, <1>1, <1>2, <2>3, <2>4, <2>5, <2>7 DEF Pays
    <2> QED
        BY <2>2, <2>8, MoveKeeps
<1>8. CASE CreditGivenUp(s)
    <2>1. tx[s].pc = "waitCredit"
        BY <1>8 DEF CreditGivenUp, Return
    <2>2. PICK r \in SendRecord : Moves(s, r) /\ r.pc = "idle" /\ r.n = 0
        BY <1>8, Ends DEF CreditGivenUp, Return, Moves
    <2>3. /\ Weight(tx[s], Crediting) = 0 /\ Weight(tx[s], Counting) = 0
          /\ Slot(tx[s]) = 0
        BY <1>2, <2>1, Weights
    <2>4. Weight(r, Crediting) = 0 /\ Weight(r, Counting) = 0 /\ Slot(r) = 0
        BY <2>2, Weights
    <2>5. EnvelopesStay /\ free' = free /\ slots' = slots
        BY <1>8 DEF CreditGivenUp, Return, EnvelopesStay
    <2>7. OtherGauges /\ gauge'.reserved = gauge.reserved
        BY <1>4, <1>8 DEF CreditGivenUp, Return
    <2>8. Pays(s, r)
        BY <1>3, <2>1, <2>2, <1>1, <1>2, <2>3, <2>4, <2>5, <2>7 DEF Pays
    <2> QED
        BY <2>2, <2>8, MoveKeeps
<1>9. CASE CreditGranted(s)
    <2>1. tx[s].pc = "waitCredit"
        BY <1>9 DEF CreditGranted, CreditTurn
    <2>2. PICK r \in SendRecord : Moves(s, r) /\ r.pc = "count" /\ r.n = n
        <3>1. Goto(s, "count")
            BY <1>9 DEF CreditGranted, CreditTurn
        <3> QED
            BY <1>1, <1>2, <3>1, GoesOn DEF Pcs
    <2>3. /\ Weight(tx[s], Crediting) = 0 /\ Weight(tx[s], Counting) = 0
          /\ Slot(tx[s]) = 0
        BY <1>2, <2>1, Weights
    <2>4. Weight(r, Crediting) = n /\ Weight(r, Counting) = 0 /\ Slot(r) = 0
        BY <2>2, Weights
    <2>5. EnvelopesStay /\ slots' = slots
        BY <1>9 DEF CreditGranted, CreditTurn, EnvelopesStay
    <2>6. free' = free - n /\ free' \in Nat
        BY <1>1, <1>2, <1>9 DEF CreditGranted, CreditTurn
    <2>7. OtherGauges /\ gauge'.reserved = gauge.reserved
        BY <1>4, <1>9 DEF CreditGranted, CreditTurn
    <2>8. Pays(s, r)
        BY <1>3, <2>1, <2>2, <1>1, <1>2, <2>3, <2>4, <2>5, <2>7, <2>6 DEF Pays
    <2> QED
        BY <2>2, <2>8, MoveKeeps
<1>10. CASE Count(s)
    <2>1. tx[s].pc = "count"
        BY <1>10 DEF Count
    <2>2. PICK r \in SendRecord : Moves(s, r) /\ r.pc = "slot" /\ r.n = n
        <3>1. Goto(s, "slot")
            BY <1>10 DEF Count
        <3> QED
            BY <1>1, <1>2, <3>1, GoesOn DEF Pcs
    <2>3. /\ Weight(tx[s], Crediting) = n /\ Weight(tx[s], Counting) = 0
          /\ Slot(tx[s]) = 0
        BY <1>2, <2>1, Weights
    <2>4. Weight(r, Crediting) = n /\ Weight(r, Counting) = n /\ Slot(r) = 0
        BY <2>2, Weights
    <2>5. EnvelopesStay /\ free' = free /\ slots' = slots
        BY <1>10 DEF Count, EnvelopesStay
    <2>7. OtherGauges /\ gauge'.reserved = gauge.reserved + n
        <3>1. PICK a \in Nat : a = gauge.reserved + n
            BY <1>1, <1>2
        <3>2. gauge' = [gauge EXCEPT !.reserved = a]
            BY <1>2, <1>10, <3>1 DEF Count
        <3> QED
            BY <1>1, <3>1, <3>2 DEF OtherGauges, Gauge
    <2>8. Pays(s, r)
        BY <1>3, <2>1, <2>2, <1>1, <1>2, <2>3, <2>4, <2>5, <2>7 DEF Pays
    <2> QED
        BY <2>2, <2>8, MoveKeeps
<1>11. CASE TrySlot(s)
    <2>1. CASE slotWait = <<>> /\ slots > 0
        <3>1. tx[s].pc = "slot"
            BY <1>11, <2>1 DEF TrySlot
        <3>2. PICK r \in SendRecord : Moves(s, r) /\ r.pc = "reserved" /\ r.n = n
            <4>1. Goto(s, "reserved")
                BY <1>11, <2>1 DEF TrySlot
            <4> QED
                BY <1>1, <1>2, <4>1, GoesOn DEF Pcs
        <3>3. /\ Weight(tx[s], Crediting) = n /\ Weight(tx[s], Counting) = n
              /\ Slot(tx[s]) = 0
            BY <1>2, <3>1, Weights
        <3>4. Weight(r, Crediting) = n /\ Weight(r, Counting) = n /\ Slot(r) = 1
            BY <3>2, Weights
        <3>5. EnvelopesStay /\ free' = free
            BY <1>11, <2>1 DEF TrySlot, EnvelopesStay
        <3>6. slots' = slots - 1 /\ slots' \in Nat
            BY <1>1, <1>11, <2>1 DEF TrySlot
        <3>7. OtherGauges /\ gauge'.reserved = gauge.reserved
            BY <1>4, <1>11, <2>1 DEF TrySlot
        <3>8. Pays(s, r)
            BY <1>3, <3>1, <3>2, <1>1, <1>2, <3>3, <3>4, <3>5, <3>7, <3>6 DEF Pays
        <3> QED
            BY <3>2, <3>8, MoveKeeps
    <2>2. CASE ~(slotWait = <<>> /\ slots > 0)
        <3>1. tx[s].pc = "slot"
            BY <1>11, <2>2 DEF TrySlot
        <3>2. PICK r \in SendRecord : Moves(s, r) /\ r.pc = "waitSlot" /\ r.n = n
            <4>1. Goto(s, "waitSlot")
                BY <1>11, <2>2 DEF TrySlot
            <4> QED
                BY <1>1, <1>2, <4>1, GoesOn DEF Pcs
        <3>3. /\ Weight(tx[s], Crediting) = n /\ Weight(tx[s], Counting) = n
              /\ Slot(tx[s]) = 0
            BY <1>2, <3>1, Weights
        <3>4. Weight(r, Crediting) = n /\ Weight(r, Counting) = n /\ Slot(r) = 0
            BY <3>2, Weights
        <3>5. EnvelopesStay /\ free' = free /\ slots' = slots
            BY <1>11, <2>2 DEF TrySlot, EnvelopesStay
        <3>7. OtherGauges /\ gauge'.reserved = gauge.reserved
            BY <1>4, <1>11, <2>2 DEF TrySlot
        <3>8. Pays(s, r)
            BY <1>3, <3>1, <3>2, <1>1, <1>2, <3>3, <3>4, <3>5, <3>7 DEF Pays
        <3> QED
            BY <3>2, <3>8, MoveKeeps
    <2> QED
        BY <2>1, <2>2
<1>12. CASE SlotGranted(s)
    <2>1. tx[s].pc = "waitSlot"
        BY <1>12 DEF SlotGranted
    <2>2. PICK r \in SendRecord : Moves(s, r) /\ r.pc = "reserved" /\ r.n = n
        <3>1. Goto(s, "reserved")
            BY <1>12 DEF SlotGranted
        <3> QED
            BY <1>1, <1>2, <3>1, GoesOn DEF Pcs
    <2>3. /\ Weight(tx[s], Crediting) = n /\ Weight(tx[s], Counting) = n
          /\ Slot(tx[s]) = 0
        BY <1>2, <2>1, Weights
    <2>4. Weight(r, Crediting) = n /\ Weight(r, Counting) = n /\ Slot(r) = 1
        BY <2>2, Weights
    <2>5. EnvelopesStay /\ free' = free
        BY <1>12 DEF SlotGranted, EnvelopesStay
    <2>6. slots' = slots - 1 /\ slots' \in Nat
        BY <1>1, <1>12 DEF SlotGranted
    <2>7. OtherGauges /\ gauge'.reserved = gauge.reserved
        BY <1>4, <1>12 DEF SlotGranted
    <2>8. Pays(s, r)
        BY <1>3, <2>1, <2>2, <1>1, <1>2, <2>3, <2>4, <2>5, <2>7, <2>6 DEF Pays
    <2> QED
        BY <2>2, <2>8, MoveKeeps
<1>13. CASE SlotRefused(s)
    <2>1. tx[s].pc \in {"slot", "waitSlot"}
        BY <1>13 DEF SlotRefused
    <2>2. PICK r \in SendRecord : Moves(s, r) /\ r.pc = "uncount" /\ r.n = n
        <3>1. Goto(s, "uncount")
            BY <1>13 DEF SlotRefused
        <3> QED
            BY <1>1, <1>2, <3>1, GoesOn DEF Pcs
    <2>3. /\ Weight(tx[s], Crediting) = n /\ Weight(tx[s], Counting) = n
          /\ Slot(tx[s]) = 0
        BY <1>2, <2>1, Weights
    <2>4. Weight(r, Crediting) = n /\ Weight(r, Counting) = n /\ Slot(r) = 0
        BY <2>2, Weights
    <2>5. EnvelopesStay /\ free' = free /\ slots' = slots
        BY <1>13 DEF SlotRefused, EnvelopesStay
    <2>7. OtherGauges /\ gauge'.reserved = gauge.reserved
        BY <1>4, <1>13 DEF SlotRefused
    <2>8. Pays(s, r)
        BY <1>3, <2>1, <2>2, <1>1, <1>2, <2>3, <2>4, <2>5, <2>7 DEF Pays
    <2> QED
        BY <2>2, <2>8, MoveKeeps
<1>14. CASE CheckCancel(s)
    <2>1. CASE cancelled
        <3>1. tx[s].pc = "reserved"
            BY <1>14, <2>1 DEF CheckCancel
        <3>2. PICK r \in SendRecord : Moves(s, r) /\ r.pc = "uncount" /\ r.n = n
            <4>1. Goto(s, "uncount")
                BY <1>14, <2>1 DEF CheckCancel
            <4> QED
                BY <1>1, <1>2, <4>1, GoesOn DEF Pcs
        <3>3. /\ Weight(tx[s], Crediting) = n /\ Weight(tx[s], Counting) = n
              /\ Slot(tx[s]) = 1
            BY <1>2, <3>1, Weights
        <3>4. Weight(r, Crediting) = n /\ Weight(r, Counting) = n /\ Slot(r) = 0
            BY <3>2, Weights
        <3>5. EnvelopesStay /\ free' = free
            BY <1>14, <2>1 DEF CheckCancel, EnvelopesStay
        <3>6. slots' = slots + 1 /\ slots' \in Nat
            BY <1>1, <1>14, <2>1 DEF CheckCancel
        <3>7. OtherGauges /\ gauge'.reserved = gauge.reserved
            BY <1>4, <1>14, <2>1 DEF CheckCancel
        <3>8. Pays(s, r)
            BY <1>3, <3>1, <3>2, <1>1, <1>2, <3>3, <3>4, <3>5, <3>7, <3>6 DEF Pays
        <3> QED
            BY <3>2, <3>8, MoveKeeps
    <2>2. CASE ~cancelled
        <3>1. tx[s].pc = "reserved"
            BY <1>14, <2>2 DEF CheckCancel
        <3>2. PICK r \in SendRecord : Moves(s, r) /\ r.pc = "publish" /\ r.n = n
            <4>1. Goto(s, "publish")
                BY <1>14, <2>2 DEF CheckCancel
            <4> QED
                BY <1>1, <1>2, <4>1, GoesOn DEF Pcs
        <3>3. /\ Weight(tx[s], Crediting) = n /\ Weight(tx[s], Counting) = n
              /\ Slot(tx[s]) = 1
            BY <1>2, <3>1, Weights
        <3>4. Weight(r, Crediting) = n /\ Weight(r, Counting) = n /\ Slot(r) = 1
            BY <3>2, Weights
        <3>5. EnvelopesStay /\ free' = free /\ slots' = slots
            BY <1>14, <2>2 DEF CheckCancel, EnvelopesStay
        <3>7. OtherGauges /\ gauge'.reserved = gauge.reserved
            BY <1>4, <1>14, <2>2 DEF CheckCancel
        <3>8. Pays(s, r)
            BY <1>3, <3>1, <3>2, <1>1, <1>2, <3>3, <3>4, <3>5, <3>7 DEF Pays
        <3> QED
            BY <3>2, <3>8, MoveKeeps
    <2> QED
        BY <2>1, <2>2
<1>15. CASE Publish(s) /\ ~gauge.open
    <2>1. tx[s].pc = "publish"
        BY <1>15 DEF Publish, MayPublish
    <2>2. PICK r \in SendRecord : Moves(s, r) /\ r.pc = "uncount" /\ r.n = n
        <3>1. Goto(s, "uncount")
            BY <1>15 DEF Publish, MayPublish
        <3> QED
            BY <1>1, <1>2, <3>1, GoesOn DEF Pcs
    <2>3. /\ Weight(tx[s], Crediting) = n /\ Weight(tx[s], Counting) = n
          /\ Slot(tx[s]) = 1
        BY <1>2, <2>1, Weights
    <2>4. Weight(r, Crediting) = n /\ Weight(r, Counting) = n /\ Slot(r) = 0
        BY <2>2, Weights
    <2>5. EnvelopesStay /\ free' = free
        BY <1>15 DEF Publish, MayPublish, EnvelopesStay
    <2>6. slots' = slots + 1 /\ slots' \in Nat
        BY <1>1, <1>15 DEF Publish, MayPublish
    <2>7. OtherGauges /\ gauge'.reserved = gauge.reserved
        BY <1>4, <1>15 DEF Publish, MayPublish
    <2>8. Pays(s, r)
        BY <1>3, <2>1, <2>2, <1>1, <1>2, <2>3, <2>4, <2>5, <2>7, <2>6 DEF Pays
    <2> QED
        BY <2>2, <2>8, MoveKeeps
<1>16. CASE DropUnsent(s)
    <2>1. tx[s].pc = "uncount"
        BY <1>16 DEF DropUnsent
    <2>2. PICK r \in SendRecord : Moves(s, r) /\ r.pc = "refund" /\ r.n = n
        <3>1. Goto(s, "refund")
            BY <1>16 DEF DropUnsent
        <3> QED
            BY <1>1, <1>2, <3>1, GoesOn DEF Pcs
    <2>3. /\ Weight(tx[s], Crediting) = n /\ Weight(tx[s], Counting) = n
          /\ Slot(tx[s]) = 0
        BY <1>2, <2>1, Weights
    <2>4. Weight(r, Crediting) = n /\ Weight(r, Counting) = 0 /\ Slot(r) = 0
        BY <2>2, Weights
    <2>5. EnvelopesStay /\ free' = free /\ slots' = slots
        BY <1>16 DEF DropUnsent, EnvelopesStay
    <2>9. n <= gauge.reserved
        <3>1. n <= OfSenders(Counting)
            BY <1>1, <2>3, SendTotals
        <3>2. gauge.reserved = OfSenders(Counting) + Queued + Bytes(held)
            BY <1>0 DEF Counted
        <3>3. OfSenders(Counting) \in Nat /\ Queued \in Nat /\ Bytes(held) \in Nat
            BY <1>0, Numbers
        <3> QED
            BY <3>1, <3>2, <3>3
    <2>7. OtherGauges /\ gauge'.reserved = gauge.reserved - n
        <3>1. gauge' = Uncounted(n, FALSE) /\ gauge.errors = 0
            BY <1>0, <1>2, <1>16 DEF DropUnsent, Counted
        <3> QED
            <4>1. Uncounts(n, gauge.held)
                BY <1>1, <2>9, <3>1, UncountLoose
            <4> QED
                BY <3>1, <4>1 DEF OtherGauges, Uncounts
    <2>8. Pays(s, r)
        BY <1>3, <2>1, <2>2, <1>1, <1>2, <2>3, <2>4, <2>5, <2>7 DEF Pays
    <2> QED
        BY <2>2, <2>8, MoveKeeps
<1>17. CASE RefundUnsent(s)
    <2>1. tx[s].pc = "refund"
        BY <1>17 DEF RefundUnsent
    <2>2. PICK r \in SendRecord : Moves(s, r) /\ r.pc = "idle" /\ r.n = 0
        BY <1>17, Ends DEF RefundUnsent, Moves
    <2>3. /\ Weight(tx[s], Crediting) = n /\ Weight(tx[s], Counting) = 0
          /\ Slot(tx[s]) = 0
        BY <1>2, <2>1, Weights
    <2>4. Weight(r, Crediting) = 0 /\ Weight(r, Counting) = 0 /\ Slot(r) = 0
        BY <2>2, Weights
    <2>5. EnvelopesStay /\ slots' = slots
        BY <1>17 DEF RefundUnsent, EnvelopesStay
    <2>6. free' = free + n /\ free' \in Nat
        BY <1>1, <1>2, <1>17 DEF RefundUnsent
    <2>7. OtherGauges /\ gauge'.reserved = gauge.reserved
        BY <1>4, <1>17 DEF RefundUnsent
    <2>8. Pays(s, r)
        BY <1>3, <2>1, <2>2, <1>1, <1>2, <2>3, <2>4, <2>5, <2>7, <2>6 DEF Pays
    <2> QED
        BY <2>2, <2>8, MoveKeeps
<1> QED
    BY <1>5, <1>6, <1>7, <1>8, <1>9, <1>10, <1>11, <1>12, <1>13, <1>14, <1>15,
       <1>16, <1>17 DEF Step

\* The sends that have a slot are finitely many.
LEMMA SlotsTyped == Cardinality(Reserving) \in Nat
<1>1. Reserving \in SUBSET Senders
    BY DEF Reserving
<1>2. IsFiniteSet(Reserving)
    BY <1>1, MailboxAssumption, FS_Subset
<1> QED
    BY <1>2, FS_CardinalityType

\* Without a step of the senders, what they have taken is the same.
LEMMA SendersStay ==
    ASSUME tx' = tx
    PROVE  /\ OfSenders(Counting)' = OfSenders(Counting)
           /\ OfSenders(Crediting)' = OfSenders(Crediting)
           /\ Cardinality(Reserving') = Cardinality(Reserving)
BY DEF OfSenders, Reserving, Counting, Crediting

\* Publishing moves an envelope from its sender to the channel.
LEMMA PublishStep ==
    ASSUME AccountsInv, NEW s \in Senders, Publish(s), gauge.open
    PROVE  AccountsInv'
<1>0. Typed /\ Working /\ CreditConserved /\ Counted
    BY DEF AccountsInv
<1>1. /\ tx \in [Senders -> SendRecord] /\ gauge \in Gauge
      /\ free \in Nat /\ slots \in Nat
      /\ chan \in Seq(Fits)
    BY <1>0 DEF Typed
<1>2. PICK n \in Nat : n = tx[s].n
    BY <1>1, SendSizes
<1>3. tx[s].pc = "publish" /\ n \in Fits
    BY <1>0, <1>2 DEF Publish, Working
<1>4. PICK r \in SendRecord : Moves(s, r) /\ r.pc = "idle" /\ r.n = 0
    BY Ends DEF Publish, MayPublish, Moves
<1>5. Weight(tx[s], Crediting) = n /\ Weight(tx[s], Counting) = n /\ Slot(tx[s]) = 1
    BY <1>2, <1>3, Weights
<1>6. Weight(r, Crediting) = 0 /\ Weight(r, Counting) = 0 /\ Slot(r) = 0
    BY <1>4, Weights
<1>7. /\ chan' = Append(chan, n) /\ slots' = slots /\ free' = free /\ held' = held
      /\ refunds' = refunds /\ rx' = rx
    BY <1>2 DEF Publish, MayPublish
<1>8. PICK o \in Nat : o = OfSenders(Crediting)'
    BY <1>1, <1>4, SendMoves
<1>9. PICK c \in Nat : c = OfSenders(Counting)'
    BY <1>1, <1>4, SendMoves
<1>10. PICK t \in Nat : t = Cardinality(Reserving')
    BY <1>1, <1>4, SlotMoves
<1>11. OfSenders(Crediting) \in Nat /\ OfSenders(Crediting) = o + n
    <2>1. OfSenders(Crediting) \in Nat /\ o + n = OfSenders(Crediting) + 0
        BY <1>1, <1>4, <1>5, <1>6, <1>8, SendMoves
    <2> QED
        BY <2>1
<1>12. OfSenders(Counting) \in Nat /\ OfSenders(Counting) = c + n
    <2>1. OfSenders(Counting) \in Nat /\ c + n = OfSenders(Counting) + 0
        BY <1>1, <1>4, <1>5, <1>6, <1>9, SendMoves
    <2> QED
        BY <2>1
<1>13. Cardinality(Reserving) = t + 1
    <2>1. Cardinality(Reserving) \in Nat /\ t + 1 = Cardinality(Reserving) + 0
        BY <1>1, <1>4, <1>5, <1>6, <1>10, SlotMoves
    <2> QED
        BY <2>1
<1>14. PICK q \in Nat : q = Queued
    BY <1>0, Numbers
<1>15. PICK k \in Nat : k = Len(chan)
    BY <1>0, Numbers
<1>16. Queued' = q + n
    <2>1. Total(Append(chan, n)) = Total(chan) + n
        BY <1>1, QueueTyped, TotalAppend
    <2> QED
        BY <1>7, <1>14, <2>1 DEF Queued
<1>17. Len(chan)' = k + 1 /\ chan' \in Seq(Fits)
    BY <1>1, <1>3, <1>7, <1>15
<1>18. /\ Bytes(held)' = Bytes(held) /\ Bytes(refunds)' = Bytes(refunds)
       /\ Total(held)' = Total(held)
    BY <1>7 DEF Bytes, Total, Units
<1>19. Bytes(held) \in Nat /\ Bytes(refunds) \in Nat
    BY <1>0, Numbers
<1>20. /\ gauge.queued = k /\ gauge.queuedBytes = q
       /\ gauge.stamps = k /\ gauge.pending = k
       /\ gauge.errors = 0 /\ gauge.held = Total(held)
       /\ gauge.reserved = OfSenders(Counting) + q + Bytes(held)
    BY <1>0, <1>14, <1>15 DEF Counted
<1>21. /\ gauge' \in Gauge /\ gauge'.queued = k + 1 /\ gauge'.queuedBytes = q + n
       /\ gauge'.stamps = k + 1 /\ gauge'.pending = k + 1
       /\ gauge'.errors = gauge.errors /\ gauge'.held = gauge.held
       /\ gauge'.reserved = gauge.reserved /\ gauge'.open = gauge.open
    <2>1. PICK a \in Nat : a = k + 1
        OBVIOUS
    <2>2. PICK b \in Nat : b = q + n
        OBVIOUS
    <2>3. gauge' = [gauge EXCEPT !.queued = a, !.queuedBytes = b, !.stamps = a, !.pending = a]
        BY <1>2, <1>20, <2>1, <2>2 DEF Publish, MayPublish
    <2> QED
        BY <1>1, <2>1, <2>2, <2>3 DEF Gauge
<1>22. Typed'
    BY <1>0, <1>4, <1>7, <1>17, <1>21 DEF Typed, Moves
<1>23. Working'
    BY <1>0, <1>1, <1>4, <1>7, <1>21 DEF Working, Moves
<1>24. CreditConserved'
    <2>1. /\ free + (o + n) + q + Bytes(held) + Bytes(refunds) = MaxBytes
          /\ slots + k + (t + 1) = MaxItems
        BY <1>0, <1>11, <1>13, <1>14, <1>15 DEF CreditConserved
    <2>2. free + o + (q + n) + Bytes(held) + Bytes(refunds) = MaxBytes
        BY <1>1, <1>19, <2>1
    <2>3. slots + (k + 1) + t = MaxItems
        BY <1>1, <2>1
    <2> QED
        BY <1>7, <1>8, <1>10, <1>16, <1>17, <1>18, <2>2, <2>3 DEF CreditConserved
<1>25. Counted'
    <2>1. gauge.reserved = c + (q + n) + Bytes(held)
        BY <1>12, <1>19, <1>20
    <2> QED
        BY <1>9, <1>16, <1>17, <1>18, <1>20, <1>21, <2>1 DEF Counted
<1> QED
    BY <1>22, <1>23, <1>24, <1>25 DEF AccountsInv

\* The channel without its first envelope.
LEMMA PopEffect ==
    ASSUME Typed, chan # <<>>, chan' = Tail(chan)
    PROVE  \E n \in Fits : \E q \in Nat : \E k \in Nat :
              /\ n = Head(chan) /\ n \in Nat /\ chan' \in Seq(Fits)
              /\ Queued = q + n /\ Len(chan) = k + 1
              /\ Queued' = q /\ Len(chan)' = k
<1>0. chan \in Seq(Fits)
    BY DEF Typed
<1>1. PICK n \in Fits : n = Head(chan)
    BY <1>0
<1>2. n \in Nat /\ chan \in Seq(Nat)
    BY <1>0, FitsFinite, QueueTyped
<1>3. /\ Tail(chan) \in Seq(Fits) /\ Len(Tail(chan)) = Len(chan) - 1
      /\ Len(chan) \in Nat \ {0}
    BY <1>0
<1>4. PICK q \in Nat : q = Total(Tail(chan))
    BY <1>3, QueueTyped
<1>5. Total(chan) = q + n
    BY <1>1, <1>2, <1>4, TotalTail
<1>6. PICK m \in Nat \ {0} : m = Len(chan)
    BY <1>3
<1>9. PICK k \in Nat : m = k + 1 /\ m - 1 = k
    <2>1. m - 1 \in Nat /\ m = (m - 1) + 1
        OBVIOUS
    <2> QED
        BY <2>1
<1>7. Len(chan) = k + 1 /\ Len(Tail(chan)) = k
    BY <1>3, <1>6, <1>9
<1>8. Queued = q + n /\ Queued' = q
    BY <1>4, <1>5 DEF Queued
<1> QED
    BY <1>1, <1>2, <1>3, <1>7, <1>8

Gains(f, n, g) == g = [f EXCEPT ![n] = f[n] + 1]
Loses(f, n, g) == f[n] > 0 /\ g = [f EXCEPT ![n] = f[n] - 1]

\* One envelope of a size more among some.
LEMMA Gain ==
    ASSUME NEW f \in Counts, NEW n \in Fits, NEW g, Gains(f, n, g)
    PROVE  /\ g \in Counts /\ Bytes(f) \in Nat /\ Total(f) \in Nat
           /\ Bytes(g) = Bytes(f) + n /\ Total(g) = Total(f) + 1
<1>1. g \in Counts /\ g[n] = f[n] + 1 /\ \A x \in Fits : x # n => g[x] = f[x]
    BY DEF Counts, Gains
<1> QED
    BY <1>1, OneMore

\* One envelope of a size less.
LEMMA Loss ==
    ASSUME NEW f \in Counts, NEW n \in Fits, NEW g, Loses(f, n, g)
    PROVE  /\ g \in Counts /\ Bytes(g) \in Nat /\ Total(g) \in Nat
           /\ Bytes(f) = Bytes(g) + n /\ Total(f) = Total(g) + 1
<1>0. f[n] \in Nat /\ f[n] - 1 \in Nat
    BY DEF Counts, Loses
<1>1. g \in Counts /\ g[n] = f[n] - 1 /\ \A x \in Fits : x # n => f[x] = g[x]
    BY <1>0 DEF Counts, Loses
<1>2. f[n] = g[n] + 1
    BY <1>0, <1>1
<1> QED
    BY <1>1, <1>2, OneMore

\* Receiving moves an envelope from the channel to the consumer.
LEMMA RecvStep ==
    ASSUME AccountsInv, NEW polled \in BOOLEAN, Recv(polled)
    PROVE  AccountsInv'
<1>0. Typed /\ Working /\ CreditConserved /\ Counted
    BY DEF AccountsInv
<1>1. /\ gauge \in Gauge /\ free \in Nat /\ slots \in Nat /\ held \in Counts
      /\ refunds \in Counts
    BY <1>0 DEF Typed
<1>2. /\ chan # <<>> /\ chan' = Tail(chan) /\ gauge.open /\ slots' = slots + 1
      /\ free' = free /\ refunds' = refunds /\ tx' = tx /\ rx' = rx
    BY <1>0 DEF Recv, Working
<1>3. PICK n \in Fits : \E q \in Nat : \E k \in Nat :
              /\ n = Head(chan) /\ n \in Nat /\ chan' \in Seq(Fits)
              /\ Queued = q + n /\ Len(chan) = k + 1
              /\ Queued' = q /\ Len(chan)' = k
    BY <1>0, <1>2, PopEffect
<1>4. PICK q \in Nat : \E k \in Nat :
              /\ n = Head(chan) /\ n \in Nat /\ chan' \in Seq(Fits)
              /\ Queued = q + n /\ Len(chan) = k + 1
              /\ Queued' = q /\ Len(chan)' = k
    BY <1>3
<1>5. PICK k \in Nat :
              /\ n = Head(chan) /\ n \in Nat /\ chan' \in Seq(Fits)
              /\ Queued = q + n /\ Len(chan) = k + 1
              /\ Queued' = q /\ Len(chan)' = k
    BY <1>4
<1>6. held' = [held EXCEPT ![n] = held[n] + 1]
    BY <1>1, <1>5 DEF Recv, Counts
<1>7. PICK h \in Nat : h = Bytes(held)
    BY <1>0, Numbers
<1>8. PICK e \in Nat : e = Total(held)
    BY <1>0, Numbers
<1>9. held' \in Counts /\ Bytes(held') = h + n /\ Total(held') = e + 1
    BY <1>1, <1>6, <1>7, <1>8, Gain DEF Gains
<1>10. /\ Bytes(held)' = h + n /\ Total(held)' = e + 1
       /\ Bytes(refunds)' = Bytes(refunds)
    BY <1>2, <1>9 DEF Bytes, Total, Units
<1>11. /\ gauge.queued = k + 1 /\ gauge.queuedBytes = q + n /\ gauge.stamps = k + 1
       /\ gauge.pending = k + 1 /\ gauge.errors = 0 /\ gauge.held = e
       /\ gauge.reserved = OfSenders(Counting) + (q + n) + h
    BY <1>0, <1>2, <1>5, <1>7, <1>8 DEF Counted
<1>12. /\ gauge' \in Gauge /\ gauge'.queued = k /\ gauge'.queuedBytes = q
       /\ gauge'.stamps = k /\ gauge'.pending = k
       /\ gauge'.errors = 0 /\ gauge'.held = e + 1
       /\ gauge'.reserved = gauge.reserved /\ gauge'.open = gauge.open
    <2>1. /\ Saturating(gauge.queued, 1) = k /\ Saturating(gauge.queuedBytes, n) = q
          /\ gauge.stamps - 1 = k /\ gauge.pending - 1 = k
          /\ (IF gauge.queued = 0 THEN 1 ELSE gauge.errors) = 0
        BY <1>5, <1>11 DEF Saturating
    <2>2. PICK b \in Nat : b = gauge.held + 1 /\ b = e + 1
        BY <1>11
    <2>3. gauge' = [gauge EXCEPT !.queued = k, !.queuedBytes = q, !.stamps = k,
                                 !.pending = k, !.errors = 0, !.held = b]
        BY <1>5, <2>1, <2>2 DEF Recv
    <2> QED
        BY <1>1, <2>2, <2>3 DEF Gauge
<1>13. /\ OfSenders(Counting) \in Nat /\ OfSenders(Crediting) \in Nat
       /\ Bytes(refunds) \in Nat
    BY <1>0, Numbers
<1>14. /\ OfSenders(Counting)' = OfSenders(Counting)
       /\ OfSenders(Crediting)' = OfSenders(Crediting)
       /\ Cardinality(Reserving') = Cardinality(Reserving)
    BY <1>2, SendersStay
<1>15. PICK t \in Nat : t = Cardinality(Reserving)
    BY <1>0, SlotsTyped
<1>16. Typed'
    BY <1>0, <1>1, <1>2, <1>5, <1>9, <1>12 DEF Typed
<1>17. Working'
    BY <1>0, <1>2, <1>12 DEF Working
<1>18. CreditConserved'
    <2>1. /\ free + OfSenders(Crediting) + (q + n) + h + Bytes(refunds) = MaxBytes
          /\ slots + (k + 1) + t = MaxItems
        BY <1>0, <1>5, <1>7, <1>15 DEF CreditConserved
    <2>2. free + OfSenders(Crediting) + q + (h + n) + Bytes(refunds) = MaxBytes
        BY <1>1, <1>5, <1>13, <2>1
    <2>3. (slots + 1) + k + t = MaxItems
        BY <1>1, <2>1
    <2> QED
        BY <1>2, <1>5, <1>10, <1>14, <1>15, <2>2, <2>3 DEF CreditConserved
<1>19. Counted'
    <2>1. gauge.reserved = OfSenders(Counting) + q + (h + n)
        BY <1>5, <1>11, <1>13
    <2> QED
        BY <1>2, <1>5, <1>8, <1>10, <1>12, <1>14, <2>1 DEF Counted
<1> QED
    BY <1>16, <1>17, <1>18, <1>19 DEF AccountsInv

\* The consumer is done with an envelope: it is uncounted, its credit is still
\* to be returned.
LEMMA DropHeldStep ==
    ASSUME AccountsInv, NEW n \in Fits, DropHeld(n)
    PROVE  AccountsInv'
<1>0. Typed /\ Working /\ CreditConserved /\ Counted
    BY DEF AccountsInv
<1>1. /\ gauge \in Gauge /\ free \in Nat /\ slots \in Nat /\ held \in Counts
      /\ refunds \in Counts /\ n \in Nat
    BY <1>0, FitsFinite DEF Typed
<1>2. /\ held[n] > 0 /\ held' = [held EXCEPT ![n] = held[n] - 1]
      /\ refunds' = [refunds EXCEPT ![n] = refunds[n] + 1]
      /\ gauge' = Uncounted(n, TRUE)
      /\ free' = free /\ slots' = slots /\ chan' = chan /\ tx' = tx /\ rx' = rx
    BY <1>1 DEF DropHeld, Counts
<1>3. PICK h \in Nat : h = Bytes(held')
    BY <1>1, <1>2, Loss DEF Loses
<1>4. PICK e \in Nat : e = Total(held')
    BY <1>1, <1>2, Loss DEF Loses
<1>5. held' \in Counts /\ Bytes(held) = h + n /\ Total(held) = e + 1
    BY <1>1, <1>2, <1>3, <1>4, Loss DEF Loses
<1>6. PICK d \in Nat : d = Bytes(refunds)
    BY <1>0, Numbers
<1>7. refunds' \in Counts /\ Bytes(refunds') = d + n
    BY <1>1, <1>2, <1>6, Gain DEF Gains
<1>8. Bytes(held)' = h /\ Total(held)' = e /\ Bytes(refunds)' = d + n
    BY <1>3, <1>4, <1>7 DEF Bytes, Total, Units
<1>9. Queued' = Queued /\ Len(chan)' = Len(chan)
    BY <1>2 DEF Queued, Total, Units
<1>10. /\ OfSenders(Counting)' = OfSenders(Counting)
       /\ OfSenders(Crediting)' = OfSenders(Crediting)
       /\ Cardinality(Reserving') = Cardinality(Reserving)
    BY <1>2, SendersStay
<1>11. /\ OfSenders(Counting) \in Nat /\ OfSenders(Crediting) \in Nat
       /\ Queued \in Nat
    BY <1>0, Numbers
<1>12. /\ gauge.reserved = OfSenders(Counting) + Queued + (h + n)
       /\ gauge.held = e + 1 /\ gauge.errors = 0
    BY <1>0, <1>5 DEF Counted
<1>13. n <= gauge.reserved /\ gauge.held # 0
    BY <1>1, <1>11, <1>12
<1>14. /\ gauge' \in Gauge /\ gauge'.reserved = gauge.reserved - n
       /\ gauge'.errors = 0
       /\ gauge'.held = gauge.held - 1
       /\ gauge'.open = gauge.open /\ gauge'.queued = gauge.queued
       /\ gauge'.queuedBytes = gauge.queuedBytes /\ gauge'.stamps = gauge.stamps
       /\ gauge'.pending = gauge.pending
    <2>1. Uncounts(n, gauge.held - 1)
        BY <1>1, <1>2, <1>12, <1>13, UncountHeld
    <2> QED
        BY <2>1 DEF Uncounts
<1>15. Typed'
    BY <1>0, <1>2, <1>5, <1>7, <1>14 DEF Typed
<1>16. Working'
    BY <1>0, <1>2, <1>14 DEF Working
<1>17. CreditConserved'
    <2>1. free + OfSenders(Crediting) + Queued + (h + n) + d = MaxBytes
        BY <1>0, <1>5, <1>6 DEF CreditConserved
    <2>2. free + OfSenders(Crediting) + Queued + h + (d + n) = MaxBytes
        BY <1>1, <1>11, <2>1
    <2> QED
        BY <1>0, <1>2, <1>8, <1>9, <1>10, <2>2 DEF CreditConserved
<1>18. Counted'
    <2>1. gauge'.reserved = OfSenders(Counting) + Queued + h
        BY <1>1, <1>11, <1>12, <1>14
    <2>2. gauge'.held = e
        BY <1>12, <1>14
    <2> QED
        BY <1>0, <1>8, <1>9, <1>10, <1>14, <2>1, <2>2 DEF Counted
<1> QED
    BY <1>15, <1>16, <1>17, <1>18 DEF AccountsInv

\* The credit of a dropped envelope is returned.
LEMMA RefundStep ==
    ASSUME AccountsInv, NEW n \in Fits, Refund(n)
    PROVE  AccountsInv'
<1>0. Typed /\ Working /\ CreditConserved /\ Counted
    BY DEF AccountsInv
<1>1. free \in Nat /\ refunds \in Counts /\ n \in Nat
    BY <1>0, FitsFinite DEF Typed
<1>2. /\ refunds[n] > 0 /\ refunds' = [refunds EXCEPT ![n] = refunds[n] - 1]
      /\ free' = free + n
      /\ slots' = slots /\ chan' = chan /\ held' = held /\ tx' = tx /\ rx' = rx
      /\ gauge' = gauge
    BY <1>1 DEF Refund, Counts
<1>3. PICK d \in Nat : d = Bytes(refunds')
    BY <1>1, <1>2, Loss DEF Loses
<1>4. refunds' \in Counts /\ Bytes(refunds) = d + n
    BY <1>1, <1>2, <1>3, Loss DEF Loses
<1>5. /\ Bytes(refunds)' = d /\ Bytes(held)' = Bytes(held) /\ Queued' = Queued
      /\ Total(held)' = Total(held)
    BY <1>2, <1>3 DEF Bytes, Queued, Total, Units
<1>6. /\ OfSenders(Counting)' = OfSenders(Counting)
      /\ OfSenders(Crediting)' = OfSenders(Crediting)
      /\ Cardinality(Reserving') = Cardinality(Reserving)
    BY <1>2, SendersStay
<1>7. OfSenders(Crediting) \in Nat /\ Queued \in Nat /\ Bytes(held) \in Nat
    BY <1>0, Numbers
<1>8. free' \in Nat
    BY <1>1, <1>2
<1>9. Typed'
    BY <1>0, <1>2, <1>4, <1>8 DEF Typed
<1>10. Working'
    BY <1>0, <1>2 DEF Working
<1>11. CreditConserved'
    <2>1. free + OfSenders(Crediting) + Queued + Bytes(held) + (d + n) = MaxBytes
        BY <1>0, <1>4 DEF CreditConserved
    <2>2. (free + n) + OfSenders(Crediting) + Queued + Bytes(held) + d = MaxBytes
        BY <1>1, <1>7, <2>1
    <2> QED
        BY <1>0, <1>2, <1>5, <1>6, <2>2 DEF CreditConserved
<1>12. Counted'
    BY <1>0, <1>2, <1>5, <1>6 DEF Counted
<1> QED
    BY <1>9, <1>10, <1>11, <1>12 DEF AccountsInv

\* The destruction of the channel uncounts a queued envelope; the queue's own
\* gauges were cleared when the observer was marked.
LEMMA DropQueuedStep ==
    ASSUME AccountsInv, DropQueued
    PROVE  AccountsInv'
<1>0. Typed /\ Working /\ CreditConserved /\ Counted
    BY DEF AccountsInv
<1>1. /\ gauge \in Gauge /\ free \in Nat /\ slots \in Nat /\ refunds \in Counts
    BY <1>0 DEF Typed
<1>2. /\ chan # <<>> /\ chan' = Tail(chan) /\ ~gauge.open /\ slots' = slots + 1
      /\ free' = free /\ held' = held /\ tx' = tx /\ rx' = rx
    BY <1>0 DEF DropQueued, Working
<1>3. PICK n \in Fits : \E q \in Nat : \E k \in Nat :
              /\ n = Head(chan) /\ n \in Nat /\ chan' \in Seq(Fits)
              /\ Queued = q + n /\ Len(chan) = k + 1
              /\ Queued' = q /\ Len(chan)' = k
    BY <1>0, <1>2, PopEffect
<1>4. PICK q \in Nat : \E k \in Nat :
              /\ n = Head(chan) /\ n \in Nat /\ chan' \in Seq(Fits)
              /\ Queued = q + n /\ Len(chan) = k + 1
              /\ Queued' = q /\ Len(chan)' = k
    BY <1>3
<1>5. PICK k \in Nat :
              /\ n = Head(chan) /\ n \in Nat /\ chan' \in Seq(Fits)
              /\ Queued = q + n /\ Len(chan) = k + 1
              /\ Queued' = q /\ Len(chan)' = k
    BY <1>4
<1>6. /\ refunds' = [refunds EXCEPT ![n] = refunds[n] + 1]
      /\ gauge' = Uncounted(n, FALSE)
    BY <1>1, <1>5 DEF DropQueued, Counts
<1>7. PICK d \in Nat : d = Bytes(refunds)
    BY <1>0, Numbers
<1>8. refunds' \in Counts /\ Bytes(refunds') = d + n
    BY <1>1, <1>6, <1>7, Gain DEF Gains
<1>9. /\ Bytes(refunds)' = d + n /\ Bytes(held)' = Bytes(held)
      /\ Total(held)' = Total(held)
    BY <1>2, <1>8 DEF Bytes, Total, Units
<1>10. /\ OfSenders(Counting)' = OfSenders(Counting)
       /\ OfSenders(Crediting)' = OfSenders(Crediting)
       /\ Cardinality(Reserving') = Cardinality(Reserving)
    BY <1>2, SendersStay
<1>11. /\ OfSenders(Counting) \in Nat /\ OfSenders(Crediting) \in Nat
       /\ Bytes(held) \in Nat
    BY <1>0, Numbers
<1>12. PICK t \in Nat : t = Cardinality(Reserving)
    BY SlotsTyped
<1>13. /\ gauge.reserved = OfSenders(Counting) + (q + n) + Bytes(held)
       /\ gauge.errors = 0
    BY <1>0, <1>5 DEF Counted
<1>14. n <= gauge.reserved
    BY <1>5, <1>11, <1>13
<1>15. /\ gauge' \in Gauge /\ gauge'.reserved = gauge.reserved - n
       /\ gauge'.errors = 0
       /\ gauge'.held = gauge.held
       /\ gauge'.open = gauge.open /\ gauge'.queued = gauge.queued
       /\ gauge'.queuedBytes = gauge.queuedBytes /\ gauge'.stamps = gauge.stamps
       /\ gauge'.pending = gauge.pending
    <2>1. gauge \in Gauge /\ n \in Nat /\ gauge' = Uncounted(n, FALSE)
        BY <1>1, <1>5, <1>6
    <2>2. Uncounts(n, gauge.held)
        BY <1>13, <1>14, <2>1, UncountLoose
    <2> QED
        BY <2>2 DEF Uncounts
<1>16. Typed'
    BY <1>0, <1>1, <1>2, <1>5, <1>8, <1>15 DEF Typed
<1>17. Working'
    BY <1>0, <1>2, <1>15 DEF Working
<1>18. CreditConserved'
    <2>1. /\ free + OfSenders(Crediting) + (q + n) + Bytes(held) + d = MaxBytes
          /\ slots + (k + 1) + t = MaxItems
        BY <1>0, <1>5, <1>7, <1>12 DEF CreditConserved
    <2>2. free + OfSenders(Crediting) + q + Bytes(held) + (d + n) = MaxBytes
        <3>1. /\ n \in Nat /\ free \in Nat /\ OfSenders(Crediting) \in Nat
              /\ Bytes(held) \in Nat
            BY <1>1, <1>5, <1>11
        <3>2. free + OfSenders(Crediting) + (q + n) + Bytes(held) + d = MaxBytes
            BY <2>1
        <3> QED
            BY <3>1, <3>2
    <2>3. (slots + 1) + k + t = MaxItems
        BY <1>1, <2>1
    <2> QED
        BY <1>2, <1>5, <1>9, <1>10, <1>12, <2>2, <2>3 DEF CreditConserved
<1>19. Counted'
    <2>1. gauge'.reserved = OfSenders(Counting) + q + Bytes(held)
        BY <1>5, <1>11, <1>13, <1>15
    <2> QED
        BY <1>0, <1>2, <1>5, <1>9, <1>10, <1>15, <2>1 DEF Counted
<1> QED
    BY <1>16, <1>17, <1>18, <1>19 DEF AccountsInv

\* What only marks, closes or cancels moves no envelope.
LEMMA MarkStep ==
    ASSUME AccountsInv, MarkClosed \/ Close \/ Cancel \/ UNCHANGED vars
    PROVE  AccountsInv'
<1>0. Typed /\ Working /\ CreditConserved /\ Counted
    BY DEF AccountsInv
<1>1. /\ free' = free /\ slots' = slots /\ chan' = chan /\ held' = held
      /\ refunds' = refunds /\ tx' = tx
    BY DEF MarkClosed, Close, Cancel, vars
<1>2. /\ Bytes(refunds)' = Bytes(refunds) /\ Bytes(held)' = Bytes(held)
      /\ Queued' = Queued /\ Total(held)' = Total(held) /\ Len(chan)' = Len(chan)
    BY <1>1 DEF Bytes, Queued, Total, Units
<1>3. /\ OfSenders(Counting)' = OfSenders(Counting)
      /\ OfSenders(Crediting)' = OfSenders(Crediting)
      /\ Cardinality(Reserving') = Cardinality(Reserving)
    BY <1>1, SendersStay
<1>4. CreditConserved'
    BY <1>0, <1>1, <1>2, <1>3 DEF CreditConserved
<1>5. CASE MarkClosed
    <2>0. gauge \in Gauge /\ gauge.pending \in Nat /\ gauge.queued = gauge.pending
        BY <1>0 DEF Typed, Gauge, Counted
    <2>1. gauge.pending - gauge.queued = 0
        BY <2>0
    <2>2. gauge' = [gauge EXCEPT !.open = FALSE, !.queued = 0, !.queuedBytes = 0,
                                 !.stamps = 0, !.pending = 0]
        BY <1>5, <2>1 DEF MarkClosed
    <2>3. /\ gauge' \in Gauge /\ gauge'.open = FALSE /\ gauge'.queued = 0
          /\ gauge'.queuedBytes = 0 /\ gauge'.stamps = 0 /\ gauge'.pending = 0
          /\ gauge'.errors = gauge.errors /\ gauge'.reserved = gauge.reserved
          /\ gauge'.held = gauge.held
        BY <2>0, <2>2 DEF Gauge
    <2>4. rx' = "marked"
        BY <1>5 DEF MarkClosed
    <2>5. Typed'
        BY <1>0, <1>1, <2>3, <2>4 DEF Typed
    <2>6. Working'
        BY <1>0, <1>1, <2>3, <2>4 DEF Working
    <2>7. Counted'
        BY <1>0, <1>2, <1>3, <2>3 DEF Counted
    <2> QED
        BY <1>4, <2>5, <2>6, <2>7 DEF AccountsInv
<1>6. CASE Close \/ Cancel \/ UNCHANGED vars
    <2>1. /\ gauge' = gauge
          /\ \/ rx' = rx
             \/ rx \in {"marked", "bytes"} /\ rx' \in {"bytes", "closed"}
        BY <1>6 DEF Close, Cancel, vars
    <2>2. Typed'
        BY <1>0, <1>1, <2>1 DEF Typed
    <2>3. Working'
        BY <1>0, <1>1, <2>1 DEF Working
    <2>4. Counted'
        BY <1>0, <1>2, <1>3, <2>1 DEF Counted
    <2> QED
        BY <1>4, <2>2, <2>3, <2>4 DEF AccountsInv
<1> QED
    BY <1>5, <1>6

-----------------------------------------------------------------------------
(* The theorem.                                                            *)

\* An empty mailbox has its accounts in order.
LEMMA AccountsInit == Init => AccountsInv
<1> SUFFICES ASSUME Init PROVE AccountsInv
    OBVIOUS
<1>0. MaxItems \in Nat /\ MaxBytes \in Nat /\ IsFiniteSet(Senders)
    BY MailboxAssumption
<1>1. Typed
    <2>1. gauge \in Gauge
        BY DEF Init, Gauge
    <2>2. tx \in [Senders -> SendRecord]
        BY Ends DEF Init
    <2>3. held \in Counts /\ refunds \in Counts
        BY DEF Init, Counts
    <2>4. chan \in Seq(Fits) /\ free \in Nat /\ slots \in Nat /\ rx = "open"
        BY <1>0 DEF Init
    <2> QED
        BY <2>1, <2>2, <2>3, <2>4 DEF Typed
<1>2. Working
    BY Ends DEF Init, Working
<1>3. Queued = 0 /\ Len(chan) = 0
    <2>1. chan \in [{} -> Nat] /\ Len(chan) = 0
        BY DEF Init
    <2>2. Total(chan) = 0
        BY <2>1, TotalZero
    <2> QED
        BY <2>1, <2>2 DEF Queued
<1>4. \A f \in Counts : (\A n \in Fits : f[n] = 0) => Bytes(f) = 0 /\ Total(f) = 0
    <2> SUFFICES ASSUME NEW f \in Counts, \A n \in Fits : f[n] = 0
                 PROVE  Bytes(f) = 0 /\ Total(f) = 0
        OBVIOUS
    <2>1. PICK F : F = [n \in Fits |-> n * f[n]]
        OBVIOUS
    <2>2. \A n \in Nat : n * 0 = 0
        OBVIOUS
    <2>3. F \in [Fits -> Nat] /\ \A n \in Fits : F[n] = 0
        BY <2>1, <2>2, FitsFinite
    <2>4. Total(F) = 0
        BY <2>3, TotalZero
    <2>5. f \in [Fits -> Nat]
        BY DEF Counts
    <2>6. Total(f) = 0
        BY <2>5, TotalZero
    <2> QED
        BY <2>1, <2>4, <2>6 DEF Bytes
<1>5. Bytes(held) = 0 /\ Bytes(refunds) = 0 /\ Total(held) = 0
    BY <1>1, <1>4 DEF Init, Typed
<1>6. OfSenders(Crediting) = 0 /\ OfSenders(Counting) = 0
    <2>1. \A s \in Senders : tx[s].pc = "idle"
        BY Ends DEF Init
    <2>2. PICK f : f = [s \in Senders |-> 0]
        OBVIOUS
    <2>3. /\ OfSenders(Crediting) = Total(f) /\ OfSenders(Counting) = Total(f)
        BY <2>1, <2>2 DEF OfSenders, Crediting, Counting
    <2>4. f \in [Senders -> Nat] /\ \A s \in Senders : f[s] = 0
        BY <2>2
    <2> QED
        BY <2>3, <2>4, TotalZero
<1>7. Cardinality(Reserving) = 0
    <2>1. Reserving = {}
        BY Ends DEF Init, Reserving
    <2> QED
        BY <2>1, FS_EmptySet
<1>8. CreditConserved
    BY <1>0, <1>3, <1>5, <1>6, <1>7 DEF CreditConserved, Init
<1>9. Counted
    BY <1>3, <1>5, <1>6 DEF Counted, Init
<1> QED
    BY <1>1, <1>2, <1>8, <1>9 DEF AccountsInv

\* Every step keeps the accounts.
LEMMA AccountsStep == AccountsInv /\ [Next]_vars => AccountsInv'
<1> SUFFICES ASSUME AccountsInv, [Next]_vars
             PROVE  AccountsInv'
    OBVIOUS
<1>1. ASSUME NEW s \in Senders,
             \/ \E n \in Sizes, wait \in BOOLEAN : Send(s, n, wait)
             \/ Step(s)
             \/ CreditGivenUp(s)
             \/ SlotRefused(s)
      PROVE  AccountsInv'
    BY <1>1, SenderStep, PublishStep
<1>2. ASSUME NEW polled \in BOOLEAN, Recv(polled)
      PROVE  AccountsInv'
    BY <1>2, RecvStep
<1>3. ASSUME NEW n \in Fits, DropHeld(n) \/ Refund(n)
      PROVE  AccountsInv'
    BY <1>3, DropHeldStep, RefundStep
<1>4. CASE DropQueued
    BY <1>4, DropQueuedStep
<1>5. CASE MarkClosed \/ Close \/ Cancel \/ UNCHANGED vars
    BY <1>5, MarkStep
<1> QED
    BY <1>1, <1>2, <1>3, <1>4, <1>5 DEF Next

\* The accounts add up: what is counted never exceeds the limit, because all of
\* it is taken off what is free.
LEMMA AccountsFollow == AccountsInv => AccountsExact
<1> SUFFICES ASSUME AccountsInv PROVE AccountsExact
    OBVIOUS
<1>0. Typed /\ CreditConserved /\ Counted
    BY DEF AccountsInv
<1>1. /\ free \in Nat /\ Queued \in Nat
      /\ Bytes(held) \in Nat /\ Bytes(refunds) \in Nat
      /\ OfSenders(Counting) \in Nat /\ OfSenders(Crediting) \in Nat
    BY <1>0, Numbers
<1>2. OfSenders(Counting) <= OfSenders(Crediting)
    BY <1>0, SendTotals DEF Typed
<1>3. /\ free + OfSenders(Crediting) + Queued + Bytes(held) + Bytes(refunds) = MaxBytes
      /\ gauge.reserved = OfSenders(Counting) + Queued + Bytes(held)
    BY <1>0 DEF CreditConserved, Counted
<1>4. gauge.reserved <= MaxBytes
    BY <1>1, <1>2, <1>3
<1>6. GaugesExact
    BY <1>0, <1>4 DEF Counted, GaugesExact
<1> QED
    BY <1>0, <1>6 DEF AccountsExact

\* For any number of senders, any sizes and any limits: byte credit, slots and
\* gauges account for the same envelopes on every path out of send_inner and
\* through close, cancellation and dropped futures.
THEOREM AccountsBalance == Spec => []AccountsExact
<1>1. Spec => []AccountsInv
    BY AccountsInit, AccountsStep, PTL DEF Spec
<1> QED
    BY <1>1, AccountsFollow, PTL
=============================================================================
