----------------------------- MODULE MixerProofs ------------------------------
(***************************************************************************)
(* Proofs about Mixer, for any number of items, size of the outbox and of  *)
(* the stash, for shuffled and unshuffled batches and for any intervals    *)
(* and delays.                                                             *)
(***************************************************************************)
EXTENDS Mixer, FiniteSetTheorems, SequenceTheorems, TLAPS

Packet == Item \cup {Cover}
Times == [at : Nat, interval : Nat, total : Nat]

TypeOK ==
    /\ queue \in Seq(Item) /\ outbox \in Seq(Packet)
    /\ dispatching \in Packet \cup {NoPacket}
    /\ loop \in {"off", "on", "stopped"}
    /\ nextSend \in Nat
    /\ stash \in 0..MaxCovers
    /\ generator \in {"off", "idle", "await"}
    /\ generator = "await" => stash < MaxCovers
    /\ ticks \in Seq(Times)
    /\ arrived \in Seq(Item) /\ popped \in Seq(Item)
    /\ departed \subseteq Item
    /\ deadline \in [Item -> Nat]

\* Items drawn from the queue so far.
Taken == Len(arrived) - Len(queue)

ItemsOf(s) == Range(s) \cap Item
Once(s) == \A i, j \in DOMAIN s : s[i] = s[j] /\ s[i] \in Item => i = j

Pending == ItemsOf(outbox)

\* The queue is what is left of the arrivals, in their order; those taken are
\* popped or in the outbox, each once.
ItemsSound ==
    /\ IsInjective(arrived) /\ IsInjective(popped)
    /\ Taken \in Nat
    /\ \A i \in DOMAIN queue : queue[i] = arrived[Taken + i]
    /\ Once(outbox)
    /\ Pending \cap Range(popped) = {}
    /\ Pending \cup Range(popped) = { arrived[j] : j \in 1..Taken }
    /\ dispatching \in Item => dispatching \in Range(popped)
    /\ departed = Range(popped) \ {dispatching}

\* The batch at work has no more items than the outbox places: those before it
\* had all left when it was drawn.
Batch(first) ==
    /\ Taken - first <= OutboxSize
    /\ \A k \in DOMAIN popped, j \in DOMAIN arrived :
         popped[k] = arrived[j] /\ k > first => first < j
    /\ \A j \in DOMAIN arrived : arrived[j] \in Pending => first < j

OrderSound ==
    /\ ReorderBound
    /\ \E first \in 0..Len(popped) : Batch(first)

DeadlineSound ==
    /\ Len(outbox) <= OutboxSize
    /\ \A m \in Pending : Len(ticks) + Len(outbox) <= deadline[m]
    /\ \A i \in DOMAIN queue :
         Len(ticks) + Len(outbox) + OutboxSize * Batches(i) <= deadline[queue[i]]

\* No tick was so early that the next may not make up for it.
PaceSound ==
    /\ \A i \in DOMAIN ticks :
         LastTick.total - ticks[i].total <= nextSend - ticks[i].at + ticks[i].interval
    /\ Pace

IInv == TypeOK /\ ItemsSound /\ OrderSound /\ DeadlineSound /\ PaceSound

-----------------------------------------------------------------------------
(* Operators of the model. *)

LEMMA SeqIs ==
    ASSUME NEW S, NEW s \in Seq(S)
    PROVE  Len(s) \in Nat /\ DOMAIN s = 1..Len(s) /\ \A i \in DOMAIN s : s[i] \in S
BY LenProperties, ElementOfSeq

LEMMA EmptyIs == DOMAIN <<>> = {} /\ Len(<<>>) = 0
OBVIOUS

LEMMA FrontLast ==
    ASSUME NEW S, NEW s \in Seq(S), s # <<>>
    PROVE  /\ Len(s) \in Nat /\ Len(s) > 0
           /\ Front(s) \in Seq(S) /\ Len(Front(s)) = Len(s) - 1
           /\ DOMAIN Front(s) = 1..(Len(s) - 1)
           /\ \A i \in 1..(Len(s) - 1) : Front(s)[i] = s[i]
           /\ Last(s) = s[Len(s)] /\ Last(s) \in S
<1>1. Len(s) \in Nat /\ Len(s) > 0 /\ DOMAIN s = 1..Len(s) /\ \A i \in 1..Len(s) : s[i] \in S
  BY SeqIs, EmptySeq
<1>2. /\ Front(s) \in Seq(S) /\ Len(Front(s)) = Len(s) - 1
      /\ \A i \in 1..(Len(s) - 1) : Front(s)[i] = s[i]
  <2>1. Front(s) = SubSeq(s, 1, Len(s) - 1) BY DEF Front
  <2>2. /\ SubSeq(s, 1, Len(s) - 1) \in Seq(S)
        /\ Len(SubSeq(s, 1, Len(s) - 1)) = Len(s) - 1
        /\ \A i \in 1..(Len(s) - 1) : SubSeq(s, 1, Len(s) - 1)[i] = s[i]
    BY <1>1, SubSeqProperties
  <2> QED BY <2>1, <2>2
<1>3. DOMAIN Front(s) = 1..Len(Front(s)) BY <1>2, SeqIs
<1> QED BY <1>1, <1>2, <1>3 DEF Last

LEMMA AppendIs ==
    ASSUME NEW S, NEW s \in Seq(S), NEW x \in S
    PROVE  /\ Append(s, x) \in Seq(S) /\ Len(Append(s, x)) = Len(s) + 1
           /\ DOMAIN Append(s, x) = 1..(Len(s) + 1)
           /\ \A i \in 1..Len(s) : Append(s, x)[i] = s[i]
           /\ Append(s, x)[Len(s) + 1] = x
           /\ Range(Append(s, x)) = Range(s) \cup {x}
<1> DEFINE t == Append(s, x)
<1>1. /\ t \in Seq(S) /\ Len(t) = Len(s) + 1
      /\ \A i \in 1..Len(s) : t[i] = s[i]
      /\ t[Len(s) + 1] = x
  BY AppendProperties
<1>2. DOMAIN t = 1..(Len(s) + 1) /\ DOMAIN s = 1..Len(s) /\ Len(s) \in Nat
  BY <1>1, SeqIs
<1> HIDE DEF t
<1>3. \A i \in DOMAIN t : i \in DOMAIN s \/ i = Len(s) + 1 BY <1>2
<1>4. DOMAIN s \subseteq DOMAIN t /\ Len(s) + 1 \in DOMAIN t BY <1>2
<1>5. Range(t) = Range(s) \cup {x} BY <1>1, <1>2, <1>3, <1>4 DEF Range
<1> QED BY <1>1, <1>2, <1>5 DEF t

\* One place more than there are values would hold a value twice.
LEMMA Pigeons ==
    ASSUME NEW m \in Nat, NEW n \in Nat, NEW f, NEW g, DOMAIN f = 1..m, DOMAIN g = 1..n,
           IsInjective(f), Range(f) \subseteq Range(g)
    PROVE  m <= n
<1> DEFINE h == [k \in 1..m |-> CHOOSE j \in 1..n : g[j] = f[k]]
<1>1. \A k \in 1..m : h[k] \in 1..n /\ g[h[k]] = f[k]
  <2> TAKE k \in 1..m
  <2>1. f[k] \in Range(f) BY DEF Range
  <2>2. \E j \in 1..n : g[j] = f[k] BY <2>1 DEF Range
  <2> QED BY <2>2
<1> HIDE DEF h
<1>2. h \in [1..m -> 1..n] BY <1>1 DEF h
<1>3. \A k, l \in 1..m : h[k] = h[l] => k = l
  <2> TAKE k, l \in 1..m
  <2> HAVE h[k] = h[l]
  <2>1. f[k] = f[l] BY <1>1
  <2> QED BY <2>1 DEF IsInjective
<1>4. h \in Injection(1..m, 1..n) BY <1>2, <1>3 DEF Injection, IsInjective
<1>5. Cardinality(1..m) <= Cardinality(1..n)
  BY <1>4, FS_Injection, FS_Interval
<1>6. Cardinality(1..m) = m /\ Cardinality(1..n) = n
  BY FS_Interval
<1> QED BY <1>5, <1>6

LEMMA BatchesIs ==
    ASSUME NEW i \in Nat, i >= 1
    PROVE  /\ Batches(i) \in Nat /\ Batches(i) >= 1
           /\ OutboxSize * Batches(i) \in Nat
           /\ OutboxSize * Batches(i) >= OutboxSize
           /\ i > OutboxSize =>
                OutboxSize * Batches(i) = OutboxSize * Batches(i - OutboxSize) + OutboxSize
<1> DEFINE O == OutboxSize
<1>1. O \in Nat /\ O >= 1 BY MixerAssumption
<1> HIDE DEF O
<1>2. \A a \in Nat : /\ a \div O \in Nat
                     /\ O * (a \div O) <= a /\ a < O * (a \div O) + O
  BY <1>1
<1>3. \A a \in Nat : a >= O => a \div O >= 1
  <2> SUFFICES ASSUME NEW a \in Nat, a >= O PROVE a \div O >= 1
    OBVIOUS
  <2>1. a \div O \in Nat /\ a < O * (a \div O) + O BY <1>2
  <2>2. a \div O # 0 BY <1>1, <2>1
  <2> QED BY <2>1, <2>2
<1>4. \A a \in Nat : (a + O) \div O = a \div O + 1
  BY <1>1
<1> DEFINE b == (i - 1) \div O
<1>5. b \in Nat BY <1>1, <1>2
<1>6. Batches(i) = b + 1
  <2>1. i + O - 1 = (i - 1) + O /\ i - 1 \in Nat BY <1>1
  <2> QED BY <1>4, <2>1 DEF Batches, O
<1>7. i > O => Batches(i - O) = b
  <2>1. i > O => (i - O) + O - 1 = i - 1 BY <1>1
  <2> QED BY <2>1 DEF Batches, O
<1> HIDE DEF b
<1>8. O * (b + 1) = O * b + O /\ O * b \in Nat BY <1>1, <1>5
<1> QED BY <1>1, <1>5, <1>6, <1>7, <1>8 DEF O

-----------------------------------------------------------------------------
(* What a tick does. *)

\* How much is drawn, and that only once the outbox is empty.
LEMMA DrawnIs ==
    ASSUME TypeOK
    PROVE  /\ Len(queue) \in Nat /\ Len(outbox) \in Nat
           /\ Drawn \in 0..Len(queue) /\ DrawnCovers \in 0..stash
           /\ Drawn <= OutboxSize /\ Drawn + DrawnCovers <= OutboxSize
           /\ Drawn + DrawnCovers > 0 => outbox = <<>>
           /\ outbox = <<>> /\ Drawn < Len(queue) => Drawn = OutboxSize
           /\ outbox = <<>> /\ Drawn + DrawnCovers = 0 => Len(queue) = 0
<1>1. Len(queue) \in Nat /\ Len(outbox) \in Nat /\ stash \in Nat
  BY SeqIs, MixerAssumption DEF TypeOK
<1>2. OutboxSize \in Nat /\ OutboxSize > 0 BY MixerAssumption
<1>3. CASE outbox = <<>>
  <2>1. Drawn = IF OutboxSize < Len(queue) THEN OutboxSize ELSE Len(queue)
    BY <1>3 DEF Drawn, AtMost
  <2>2. DrawnCovers = IF OutboxSize - Drawn < stash THEN OutboxSize - Drawn ELSE stash
    BY <1>3 DEF DrawnCovers, AtMost
  <2> DEFINE D == Drawn
             C == DrawnCovers
             L == Len(queue)
  <2>3. L \in Nat BY <1>1
  <2> HIDE DEF D, C, L
  <2>4. /\ D = IF OutboxSize < L THEN OutboxSize ELSE L
        /\ C = IF OutboxSize - D < stash THEN OutboxSize - D ELSE stash
    BY <2>1, <2>2 DEF D, C, L
  <2>5. D \in 0..L /\ D <= OutboxSize /\ (D < L => D = OutboxSize)
    BY <1>2, <2>3, <2>4
  <2>6. C \in 0..stash /\ D + C <= OutboxSize
    BY <1>1, <1>2, <2>3, <2>4, <2>5
  <2>7. D + C = 0 => L = 0
    BY <1>1, <1>2, <2>3, <2>5, <2>6
  <2> QED BY <1>1, <1>3, <2>5, <2>6, <2>7 DEF D, C, L
<1>4. CASE outbox # <<>>
  <2>1. Drawn = 0 /\ DrawnCovers = 0 BY <1>4 DEF Drawn, DrawnCovers
  <2> QED BY <1>1, <1>2, <1>4, <2>1
<1> QED BY <1>3, <1>4

\* A batch is what was drawn, each once, and covers, in any order.
LEMMA ShuffledIs ==
    ASSUME NEW S, NEW batch \in Seq(S), NEW out \in Orders(batch)
    PROVE  /\ out \in Seq(S) /\ Len(out) = Len(batch)
           /\ Range(out) = Range(batch)
           /\ Once(batch) => Once(out)
<1> DEFINE L == Len(batch)
<1>1. L \in Nat /\ DOMAIN batch = 1..L /\ \A i \in 1..L : batch[i] \in S
  BY SeqIs
<1>2. CASE ~Shuffle
  BY <1>2 DEF Orders
<1>3. CASE Shuffle
  <2> HIDE DEF L
  <2>1. PICK p \in Bijection(1..L, 1..L) : out = [i \in 1..L |-> batch[p[i]]]
    BY <1>3 DEF Orders, L
  <2>2. /\ p \in [1..L -> 1..L]
        /\ \A i, j \in 1..L : p[i] = p[j] => i = j
        /\ \A k \in 1..L : \E i \in 1..L : p[i] = k
    BY DEF Bijection, Injection, Surjection, IsInjective
  <2>3. out \in [1..L -> S] BY <1>1, <2>1, <2>2
  <2>4. out \in Seq(S) /\ Len(out) = L
    <3>1. out \in Seq(S) BY <1>1, <2>3, SeqDef
    <3>2. Len(out) \in Nat /\ 1..Len(out) = 1..L BY <2>3, <3>1, LenProperties
    <3> QED BY <1>1, <3>1, <3>2
  <2>5. \A i \in 1..L : p[i] \in 1..L /\ out[i] = batch[p[i]] BY <2>1, <2>2
  <2>6. Range(out) = Range(batch)
    <3>1. DOMAIN out = 1..L BY <2>3
    <3> QED BY <1>1, <2>2, <2>5, <3>1 DEF Range
  <2>7. ASSUME Once(batch), NEW i \in DOMAIN out, NEW j \in DOMAIN out,
               out[i] = out[j], out[i] \in Item
        PROVE  i = j
    <3>1. i \in 1..L /\ j \in 1..L BY <2>3, <2>7
    <3>2. p[i] = p[j] BY <1>1, <2>5, <2>7, <3>1 DEF Once
    <3> QED BY <2>2, <3>1, <3>2
  <2> QED BY <2>4, <2>6, <2>7 DEF Once, L
<1> QED BY <1>2, <1>3

\* The outbox of a tick before its last packet is popped.
LEMMA OutboxesIs ==
    ASSUME TypeOK, ItemsSound, NEW out \in Outboxes
    PROVE  /\ out \in Seq(Packet) /\ Len(out) = Len(outbox) + Drawn + DrawnCovers
           /\ Once(out)
           /\ ItemsOf(out) = Pending \cup { queue[i] : i \in 1..Drawn }
<1>0. /\ queue \in Seq(Item) /\ outbox \in Seq(Packet) /\ Item \subseteq Packet
      /\ Cover \in Packet /\ Cover \notin Item
  BY MixerAssumption DEF TypeOK, Packet
<1>1. /\ Len(queue) \in Nat /\ DOMAIN queue = 1..Len(queue)
      /\ \A i \in 1..Len(queue) : queue[i] \in Item
  BY <1>0, SeqIs
<1>2. /\ Drawn \in 0..Len(queue) /\ DrawnCovers \in Nat
      /\ Drawn + DrawnCovers > 0 => outbox = <<>>
  <2>1. stash \in Nat BY MixerAssumption DEF TypeOK
  <2> QED BY <2>1, DrawnIs
<1>3. CASE Drawn + DrawnCovers = 0
  <2>1. Drawn = 0 /\ DrawnCovers = 0 BY <1>1, <1>2, <1>3
  <2>2. out = outbox BY <1>3 DEF Outboxes
  <2>3. { queue[i] : i \in 1..Drawn } = {} BY <2>1
  <2>4. Len(outbox) \in Nat BY <1>0, SeqIs
  <2> QED BY <1>0, <2>1, <2>2, <2>3, <2>4 DEF ItemsSound, Pending
<1>4. CASE Drawn + DrawnCovers # 0
  <2> DEFINE D == Drawn
             C == DrawnCovers
             first == SubSeq(queue, 1, D)
             covers == [i \in 1..C |-> Cover]
             batch == (outbox \o first) \o covers
  <2>1. outbox = <<>> BY <1>1, <1>2, <1>4
  <2>2. /\ first \in Seq(Packet) /\ Len(first) = D
        /\ \A i \in 1..D : first[i] = queue[i]
    <3>1. \A i \in 1..D : queue[i] \in Packet BY <1>0, <1>1, <1>2
    <3>2. D \in Int /\ 1 \in Int /\ (1 <= D => D - 1 + 1 = D) /\ (~(1 <= D) => D = 0)
      BY <1>1, <1>2
    <3> HIDE DEF D
    <3> QED BY <3>1, <3>2, SubSeqProperties
  <2>3. covers \in Seq(Packet) /\ Len(covers) = C /\ \A i \in 1..C : covers[i] = Cover
    <3>1. covers \in [1..C -> Packet] BY <1>0
    <3>2. covers \in Seq(Packet) BY <1>2, <3>1, SeqDef
    <3>3. Len(covers) \in Nat /\ 1..Len(covers) = 1..C BY <3>1, <3>2, LenProperties
    <3>4. Len(covers) = C
      <4> HIDE DEF covers
      <4> QED BY <1>2, <3>3
    <3> QED BY <3>2, <3>4
  <2>4. out \in Orders(batch)
    BY <1>4 DEF Outboxes
  <2> HIDE DEF first, covers, D, C
  <2>5. D \in Nat /\ C \in Nat BY <1>1, <1>2 DEF D, C
  <2>6. outbox \o first = first BY <2>1, <2>2, ConcatEmptySeq
  <2>7. /\ batch \in Seq(Packet) /\ Len(batch) = D + C
        /\ \A i \in 1..(D + C) : batch[i] = IF i <= D THEN queue[i] ELSE Cover
    <3>1. /\ first \o covers \in Seq(Packet) /\ Len(first \o covers) = D + C
          /\ \A i \in 1..(D + C) : (first \o covers)[i] =
                IF i <= D THEN first[i] ELSE covers[i - D]
      BY <2>2, <2>3, ConcatProperties
    <3>2. \A i \in 1..(D + C) : /\ i <= D => i \in 1..D
                                /\ ~(i <= D) => i - D \in 1..C
      BY <2>5
    <3> QED BY <2>2, <2>3, <2>6, <3>1, <3>2
  <2> HIDE DEF batch
  <2>8. DOMAIN batch = 1..(D + C) BY <2>7, SeqIs
  <2>9. Once(batch)
    <3> SUFFICES ASSUME NEW i \in 1..(D + C), NEW j \in 1..(D + C),
                        batch[i] = batch[j], batch[i] \in Item
                 PROVE  i = j
      BY <2>8 DEF Once
    <3>1. i <= D /\ j <= D /\ queue[i] = queue[j] BY <1>0, <2>7
    <3>2. i \in 1..Len(queue) /\ j \in 1..Len(queue) BY <1>1, <1>2, <2>5, <3>1 DEF D
    <3>3. arrived[Taken + i] = arrived[Taken + j] BY <1>1, <3>1, <3>2 DEF ItemsSound
    <3>4. /\ Len(arrived) \in Nat /\ DOMAIN arrived = 1..Len(arrived)
          /\ Taken \in Nat /\ Taken = Len(arrived) - Len(queue)
      BY SeqIs DEF TypeOK, ItemsSound, Taken
    <3>5. Taken + i \in DOMAIN arrived /\ Taken + j \in DOMAIN arrived
      BY <1>1, <3>2, <3>4
    <3>6. Taken + i = Taken + j BY <3>3, <3>5 DEF ItemsSound, IsInjective
    <3> QED BY <2>5, <3>4, <3>6
  <2>10. ItemsOf(batch) = { queue[i] : i \in 1..D }
    <3>1. \A i \in 1..D : i \in 1..(D + C) /\ i <= D /\ queue[i] \in Item
      BY <1>1, <1>2, <2>5 DEF D
    <3>2. \A i \in 1..(D + C) : i <= D => i \in 1..D BY <2>5
    <3> QED BY <1>0, <2>7, <2>8, <3>1, <3>2 DEF ItemsOf, Range
  <2>11. Pending = {} BY <2>1, EmptyIs DEF Pending, ItemsOf, Range
  <2>12. Len(outbox) = 0 BY <2>1, EmptyIs
  <2>13. /\ out \in Seq(Packet) /\ Len(out) = Len(batch) /\ Range(out) = Range(batch)
         /\ Once(out)
    BY <2>4, <2>7, <2>9, ShuffledIs
  <2>14. Len(out) = Len(outbox) + Drawn + DrawnCovers
    BY <2>5, <2>7, <2>12, <2>13 DEF D, C
  <2>15. ItemsOf(out) = Pending \cup { queue[i] : i \in 1..Drawn }
    BY <2>10, <2>11, <2>13 DEF ItemsOf, D
  <2> QED BY <2>13, <2>14, <2>15
<1> QED BY <1>3, <1>4

\* Popping a packet takes an item out of the outbox, or none.
LEMMA PopIs ==
    ASSUME NEW s \in Seq(Packet), s # <<>>, Once(s)
    PROVE  /\ Once(Front(s))
           /\ ItemsOf(s) = ItemsOf(Front(s)) \cup ({Last(s)} \cap Item)
           /\ Last(s) \notin ItemsOf(Front(s))
<1>1. /\ Len(s) \in Nat /\ Len(s) > 0
      /\ DOMAIN Front(s) = 1..(Len(s) - 1)
      /\ \A i \in 1..(Len(s) - 1) : Front(s)[i] = s[i]
      /\ Last(s) = s[Len(s)]
  BY FrontLast
<1>2. DOMAIN s = 1..Len(s) BY SeqIs
<1>3. \A i \in DOMAIN s : i \in DOMAIN Front(s) \/ i = Len(s) BY <1>1, <1>2
<1>4. DOMAIN Front(s) \subseteq DOMAIN s /\ Len(s) \in DOMAIN s
      /\ Len(s) \notin DOMAIN Front(s)
  BY <1>1, <1>2
<1>5. Once(Front(s)) BY <1>1, <1>4 DEF Once
<1>6. Range(s) = Range(Front(s)) \cup {Last(s)}
  <2> DEFINE f == Front(s)
             l == Last(s)
  <2>1. /\ \A i \in DOMAIN f : f[i] = s[i] /\ i \in DOMAIN s
        /\ l = s[Len(s)] /\ Len(s) \in DOMAIN s
        /\ \A i \in DOMAIN s : i \in DOMAIN f \/ i = Len(s)
    BY <1>1, <1>3, <1>4
  <2> HIDE DEF f, l
  <2>2. Range(s) = Range(f) \cup {l} BY <2>1 DEF Range
  <2> QED BY <2>2 DEF f, l
<1>7. ASSUME Last(s) \in ItemsOf(Front(s)) PROVE FALSE
  <2>1. PICK i \in DOMAIN Front(s) : Front(s)[i] = Last(s) BY <1>7 DEF ItemsOf, Range
  <2>2. s[i] = s[Len(s)] /\ s[i] \in Item BY <1>1, <1>7, <2>1 DEF ItemsOf
  <2> QED BY <1>4, <2>1, <2>2 DEF Once
<1> QED BY <1>5, <1>6, <1>7 DEF ItemsOf

\* What a tick does to the items; the packet it pops is dispatched.
LEMMA TickIs ==
    ASSUME TypeOK, ItemsSound, NEW late \in Delays, NEW interval \in Intervals,
           Tick(late, interval)
    PROVE  /\ outbox' \in Seq(Packet) /\ Once(outbox')
           /\ dispatching' \in Packet \cup {NoPacket}
           /\ popped' = IF dispatching' \in Item THEN Append(popped, dispatching') ELSE popped
           /\ ItemsOf(outbox') \cup ({dispatching'} \cap Item)
                = Pending \cup { queue[i] : i \in 1..Drawn }
           /\ dispatching' \notin ItemsOf(outbox')
           /\ Len(outbox') = IF Len(outbox) + Drawn + DrawnCovers = 0 THEN 0
                             ELSE Len(outbox) + Drawn + DrawnCovers - 1
           /\ queue' \in Seq(Item) /\ Len(queue') = Len(queue) - Drawn
           /\ \A i \in 1..(Len(queue) - Drawn) : queue'[i] = queue[Drawn + i]
<1> DEFINE held == Len(outbox) + Drawn + DrawnCovers
<1>n. Len(outbox) \in Nat /\ Drawn \in Nat /\ DrawnCovers \in Nat
  <2>1. stash \in Nat BY MixerAssumption DEF TypeOK
  <2> QED BY <2>1, DrawnIs
<1>0. Cover \notin Item /\ NoPacket \notin Item /\ NoPacket # Cover
  BY MixerAssumption
<1>1. PICK out \in Outboxes :
        IF out = <<>>
        THEN outbox' = <<>> /\ UNCHANGED <<dispatching, popped>>
        ELSE /\ outbox' = Front(out)
             /\ dispatching' = Last(out)
             /\ popped' = IF Last(out) = Cover THEN popped
                          ELSE Append(popped, Last(out))
  BY DEF Tick
<1>2. /\ out \in Seq(Packet) /\ Len(out) = held /\ Once(out)
      /\ ItemsOf(out) = Pending \cup { queue[i] : i \in 1..Drawn }
  BY OutboxesIs
<1>q. /\ queue' \in Seq(Item) /\ Len(queue') = Len(queue) - Drawn
      /\ \A i \in 1..(Len(queue) - Drawn) : queue'[i] = queue[Drawn + i]
  <2> DEFINE D == Drawn
             L == Len(queue)
             rest == SubSeq(queue, D + 1, L)
  <2>1. D \in 0..L /\ L \in Nat BY DrawnIs
  <2>2. \A i \in 1..L : queue[i] \in Item BY SeqIs DEF TypeOK
  <2> HIDE DEF D, L
  <2>3. \A i \in (D + 1)..L : queue[i] \in Item BY <2>1, <2>2
  <2>4. /\ rest \in Seq(Item)
        /\ Len(rest) = IF D + 1 <= L THEN L - (D + 1) + 1 ELSE 0
        /\ \A i \in 1..(L - (D + 1) + 1) : rest[i] = queue[D + 1 + i - 1]
    BY <2>1, <2>3, SubSeqProperties
  <2> HIDE DEF rest
  <2>5. Len(rest) = L - D /\ \A i \in 1..(L - D) : rest[i] = queue[D + i]
    BY <2>1, <2>4
  <2>6. queue' = rest BY DEF Tick, RemainingQueue, rest, D, L
  <2> QED BY <2>4, <2>5, <2>6 DEF D, L
<1> HIDE DEF held
<1>3. CASE out = <<>>
  <2>1. /\ outbox' = <<>> /\ dispatching' = NoPacket /\ popped' = popped
    BY <1>1, <1>3 DEF Tick
  <2>2. ItemsOf(<<>>) = {} /\ Once(<<>>) /\ Len(<<>>) = 0 /\ <<>> \in Seq(Packet)
    BY EmptyIs, EmptySeq DEF ItemsOf, Range, Once
  <2>3. held = 0 BY <1>2, <1>3, <2>2
  <2>4. {dispatching'} \cap Item = {} /\ dispatching' \notin Item BY <1>0, <2>1
  <2>5. ItemsOf(outbox') \cup ({dispatching'} \cap Item)
          = Pending \cup { queue[i] : i \in 1..Drawn }
    BY <1>2, <1>3, <2>1, <2>4
  <2>6. popped' = IF dispatching' \in Item THEN Append(popped, dispatching') ELSE popped
    BY <2>1, <2>4
  <2>7. Len(outbox') = IF Len(outbox) + Drawn + DrawnCovers = 0 THEN 0
                       ELSE Len(outbox) + Drawn + DrawnCovers - 1
    <3>1. Len(outbox') = IF held = 0 THEN 0 ELSE held - 1 BY <2>1, <2>2, <2>3
    <3> QED BY <1>n, <3>1 DEF held
  <2>8. dispatching' \notin ItemsOf(outbox') BY <2>1, <2>2
  <2> QED BY <1>q, <2>1, <2>2, <2>5, <2>6, <2>7, <2>8, Zenon
<1>4. CASE out # <<>>
  <2>1. outbox' = Front(out) /\ dispatching' = Last(out)
    BY <1>1, <1>4
  <2>2. popped' = IF Last(out) = Cover THEN popped ELSE Append(popped, Last(out))
    BY <1>1, <1>4
  <2>3. /\ held \in Nat /\ held > 0
        /\ Front(out) \in Seq(Packet) /\ Len(Front(out)) = held - 1
        /\ Last(out) \in Packet
    BY <1>2, <1>4, FrontLast
  <2>4. /\ Once(Front(out))
        /\ ItemsOf(out) = ItemsOf(Front(out)) \cup ({Last(out)} \cap Item)
        /\ Last(out) \notin ItemsOf(Front(out))
    BY <1>2, <1>4, PopIs
  <2>5. Last(out) = Cover <=> Last(out) \notin Item
    BY <1>0, <2>3 DEF Packet
  <2>6. popped' = IF dispatching' \in Item THEN Append(popped, dispatching') ELSE popped
    BY <2>1, <2>2, <2>5
  <2>7. Len(outbox') = IF Len(outbox) + Drawn + DrawnCovers = 0 THEN 0
                       ELSE Len(outbox) + Drawn + DrawnCovers - 1
    <3>1. Len(outbox') = IF held = 0 THEN 0 ELSE held - 1 BY <2>1, <2>3
    <3> QED BY <1>n, <3>1 DEF held
  <2>8. ItemsOf(outbox') \cup ({dispatching'} \cap Item)
          = Pending \cup { queue[i] : i \in 1..Drawn }
    BY <1>2, <2>1, <2>4
  <2>9. dispatching' \notin ItemsOf(outbox') BY <2>1, <2>4
  <2>10. outbox' \in Seq(Packet) /\ Once(outbox') BY <2>1, <2>3, <2>4
  <2>11. dispatching' \in Packet BY <2>1, <2>3
  <2> QED BY <1>q, <2>6, <2>7, <2>8, <2>9, <2>10, <2>11, Zenon
<1> QED BY <1>3, <1>4

-----------------------------------------------------------------------------
(* Types and the clock. *)

LEMMA LastTickIs ==
    ASSUME TypeOK
    PROVE  /\ LastTick \in Times
           /\ ticks # <<>> => Len(ticks) \in DOMAIN ticks /\ LastTick = ticks[Len(ticks)]
<1>1. CASE ticks = <<>>
  BY <1>1 DEF LastTick, Times
<1>2. CASE ticks # <<>>
  <2>1. ticks \in Seq(Times) BY DEF TypeOK
  <2>2. /\ Len(ticks) \in Nat /\ Len(ticks) > 0 /\ Last(ticks) = ticks[Len(ticks)]
        /\ Last(ticks) \in Times
    BY <1>2, <2>1, FrontLast
  <2>3. Len(ticks) \in DOMAIN ticks BY <2>1, <2>2, SeqIs
  <2> QED BY <1>2, <2>2, <2>3 DEF LastTick
<1> QED BY <1>1, <1>2

\* A tick is no earlier than it was due, and the next is due at least its
\* interval later and not before the interval it was reset to.
LEMMA ClockIs ==
    ASSUME TypeOK, NEW late \in Delays, NEW interval \in Intervals, Tick(late, interval)
    PROVE  \E now \in Nat :
             /\ nextSend <= now
             /\ nextSend' \in Nat /\ nextSend + interval <= nextSend'
             /\ now <= nextSend' + interval
             /\ interval \in Nat
             /\ [at |-> now, interval |-> interval,
                 total |-> LastTick.total + interval] \in Times
             /\ ticks' = Append(ticks, [at |-> now, interval |-> interval,
                                        total |-> LastTick.total + interval])
<1> DEFINE due == IF nextSend > LastTick.at THEN nextSend ELSE LastTick.at
           now == due + late
<1>1. late \in Nat /\ interval \in Nat /\ nextSend \in Nat
      /\ LastTick.at \in Nat /\ LastTick.total \in Nat
  BY LastTickIs, MixerAssumption DEF TypeOK, Times
<1>2. now \in Nat /\ nextSend <= now BY <1>1
<1>3. /\ nextSend' = NextSend(now, interval)
      /\ ticks' = Append(ticks, [at |-> now, interval |-> interval,
                                 total |-> LastTick.total + interval])
  BY DEF Tick
<1> HIDE DEF now
<1>4. /\ nextSend' \in Nat /\ nextSend + interval <= nextSend'
      /\ now <= nextSend' + interval
  <2>1. CASE now - (nextSend + interval) > interval
    <3>1. nextSend' = now + interval BY <1>3, <2>1 DEF NextSend
    <3> QED BY <1>1, <1>2, <2>1, <3>1
  <2>2. CASE ~(now - (nextSend + interval) > interval)
    <3>1. nextSend' = nextSend + interval BY <1>3, <2>2 DEF NextSend
    <3> QED BY <1>1, <1>2, <2>2, <3>1
  <2> QED BY <2>1, <2>2
<1>5. [at |-> now, interval |-> interval, total |-> LastTick.total + interval] \in Times
  BY <1>1, <1>2 DEF Times
<1> QED BY <1>1, <1>2, <1>3, <1>4, <1>5

LEMMA TypeStep == TypeOK /\ ItemsSound /\ [Next]_vars => TypeOK'
<1> SUFFICES ASSUME TypeOK, ItemsSound, [Next]_vars PROVE TypeOK'
  OBVIOUS
<1> USE DEF coverVars
<1>1. ASSUME NEW m \in Item, QueueItem(m) PROVE TypeOK'
  <2> DEFINE d == Len(ticks) + Len(outbox) + OutboxSize * Batches(Len(queue) + 1)
  <2>1. d \in Nat
    <3>1. Len(ticks) \in Nat /\ Len(outbox) \in Nat /\ Len(queue) \in Nat
      BY SeqIs DEF TypeOK
    <3>2. Len(queue) + 1 \in Nat /\ Len(queue) + 1 >= 1 BY <3>1
    <3>3. OutboxSize * Batches(Len(queue) + 1) \in Nat BY <3>2, BatchesIs
    <3> QED BY <3>1, <3>3
  <2>2. /\ queue' = Append(queue, m) /\ arrived' = Append(arrived, m)
        /\ deadline' = [deadline EXCEPT ![m] = d]
        /\ UNCHANGED <<outbox, dispatching, loop, nextSend, coverVars, ticks,
                       popped, departed>>
    BY <1>1 DEF QueueItem
  <2> HIDE DEF d
  <2>3. queue' \in Seq(Item) /\ arrived' \in Seq(Item)
    BY <2>2, AppendIs DEF TypeOK
  <2>4. deadline' \in [Item -> Nat] BY <2>1, <2>2 DEF TypeOK
  <2> QED BY <2>2, <2>3, <2>4 DEF TypeOK
<1>2. ASSUME Start PROVE TypeOK'
  BY <1>2 DEF TypeOK, Start
<1>3. ASSUME NEW late \in Delays, NEW interval \in Intervals, Tick(late, interval)
      PROVE  TypeOK'
  <2>1. /\ outbox' \in Seq(Packet) /\ dispatching' \in Packet \cup {NoPacket}
        /\ queue' \in Seq(Item)
        /\ popped' = IF dispatching' \in Item THEN Append(popped, dispatching') ELSE popped
    BY <1>3, TickIs
  <2>2. popped' \in Seq(Item)
    <3>1. popped \in Seq(Item) BY DEF TypeOK
    <3>2. CASE dispatching' \in Item BY <2>1, <3>1, <3>2, AppendIs
    <3>3. CASE dispatching' \notin Item BY <2>1, <3>1, <3>3
    <3> QED BY <3>2, <3>3
  <2>3. nextSend' \in Nat /\ ticks' \in Seq(Times)
    <3>1. PICK t \in Times : nextSend' \in Nat /\ ticks' = Append(ticks, t)
      BY <1>3, ClockIs
    <3> QED BY <3>1, AppendIs DEF TypeOK
  <2>4. stash' \in 0..MaxCovers /\ (generator = "await" => stash' < MaxCovers)
    <3>1. stash' = stash - DrawnCovers BY <1>3 DEF Tick
    <3>2. stash \in 0..MaxCovers /\ DrawnCovers \in 0..stash BY DrawnIs DEF TypeOK
    <3>3. generator = "await" => stash < MaxCovers BY DEF TypeOK
    <3> QED BY <3>1, <3>2, <3>3, MixerAssumption
  <2>5. UNCHANGED <<loop, generator, arrived, departed, deadline>>
    BY <1>3 DEF Tick
  <2> QED BY <2>1, <2>2, <2>3, <2>4, <2>5 DEF TypeOK
<1>4. ASSUME Dispatch PROVE TypeOK'
  <2>1. dispatching \in Packet BY <1>4 DEF TypeOK, Dispatch
  <2>2. {dispatching} \ {Cover} \subseteq Item BY <2>1 DEF Packet
  <2> QED BY <1>4, <2>2 DEF TypeOK, Dispatch
<1>5. ASSUME Stop PROVE TypeOK'
  BY <1>5 DEF TypeOK, Stop
<1>6. ASSUME GenerateCover PROVE TypeOK'
  BY <1>6 DEF TypeOK, GenerateCover
<1>7. ASSUME StashCover PROVE TypeOK'
  <2>1. stash' \in 0..MaxCovers
    <3>1. stash \in 0..MaxCovers /\ stash < MaxCovers /\ stash' = stash + 1
      BY <1>7 DEF TypeOK, StashCover
    <3> QED BY <3>1, MixerAssumption
  <2> QED BY <1>7, <2>1 DEF TypeOK, StashCover
<1>8. ASSUME StopCovers PROVE TypeOK'
  BY <1>8 DEF TypeOK, StopCovers
<1>9. CASE UNCHANGED vars
  BY <1>9 DEF TypeOK, vars
<1> QED
  BY <1>1, <1>2, <1>3, <1>4, <1>5, <1>6, <1>7, <1>8, <1>9, Zenon DEF Next

LEMMA Postponed ==
    ASSUME NEW total \in Nat, NEW send \in Nat, NEW later \in Nat, NEW interval \in Nat,
           NEW of \in Nat, NEW at \in Nat, NEW own \in Nat,
           total - of <= send - at + own, send + interval <= later
    PROVE  (total + interval) - of <= later - at + own
OBVIOUS

LEMMA OwnTick ==
    ASSUME NEW total \in Nat, NEW now \in Nat, NEW later \in Nat, NEW interval \in Nat,
           now <= later + interval
    PROVE  total - total <= later - now + interval
OBVIOUS

LEMMA PaceStep == TypeOK /\ PaceSound /\ [Next]_vars => PaceSound'
<1> SUFFICES ASSUME TypeOK, PaceSound, [Next]_vars PROVE PaceSound'
  OBVIOUS
<1> USE DEF coverVars
<1>1. ASSUME UNCHANGED <<ticks, nextSend>> PROVE PaceSound'
  BY <1>1 DEF PaceSound, Pace, LastTick
<1>2. ASSUME NEW late \in Delays, NEW interval \in Intervals, Tick(late, interval)
      PROVE  PaceSound'
  <2> DEFINE L == Len(ticks)
  <2>0. ticks \in Seq(Times) BY DEF TypeOK
  <2>1. L \in Nat /\ DOMAIN ticks = 1..L /\ \A i \in 1..L : ticks[i] \in Times
    BY <2>0, SeqIs
  <2>2. PICK now \in Nat, t \in Times :
          /\ nextSend <= now
          /\ nextSend' \in Nat /\ nextSend + interval <= nextSend'
          /\ now <= nextSend' + interval /\ interval \in Nat
          /\ t = [at |-> now, interval |-> interval,
                  total |-> LastTick.total + interval]
          /\ ticks' = Append(ticks, t)
    BY <1>2, ClockIs
  <2>3. t.at = now /\ t.interval = interval /\ t.total = LastTick.total + interval
    BY <2>2
  <2>4. /\ ticks' \in Seq(Times) /\ Len(ticks') = L + 1 /\ DOMAIN ticks' = 1..(L + 1)
        /\ \A i \in 1..L : ticks'[i] = ticks[i]
        /\ ticks'[L + 1] = t
    BY <2>0, <2>2, AppendIs
  <2>5. LastTick' = t
    <3>1. ticks' # <<>> BY <2>1, <2>4, EmptyIs
    <3>2. Last(ticks') = t BY <2>4 DEF Last
    <3> QED BY <3>1, <3>2 DEF LastTick
  <2>6. /\ LastTick.total \in Nat /\ nextSend \in Nat
        /\ \A i \in 1..L : ticks[i].at \in Nat /\ ticks[i].interval \in Nat
                           /\ ticks[i].total \in Nat
    BY <2>1, LastTickIs DEF TypeOK, Times
  <2> HIDE DEF L
  \* So the new tick does not exceed the rate since tick i.
  <2>7. \A i \in 1..L :
          LastTick.total - ticks[i].total <= nextSend - ticks[i].at + ticks[i].interval
    BY <2>1 DEF PaceSound
  <2>8. \A i \in DOMAIN ticks' :
          LastTick'.total - ticks'[i].total <= nextSend' - ticks'[i].at + ticks'[i].interval
    <3> TAKE i \in DOMAIN ticks'
    <3>1. CASE i \in 1..L
      <4>1. LastTick.total - ticks[i].total <= nextSend - ticks[i].at + ticks[i].interval
        BY <2>7, <3>1
      <4>2. ticks'[i] = ticks[i] BY <2>4, <3>1
      <4>3. LastTick'.total = LastTick.total + interval BY <2>3, <2>5
      <4>4. (LastTick.total + interval) - ticks[i].total
              <= nextSend' - ticks[i].at + ticks[i].interval
        BY <2>2, <2>6, <3>1, <4>1, Postponed
      <4> QED BY <4>2, <4>3, <4>4
    <3>2. CASE i = L + 1
      <4>1. ticks'[i] = t /\ LastTick' = t BY <2>4, <2>5, <3>2
      <4>2. t.total \in Nat BY DEF Times
      <4>3. t.total - t.total <= nextSend' - now + interval
        BY <2>2, <4>2, OwnTick
      <4> QED BY <2>3, <4>1, <4>3
    <3> QED BY <2>1, <2>4, <3>1, <3>2
  <2>9. ASSUME NEW i \in DOMAIN ticks', NEW j \in DOMAIN ticks', i < j
        PROVE  ticks'[j - 1].total - ticks'[i].total
                 <= ticks'[j].at - ticks'[i].at + ticks'[i].interval
    <3>1. i \in 1..L /\ ticks'[i] = ticks[i] BY <2>1, <2>4, <2>9
    <3>2. CASE j \in 1..L
      <4>1. j - 1 \in 1..L BY <2>1, <2>9, <3>1, <3>2
      <4>2. ticks'[j] = ticks[j] /\ ticks'[j - 1] = ticks[j - 1] BY <2>4, <3>2, <4>1
      <4>3. ticks[j - 1].total - ticks[i].total
              <= ticks[j].at - ticks[i].at + ticks[i].interval
        BY <2>1, <2>9, <3>1, <3>2 DEF PaceSound, Pace
      <4> QED BY <3>1, <4>2, <4>3
    <3>3. CASE j = L + 1
      <4>1. j - 1 = L /\ L \in 1..L BY <2>1, <3>1, <3>3
      <4>2. ticks'[j - 1] = ticks[L] /\ ticks'[j] = t BY <2>4, <3>3, <4>1
      <4>3. LastTick = ticks[L]
        <5>1. ticks # <<>> BY <2>1, <4>1, EmptyIs
        <5> QED BY <5>1, LastTickIs DEF L
      <4>4. LastTick.total - ticks[i].total <= nextSend - ticks[i].at + ticks[i].interval
        BY <2>7, <3>1
      <4>5. LastTick.total - ticks[i].total <= now - ticks[i].at + ticks[i].interval
        <5>1. /\ ticks[i].at \in Nat /\ ticks[i].interval \in Nat
              /\ ticks[i].total \in Nat
          BY <2>6, <3>1
        <5>2. nextSend + 0 <= now /\ 0 \in Nat /\ LastTick.total + 0 = LastTick.total
          BY <2>2, <2>6
        <5>3. (LastTick.total + 0) - ticks[i].total <= now - ticks[i].at + ticks[i].interval
          BY <2>6, <4>4, <5>1, <5>2, Postponed
        <5> QED BY <5>2, <5>3
      <4> QED BY <2>3, <3>1, <4>2, <4>3, <4>5
    <3> QED BY <2>1, <2>4, <3>2, <3>3
  <2>10. Pace' BY <2>9 DEF Pace
  <2> QED BY <2>8, <2>10 DEF PaceSound
<1>3. CASE \/ \E m \in Item : QueueItem(m)
           \/ Start \/ Dispatch \/ Stop \/ GenerateCover \/ StashCover \/ StopCovers
           \/ UNCHANGED vars
  <2>1. UNCHANGED <<ticks, nextSend>>
    BY <1>3 DEF QueueItem, Start, Dispatch, Stop, GenerateCover, StashCover,
                StopCovers, vars
  <2> QED BY <1>1, <2>1
<1> QED BY <1>2, <1>3, Zenon DEF Next

-----------------------------------------------------------------------------
(* Every item is in one place. *)

LEMMA TakenIs ==
    ASSUME TypeOK, ItemsSound
    PROVE  /\ Len(arrived) \in Nat /\ DOMAIN arrived = 1..Len(arrived)
           /\ Len(queue) \in Nat /\ DOMAIN queue = 1..Len(queue)
           /\ Taken \in Nat /\ Taken + Len(queue) = Len(arrived)
           /\ \A i \in 1..Len(queue) : queue[i] = arrived[Taken + i] /\ queue[i] \in Item
           /\ \A j \in 1..Len(arrived) : arrived[j] \in Item
           /\ \A j, k \in 1..Len(arrived) : arrived[j] = arrived[k] => j = k
<1>1. queue \in Seq(Item) /\ arrived \in Seq(Item) BY DEF TypeOK
<1>2. /\ Len(arrived) \in Nat /\ DOMAIN arrived = 1..Len(arrived)
      /\ \A j \in 1..Len(arrived) : arrived[j] \in Item
  BY <1>1, SeqIs
<1>3. /\ Len(queue) \in Nat /\ DOMAIN queue = 1..Len(queue)
      /\ \A i \in 1..Len(queue) : queue[i] \in Item
  BY <1>1, SeqIs
<1>4. Taken \in Nat /\ \A i \in DOMAIN queue : queue[i] = arrived[Taken + i]
  BY DEF ItemsSound
<1>5. Taken + Len(queue) = Len(arrived) BY <1>2, <1>3 DEF Taken
<1>6. \A j, k \in 1..Len(arrived) : arrived[j] = arrived[k] => j = k
  <2>1. IsInjective(arrived) BY DEF ItemsSound
  <2> QED BY <1>2, <2>1 DEF IsInjective
<1> QED BY <1>2, <1>3, <1>4, <1>5, <1>6

LEMMA ItemsStep == TypeOK /\ ItemsSound /\ [Next]_vars => ItemsSound'
<1> SUFFICES ASSUME TypeOK, ItemsSound, [Next]_vars PROVE ItemsSound'
  OBVIOUS
<1> USE DEF coverVars
<1>t. /\ Len(arrived) \in Nat /\ DOMAIN arrived = 1..Len(arrived)
      /\ Len(queue) \in Nat /\ DOMAIN queue = 1..Len(queue)
      /\ Taken \in Nat /\ Taken + Len(queue) = Len(arrived)
      /\ \A i \in 1..Len(queue) : queue[i] = arrived[Taken + i] /\ queue[i] \in Item
      /\ \A j \in 1..Len(arrived) : arrived[j] \in Item
      /\ \A j, k \in 1..Len(arrived) : arrived[j] = arrived[k] => j = k
  BY TakenIs
<1>s. ASSUME IsInjective(arrived'), IsInjective(popped'), Taken' \in Nat,
             \A i \in DOMAIN queue' : queue'[i] = arrived'[Taken' + i],
             Once(outbox'),
             ItemsOf(outbox') \cap Range(popped') = {},
             ItemsOf(outbox') \cup Range(popped') = { arrived'[j] : j \in 1..Taken' },
             dispatching' \in Item => dispatching' \in Range(popped'),
             departed' = Range(popped') \ {dispatching'}
      PROVE  ItemsSound'
  BY <1>s DEF ItemsSound, Pending, Once, ItemsOf
<1>i. /\ IsInjective(arrived) /\ IsInjective(popped)
      /\ Once(outbox)
      /\ ItemsOf(outbox) \cap Range(popped) = {}
      /\ ItemsOf(outbox) \cup Range(popped) = { arrived[j] : j \in 1..Taken }
      /\ dispatching \in Item => dispatching \in Range(popped)
      /\ departed = Range(popped) \ {dispatching}
  BY DEF ItemsSound, Pending
<1>1. ASSUME NEW m \in Item, QueueItem(m) PROVE ItemsSound'
  <2>1. /\ queue' = Append(queue, m) /\ arrived' = Append(arrived, m)
        /\ m \notin Range(arrived)
        /\ UNCHANGED <<outbox, dispatching, popped, departed>>
    BY <1>1 DEF QueueItem
  <2>2. /\ Len(queue') = Len(queue) + 1 /\ DOMAIN queue' = 1..(Len(queue) + 1)
        /\ \A i \in 1..Len(queue) : queue'[i] = queue[i]
        /\ queue'[Len(queue) + 1] = m
        /\ Len(arrived') = Len(arrived) + 1 /\ DOMAIN arrived' = 1..(Len(arrived) + 1)
        /\ \A j \in 1..Len(arrived) : arrived'[j] = arrived[j]
        /\ arrived'[Len(arrived) + 1] = m
    BY <2>1, AppendIs DEF TypeOK
  <2>3. Taken' = Taken BY <1>t, <2>2 DEF Taken
  <2>4. \A i \in DOMAIN queue' : queue'[i] = arrived'[Taken' + i]
    <3> TAKE i \in DOMAIN queue'
    <3>1. CASE i \in 1..Len(queue)
      <4>1. Taken + i \in 1..Len(arrived) BY <1>t, <3>1
      <4> QED BY <1>t, <2>2, <2>3, <3>1, <4>1
    <3>2. CASE i = Len(queue) + 1
      <4>1. Taken + i = Len(arrived) + 1 BY <1>t, <3>2
      <4> QED BY <2>2, <2>3, <3>2, <4>1
    <3> QED BY <1>t, <2>2, <3>1, <3>2
  <2>5. IsInjective(arrived')
    <3> SUFFICES ASSUME NEW i \in 1..(Len(arrived) + 1), NEW j \in 1..(Len(arrived) + 1),
                        arrived'[i] = arrived'[j]
                 PROVE  i = j
      BY <2>2 DEF IsInjective
    <3>1. \A k \in 1..Len(arrived) : arrived[k] # m BY <1>t, <2>1 DEF Range
    <3>2. \A k \in 1..(Len(arrived) + 1) : k \in 1..Len(arrived) \/ k = Len(arrived) + 1
      BY <1>t
    <3> QED BY <1>t, <2>2, <3>1, <3>2
  <2>6. { arrived'[j] : j \in 1..Taken' } = { arrived[j] : j \in 1..Taken }
    <3>1. \A j \in 1..Taken : j \in 1..Len(arrived) BY <1>t
    <3>2. \A j \in 1..Taken : arrived'[j] = arrived[j] BY <2>2, <3>1
    <3> QED BY <2>3, <3>2
  <2> QED BY <1>i, <1>s, <1>t, <2>1, <2>3, <2>4, <2>5, <2>6
<1>2. ASSUME NEW late \in Delays, NEW interval \in Intervals, Tick(late, interval)
      PROVE  ItemsSound'
  <2> DEFINE D == Drawn
             L == Len(queue)
  <2>1. /\ Once(outbox')
        /\ popped' = IF dispatching' \in Item THEN Append(popped, dispatching') ELSE popped
        /\ ItemsOf(outbox') \cup ({dispatching'} \cap Item)
             = ItemsOf(outbox) \cup { queue[i] : i \in 1..D }
        /\ dispatching' \notin ItemsOf(outbox')
        /\ queue' \in Seq(Item) /\ Len(queue') = L - D
        /\ \A i \in 1..(L - D) : queue'[i] = queue[D + i]
    BY <1>2, TickIs DEF Pending
  <2>2. D \in 0..L /\ L \in Nat BY DrawnIs
  <2>3. dispatching = NoPacket /\ UNCHANGED <<arrived, departed>>
    BY <1>2 DEF Tick
  <2>4. L - D \in Nat /\ DOMAIN queue' = 1..(L - D)
    <3>1. DOMAIN queue' = 1..Len(queue') BY <2>1, SeqIs
    <3> QED BY <2>1, <2>2, <3>1
  <2>5. Taken' = Taken + D /\ Taken' \in Nat
    <3>1. Taken' = Len(arrived) - (L - D) BY <2>1, <2>3 DEF Taken
    <3>2. Taken + L = Len(arrived) /\ Taken \in Nat BY <1>t
    <3> HIDE DEF D, L
    <3> QED BY <1>t, <2>2, <3>1, <3>2
  <2> DEFINE drawn == { queue[i] : i \in 1..D }
  <2>6. { arrived[j] : j \in 1..(Taken + D) } = { arrived[j] : j \in 1..Taken } \cup drawn
    <3>0. Taken \in Nat /\ \A i \in 1..L : queue[i] = arrived[Taken + i] BY <1>t
    <3> HIDE DEF D, L
    <3>1. \A i \in 1..D : Taken + i \in 1..(Taken + D) /\ queue[i] = arrived[Taken + i]
      BY <2>2, <3>0
    <3>2. \A j \in 1..(Taken + D) : j \in 1..Taken \/ (j - Taken \in 1..D /\ Taken + (j - Taken) = j)
      BY <2>2, <3>0
    <3>3. \A j \in 1..Taken : j \in 1..(Taken + D) BY <2>2, <3>0
    <3>4. \A j \in 1..(Taken + D) : j \in 1..Taken \/ arrived[j] \in drawn
      BY <3>1, <3>2
    <3> QED BY <3>1, <3>3, <3>4
  <2>7. drawn \cap { arrived[j] : j \in 1..Taken } = {} /\ drawn \subseteq Item
    <3>0. /\ Taken \in Nat /\ Taken + L = Len(arrived)
          /\ \A i \in 1..L : queue[i] = arrived[Taken + i] /\ queue[i] \in Item
          /\ \A j, k \in 1..Len(arrived) : arrived[j] = arrived[k] => j = k
      BY <1>t
    <3> HIDE DEF D, L
    <3>1. \A i \in 1..D : i \in 1..L /\ Taken + i \in 1..Len(arrived) /\ i >= 1
      BY <2>2, <3>0
    <3>2. \A j \in 1..Taken : j \in 1..Len(arrived) BY <2>2, <3>0
    <3>3. \A i \in 1..D, j \in 1..Taken : Taken + i # j BY <2>2, <3>0
    <3>4. \A i \in 1..D, j \in 1..Taken : queue[i] # arrived[j]
      BY <3>0, <3>1, <3>2, <3>3
    <3> QED BY <3>0, <3>1, <3>4
  <2> HIDE DEF drawn
  <2>8. /\ Range(popped') = Range(popped) \cup ({dispatching'} \cap Item)
        /\ IsInjective(popped')
    <3>1. CASE dispatching' \in Item
      <4>1. popped \in Seq(Item) /\ popped' = Append(popped, dispatching')
        BY <2>1, <3>1 DEF TypeOK
      <4>2. Range(popped') = Range(popped) \cup {dispatching'}
        BY <3>1, <4>1, AppendIs
      <4>3. dispatching' \in ItemsOf(outbox) \cup drawn BY <2>1, <3>1 DEF drawn
      <4>4. dispatching' \notin Range(popped)
        BY <1>i, <2>7, <4>3
      <4>5. /\ Len(popped) \in Nat /\ DOMAIN popped = 1..Len(popped)
            /\ DOMAIN popped' = 1..(Len(popped) + 1)
            /\ \A k \in 1..Len(popped) : popped'[k] = popped[k]
            /\ popped'[Len(popped) + 1] = dispatching'
        BY <3>1, <4>1, AppendIs, SeqIs
      <4>6. \A k \in 1..Len(popped) : popped[k] # dispatching'
        BY <4>4, <4>5 DEF Range
      <4>7. \A k, l \in 1..Len(popped) : popped[k] = popped[l] => k = l
        BY <1>i, <4>5 DEF IsInjective
      <4>8. IsInjective(popped')
        <5> SUFFICES ASSUME NEW k \in 1..(Len(popped) + 1), NEW l \in 1..(Len(popped) + 1),
                            popped'[k] = popped'[l]
                     PROVE  k = l
          BY <4>5 DEF IsInjective
        <5>1. \A h \in 1..(Len(popped) + 1) : h \in 1..Len(popped) \/ h = Len(popped) + 1
          BY <4>5
        <5> QED BY <4>5, <4>6, <4>7, <5>1
      <4> QED BY <3>1, <4>2, <4>8
    <3>2. CASE dispatching' \notin Item
      BY <1>i, <2>1, <3>2
    <3> QED BY <3>1, <3>2
  <2>9. ItemsOf(outbox') \cap Range(popped') = {}
    <3>1. ItemsOf(outbox') \subseteq ItemsOf(outbox) \cup drawn BY <2>1 DEF drawn
    <3>2. (ItemsOf(outbox) \cup drawn) \cap Range(popped) = {} BY <1>i, <2>7
    <3> QED BY <2>1, <2>8, <3>1, <3>2
  <2>10. ItemsOf(outbox') \cup Range(popped') = { arrived'[j] : j \in 1..Taken' }
    <3>1. ItemsOf(outbox') \cup Range(popped')
            = (ItemsOf(outbox) \cup drawn) \cup Range(popped)
      BY <2>1, <2>8 DEF drawn
    <3>2. ItemsOf(outbox) \cup Range(popped) = { arrived[j] : j \in 1..Taken } BY <1>i
    <3> HIDE DEF D
    <3>3. ItemsOf(outbox') \cup Range(popped') = { arrived[j] : j \in 1..(Taken + D) }
      BY <2>6, <3>1, <3>2
    <3> QED BY <2>3, <2>5, <3>3
  <2>11. \A i \in DOMAIN queue' : queue'[i] = arrived'[Taken' + i]
    <3> TAKE i \in DOMAIN queue'
    <3>0. /\ Taken \in Nat /\ \A k \in 1..L : queue[k] = arrived[Taken + k] BY <1>t
    <3> HIDE DEF D, L
    <3>1. D + i \in 1..L /\ Taken + (D + i) = (Taken + D) + i BY <2>2, <2>4, <3>0
    <3> QED BY <2>1, <2>3, <2>4, <2>5, <3>0, <3>1
  <2>12. /\ dispatching' \in Item => dispatching' \in Range(popped')
         /\ departed' = Range(popped') \ {dispatching'}
    <3>1. departed = Range(popped)
      <4>1. Range(popped) \subseteq Item BY SeqIs DEF TypeOK, Range
      <4> QED BY <1>i, <2>3, <4>1, MixerAssumption
    <3>2. dispatching' \notin Range(popped)
      <4>1. CASE dispatching' \in Item
        <5>1. dispatching' \in ItemsOf(outbox) \cup drawn BY <2>1, <4>1 DEF drawn
        <5> QED BY <1>i, <2>7, <5>1
      <4>2. CASE dispatching' \notin Item
        <5>1. Range(popped) \subseteq Item BY SeqIs DEF TypeOK, Range
        <5> QED BY <4>2, <5>1
      <4> QED BY <4>1, <4>2
    <3> QED BY <2>3, <2>8, <3>1, <3>2
  <2> QED BY <1>i, <1>s, <2>1, <2>3, <2>5, <2>8, <2>9, <2>10, <2>11, <2>12
<1>3. ASSUME Dispatch PROVE ItemsSound'
  <2>1. /\ dispatching' = NoPacket /\ departed' = departed \cup ({dispatching} \ {Cover})
        /\ dispatching # NoPacket
        /\ UNCHANGED <<queue, outbox, arrived, popped>>
    BY <1>3 DEF Dispatch
  <2>2. Range(popped) \subseteq Item BY SeqIs DEF TypeOK, Range
  <2>3. departed' = Range(popped') \ {dispatching'}
    <3>1. dispatching \in Item \/ dispatching = Cover BY <2>1 DEF TypeOK, Packet
    <3> QED BY <1>i, <2>1, <2>2, <3>1, MixerAssumption
  <2>4. Taken' = Taken BY <2>1 DEF Taken
  <2>5. NoPacket \notin Item BY MixerAssumption
  <2> QED BY <1>i, <1>s, <1>t, <2>1, <2>3, <2>4, <2>5
<1>4. CASE Start \/ Stop \/ GenerateCover \/ StashCover \/ StopCovers \/ UNCHANGED vars
  <2>1. UNCHANGED <<queue, outbox, dispatching, arrived, popped, departed>>
    BY <1>4 DEF Start, Stop, GenerateCover, StashCover, StopCovers, vars
  <2>2. Taken' = Taken BY <2>1 DEF Taken
  <2> QED BY <1>i, <1>s, <1>t, <2>1, <2>2
<1> QED BY <1>1, <1>2, <1>3, <1>4, Zenon DEF Next

-----------------------------------------------------------------------------
(* The order in which they leave. *)

\* As many items as were taken and are not pending have been popped.
LEMMA PoppedCount ==
    ASSUME TypeOK, ItemsSound
    PROVE  /\ Len(popped) \in Nat /\ DOMAIN popped = 1..Len(popped)
           /\ Len(popped) <= Taken
           /\ Pending = {} => Len(popped) = Taken
<1> DEFINE g == [j \in 1..Taken |-> arrived[j]]
<1>1. /\ Taken \in Nat /\ Taken <= Len(arrived) /\ Len(arrived) \in Nat
      /\ \A j, k \in 1..Len(arrived) : arrived[j] = arrived[k] => j = k
  <2>1. Len(queue) \in Nat /\ Taken \in Nat /\ Taken + Len(queue) = Len(arrived) BY TakenIs
  <2> QED BY <2>1, TakenIs
<1>2. Len(popped) \in Nat /\ DOMAIN popped = 1..Len(popped) BY SeqIs DEF TypeOK
<1>3. Range(g) = { arrived[j] : j \in 1..Taken } /\ DOMAIN g = 1..Taken BY DEF Range
<1>4. IsInjective(popped) /\ Pending \cup Range(popped) = Range(g)
  BY <1>3 DEF ItemsSound
<1>5. IsInjective(g)
  <2>1. \A j \in 1..Taken : j \in 1..Len(arrived) /\ g[j] = arrived[j] BY <1>1
  <2> HIDE DEF g
  <2> QED BY <1>1, <1>3, <2>1 DEF IsInjective
<1> HIDE DEF g
<1>6. Len(popped) <= Taken
  <2>1. Range(popped) \subseteq Range(g) BY <1>4
  <2> QED BY <1>1, <1>2, <1>3, <1>4, <2>1, Pigeons
<1>7. Pending = {} => Taken <= Len(popped)
  <2>1. Pending = {} => Range(g) \subseteq Range(popped) BY <1>4
  <2> QED BY <1>1, <1>2, <1>3, <1>5, <2>1, Pigeons
<1>8. ASSUME Pending = {} PROVE Len(popped) = Taken
  <2>1. Taken <= Len(popped) BY <1>7, <1>8
  <2>2. Taken \in Nat /\ Len(popped) \in Nat BY <1>1, <1>2
  <2>3. PICK t \in Nat : t = Taken BY <2>2
  <2>4. PICK n \in Nat : n = Len(popped) BY <2>2
  <2>5. n <= t /\ t <= n BY <1>6, <2>1, <2>3, <2>4, Zenon
  <2>6. n = t BY <2>5
  <2> QED BY <2>3, <2>4, <2>6
<1> QED BY <1>2, <1>6, <1>8, Zenon

LEMMA PoppedCountNext ==
    TypeOK' /\ ItemsSound' =>
      /\ Len(popped') \in Nat /\ DOMAIN popped' = 1..Len(popped')
      /\ Len(popped') <= Taken'
<1> DEFINE Q == /\ Len(popped) \in Nat /\ DOMAIN popped = 1..Len(popped)
                /\ Len(popped) <= Taken
<1>1. TypeOK /\ ItemsSound => Q BY PoppedCount
<1>2. TypeOK' /\ ItemsSound' => Q' BY <1>1, PTL
<1> QED BY <1>2

LEMMA Within ==
    ASSUME NEW k \in Nat, NEW j \in Nat, NEW first \in Nat, NEW n \in Nat, NEW size \in Nat,
           first < k, first < j, k <= n, j <= n, n - first <= size
    PROVE  k - j < size /\ j - k < size
OBVIOUS

\* Items of the batch at work, the one a tick begins included.
LEMMA DrawnBatch ==
    ASSUME TypeOK, ItemsSound, OrderSound
    PROVE  \E first \in 0..Len(popped) :
             /\ (Taken + Drawn) - first <= OutboxSize
             /\ \A k \in DOMAIN popped, j \in DOMAIN arrived :
                  popped[k] = arrived[j] /\ k > first => first < j
             /\ \A j \in DOMAIN arrived :
                  arrived[j] \in Pending \cup { queue[i] : i \in 1..Drawn } => first < j
<1> DEFINE drawn == { queue[i] : i \in 1..Drawn }
<1>1. CASE Drawn = 0
  <2>1. PICK first \in 0..Len(popped) : Batch(first) BY DEF OrderSound
  <2>2. drawn = {} BY <1>1
  <2>3. Taken \in Nat /\ Taken + Drawn = Taken BY <1>1, TakenIs
  <2> HIDE DEF drawn
  <2>4. /\ (Taken + Drawn) - first <= OutboxSize
        /\ \A k \in DOMAIN popped, j \in DOMAIN arrived :
             popped[k] = arrived[j] /\ k > first => first < j
        /\ \A j \in DOMAIN arrived : arrived[j] \in Pending \cup drawn => first < j
    <3>1. Pending \cup drawn = Pending BY <2>2
    <3>2. \A j \in DOMAIN arrived : arrived[j] \in Pending \cup drawn => first < j
      BY <2>1, <3>1, Zenon DEF Batch
    <3>3. Taken - first <= OutboxSize BY <2>1, Zenon DEF Batch
    <3>4. (Taken + Drawn) - first <= OutboxSize
      BY <2>3, <3>3, Zenon
    <3>5. \A k \in DOMAIN popped, j \in DOMAIN arrived :
             popped[k] = arrived[j] /\ k > first => first < j
      BY <2>1, Zenon DEF Batch
    <3> QED BY <3>2, <3>4, <3>5, Zenon
  <2> QED BY <2>4 DEF drawn
<1>2. CASE Drawn # 0
  <2>1. /\ Drawn \in 0..Len(queue) /\ Len(queue) \in Nat /\ Drawn <= OutboxSize
        /\ outbox = <<>>
    <3>1. stash \in Nat BY MixerAssumption DEF TypeOK
    <3> QED BY <1>2, <3>1, DrawnIs
  <2>2. Pending = {} BY <2>1, EmptyIs DEF Pending, ItemsOf, Range
  <2>3. /\ Len(popped) = Taken /\ Taken \in Nat /\ DOMAIN popped = 1..Taken
        /\ Taken + Len(queue) = Len(arrived) /\ DOMAIN arrived = 1..Len(arrived)
    BY <2>2, PoppedCount, TakenIs
  <2> DEFINE D == Drawn
  <2>4. (Taken + D) - Taken <= OutboxSize BY <2>1, <2>3
  <2>5. \A k \in DOMAIN popped : ~(k > Taken) BY <2>3
  <2>6. \A j \in DOMAIN arrived : arrived[j] \in drawn => Taken < j
    <3> SUFFICES ASSUME NEW j \in 1..Len(arrived), NEW i \in 1..D, arrived[j] = queue[i]
                 PROVE  Taken < j
      BY <2>3
    <3>1. i \in 1..Len(queue) /\ i >= 1 BY <2>1
    <3>2. queue[i] = arrived[Taken + i] BY <3>1, TakenIs
    <3>3. Taken + i \in 1..Len(arrived) BY <2>1, <2>3, <3>1
    <3>4. j = Taken + i BY <3>2, <3>3, TakenIs
    <3> QED BY <2>3, <3>1, <3>4
  <2>7. Taken \in 0..Len(popped) BY <2>3
  <2> HIDE DEF drawn
  <2> QED BY <2>2, <2>4, <2>5, <2>6, <2>7 DEF drawn
<1> QED BY <1>1, <1>2

LEMMA OrderStep ==
    ASSUME TypeOK, ItemsSound, OrderSound, TypeOK', ItemsSound', [Next]_vars
    PROVE  OrderSound'
<1> USE DEF coverVars
<1>t. /\ Len(arrived) \in Nat /\ DOMAIN arrived = 1..Len(arrived)
      /\ Len(queue) \in Nat /\ Taken \in Nat /\ Taken + Len(queue) = Len(arrived)
      /\ \A j, k \in 1..Len(arrived) : arrived[j] = arrived[k] => j = k
      /\ Len(popped) \in Nat /\ DOMAIN popped = 1..Len(popped)
  BY TakenIs, PoppedCount
<1>u. \A k \in DOMAIN popped, j \in DOMAIN arrived :
        popped[k] = arrived[j] => k - j < OutboxSize /\ j - k < OutboxSize
  BY DEF OrderSound, ReorderBound
<1>1. ASSUME NEW m \in Item, QueueItem(m) PROVE OrderSound'
  <2>1. /\ arrived' = Append(arrived, m) /\ queue' = Append(queue, m)
        /\ m \notin Range(arrived)
        /\ UNCHANGED <<outbox, popped>>
    BY <1>1 DEF QueueItem
  <2>2. /\ Len(arrived') = Len(arrived) + 1 /\ DOMAIN arrived' = 1..(Len(arrived) + 1)
        /\ \A j \in 1..Len(arrived) : arrived'[j] = arrived[j]
        /\ arrived'[Len(arrived) + 1] = m
        /\ Len(queue') = Len(queue) + 1
    BY <2>1, AppendIs DEF TypeOK
  <2>3. Taken' = Taken /\ Pending' = Pending BY <1>t, <2>1, <2>2 DEF Taken, Pending
  <2>4. m \notin Pending \cup Range(popped)
    <3>1. Pending \cup Range(popped) = { arrived[j] : j \in 1..Taken } BY DEF ItemsSound
    <3>2. \A j \in 1..Taken : j \in DOMAIN arrived BY <1>t
    <3> QED BY <2>1, <3>1, <3>2 DEF Range
  <2>5. \A j \in DOMAIN arrived' :
          arrived'[j] \in Pending \cup Range(popped) =>
            j \in DOMAIN arrived /\ arrived'[j] = arrived[j]
    <3>1. \A j \in 1..(Len(arrived) + 1) : j \in 1..Len(arrived) \/ j = Len(arrived) + 1
      BY <1>t
    <3> QED BY <1>t, <2>2, <2>4, <3>1
  <2>6. \A k \in DOMAIN popped : popped[k] \in Range(popped) BY DEF Range
  <2>7. ReorderBound'
    BY <1>u, <2>1, <2>5, <2>6 DEF ReorderBound
  <2>8. PICK first \in 0..Len(popped) : Batch(first) BY DEF OrderSound
  <2>9. Batch(first)'
    BY <2>1, <2>3, <2>5, <2>6, <2>8 DEF Batch
  <2> QED BY <2>1, <2>7, <2>9 DEF OrderSound
<1>2. ASSUME NEW late \in Delays, NEW interval \in Intervals, Tick(late, interval)
      PROVE  OrderSound'
  <2> DEFINE P == Len(popped)
             x == dispatching'
             drawn == { queue[i] : i \in 1..Drawn }
  <2>1. PICK first \in 0..P :
          /\ (Taken + Drawn) - first <= OutboxSize
          /\ \A k \in DOMAIN popped, j \in DOMAIN arrived :
               popped[k] = arrived[j] /\ k > first => first < j
          /\ \A j \in DOMAIN arrived : arrived[j] \in Pending \cup drawn => first < j
    BY DrawnBatch
  <2> HIDE DEF drawn
  <2>2. /\ popped' = IF x \in Item THEN Append(popped, x) ELSE popped
        /\ Pending' \cup ({x} \cap Item) = Pending \cup drawn
        /\ Len(queue') = Len(queue) - Drawn /\ arrived' = arrived
    BY <1>2, TickIs DEF Pending, drawn, Tick
  <2>3. Drawn \in 0..Len(queue) BY DrawnIs
  <2>4. Taken' = Taken + Drawn BY <1>t, <2>2, <2>3 DEF Taken
  <2>5. Len(popped') <= Taken' /\ Len(popped') \in Nat /\ DOMAIN popped' = 1..Len(popped')
    BY PoppedCountNext
  \* The items of the batch have come after the first of it.
  <2>6. \A j \in DOMAIN arrived : arrived[j] \in Pending' => first < j
    BY <2>1, <2>2
  <2>7. /\ P \in Nat /\ P <= Len(popped')
        /\ \A k \in 1..P : popped'[k] = popped[k]
        /\ \A k \in DOMAIN popped' :
             \/ k \in 1..P
             \/ k = P + 1 /\ popped'[k] = x /\ x \in Pending \cup drawn
    <3>1. CASE x \in Item
      <4>1. /\ popped \in Seq(Item) /\ popped' = Append(popped, x)
        BY <2>2, <3>1 DEF TypeOK
      <4>2. /\ DOMAIN popped' = 1..(P + 1) /\ Len(popped') = P + 1
            /\ \A k \in 1..P : popped'[k] = popped[k]
            /\ popped'[P + 1] = x
        BY <3>1, <4>1, AppendIs
      <4>3. x \in Pending \cup drawn BY <2>2, <3>1
      <4> HIDE DEF x
      <4> QED BY <1>t, <4>2, <4>3
    <3>2. CASE x \notin Item
      BY <1>t, <2>2, <3>2
    <3> QED BY <3>1, <3>2
  <2>8. \A k \in DOMAIN popped', j \in DOMAIN arrived :
          popped'[k] = arrived[j] /\ k > first => first < j
    <3> TAKE k \in DOMAIN popped', j \in DOMAIN arrived
    <3> HIDE DEF x
    <3>1. CASE k \in 1..P BY <1>t, <2>1, <2>7, <3>1
    <3>2. CASE popped'[k] = x /\ x \in Pending \cup drawn BY <2>1, <3>2
    <3> QED BY <2>7, <3>1, <3>2
  <2>9. \A k \in DOMAIN popped', j \in DOMAIN arrived :
          popped'[k] = arrived[j] => k - j < OutboxSize /\ j - k < OutboxSize
    <3> SUFFICES ASSUME NEW k \in DOMAIN popped', NEW j \in DOMAIN arrived,
                        popped'[k] = arrived[j]
                 PROVE  k - j < OutboxSize /\ j - k < OutboxSize
      OBVIOUS
    <3>1. CASE k \in 1..P BY <1>t, <1>u, <2>7, <3>1
    <3>2. CASE k = P + 1 /\ popped'[k] = x /\ x \in Pending \cup drawn
      <4>1. first < j BY <2>1, <3>2
      <4>2. j <= Taken + Drawn
        <5>1. { arrived[i] : i \in 1..Taken' } = Pending' \cup Range(popped')
          BY <2>2 DEF ItemsSound
        <5>2. arrived[j] \in Range(popped') BY DEF Range
        <5>3. PICK i \in 1..Taken' : arrived[i] = arrived[j] BY <5>1, <5>2
        <5>4. i \in 1..Len(arrived) BY <1>t, <2>3, <2>4, <5>3
        <5>5. i = j BY <1>t, <5>3, <5>4
        <5> QED BY <1>t, <2>3, <2>4, <5>3, <5>5
      <4>3. k \in Nat /\ k <= Taken + Drawn /\ first < k
        BY <1>t, <2>1, <2>4, <2>5, <2>7, <3>2
      <4>4. j \in Nat /\ first \in Nat /\ Taken + Drawn \in Nat /\ OutboxSize \in Nat
        BY <1>t, <2>1, <2>3, MixerAssumption
      <4>5. (Taken + Drawn) - first <= OutboxSize BY <2>1
      <4>6. PICK n \in Nat : n = Taken + Drawn BY <4>4
      <4>7. k <= n /\ j <= n /\ n - first <= OutboxSize
        BY <4>2, <4>3, <4>5, <4>6, Zenon
      <4> QED BY <4>1, <4>3, <4>4, <4>7, Within
    <3> QED BY <2>7, <3>1, <3>2
  <2>10. ReorderBound' BY <2>2, <2>9 DEF ReorderBound
  <2>11. Batch(first)' /\ first \in 0..Len(popped')
    <3>1. first \in 0..Len(popped') BY <1>t, <2>1, <2>5, <2>7
    <3>2. Taken' - first <= OutboxSize
      <4>1. (Taken + Drawn) - first <= OutboxSize BY <2>1
      <4> QED BY <2>4, <4>1, Zenon
    <3>3. DOMAIN arrived' = DOMAIN arrived /\ arrived' = arrived BY <2>2
    <3> QED BY <2>6, <2>8, <3>1, <3>2, <3>3 DEF Batch
  <2> QED BY <2>10, <2>11 DEF OrderSound
<1>3. CASE \/ Start \/ Dispatch \/ Stop \/ GenerateCover \/ StashCover \/ StopCovers
           \/ UNCHANGED vars
  <2>1. UNCHANGED <<queue, outbox, arrived, popped>>
    BY <1>3 DEF Start, Dispatch, Stop, GenerateCover, StashCover, StopCovers, vars
  <2>2. Taken' = Taken /\ Pending' = Pending BY <2>1 DEF Taken, Pending
  <2> QED BY <2>1, <2>2 DEF OrderSound, ReorderBound, Batch
<1> QED BY <1>1, <1>2, <1>3, Zenon DEF Next

-----------------------------------------------------------------------------
(* How long they wait. *)

LEMMA DeadlineStep ==
    ASSUME TypeOK, ItemsSound, DeadlineSound, [Next]_vars
    PROVE  DeadlineSound'
<1> USE DEF coverVars
<1> DEFINE T == Len(ticks)
           B == Len(outbox)
           L == Len(queue)
           O == OutboxSize
<1>t. /\ T \in Nat /\ B \in Nat /\ L \in Nat /\ O \in Nat /\ O > 0
      /\ DOMAIN queue = 1..L
      /\ \A i \in 1..L : queue[i] \in Item /\ O * Batches(i) \in Nat
      /\ deadline \in [Item -> Nat] /\ Pending \subseteq Item
  <2>1. T \in Nat /\ B \in Nat BY SeqIs DEF TypeOK
  <2>2. L \in Nat /\ DOMAIN queue = 1..L /\ \A i \in 1..L : queue[i] \in Item
    BY TakenIs
  <2>3. \A i \in 1..L : O * Batches(i) \in Nat BY BatchesIs
  <2> QED BY <2>1, <2>2, <2>3, MixerAssumption DEF TypeOK, Pending, ItemsOf
<1>i. /\ B <= O
      /\ \A m \in Pending : T + B <= deadline[m]
      /\ \A i \in 1..L : T + B + O * Batches(i) <= deadline[queue[i]]
  BY <1>t DEF DeadlineSound
<1>1. ASSUME NEW m \in Item, QueueItem(m) PROVE DeadlineSound'
  <2>1. /\ queue' = Append(queue, m) /\ m \notin Range(arrived)
        /\ deadline' = [deadline EXCEPT ![m] = T + B + O * Batches(L + 1)]
        /\ UNCHANGED <<outbox, ticks, popped>>
    BY <1>1 DEF QueueItem
  <2>2. /\ DOMAIN queue' = 1..(L + 1)
        /\ \A i \in 1..L : queue'[i] = queue[i]
        /\ queue'[L + 1] = m
    BY <2>1, AppendIs DEF TypeOK
  <2>3. /\ deadline'[m] = T + B + O * Batches(L + 1)
        /\ \A q \in Item \ {m} : deadline'[q] = deadline[q]
    BY <1>t, <2>1
  <2>4. m \notin Pending /\ \A i \in 1..L : queue[i] # m
    <3>1. Pending \subseteq { arrived[j] : j \in 1..Taken } BY DEF ItemsSound
    <3>2. \A j \in 1..Len(arrived) : arrived[j] \in Range(arrived) BY TakenIs DEF Range
    <3>3. \A j \in 1..Taken : j \in 1..Len(arrived) BY TakenIs
    <3>4. \A i \in 1..L : Taken + i \in 1..Len(arrived) /\ queue[i] = arrived[Taken + i]
      <4>1. Taken \in Nat /\ Taken + L = Len(arrived) BY TakenIs
      <4> HIDE DEF L
      <4>2. \A i \in 1..L : Taken + i \in 1..Len(arrived) BY <1>t, <4>1
      <4> QED BY <4>2, TakenIs DEF L
    <3> QED BY <2>1, <3>1, <3>2, <3>3, <3>4
  <2>5. Pending' = Pending BY <2>1 DEF Pending
  <2>6. \A q \in Pending' : Len(ticks') + Len(outbox') <= deadline'[q]
    BY <1>i, <1>t, <2>1, <2>3, <2>4, <2>5
  <2>7. ASSUME NEW i \in DOMAIN queue'
        PROVE  Len(ticks') + Len(outbox') + OutboxSize * Batches(i) <= deadline'[queue'[i]]
    <3>1. CASE i \in 1..L
      <4>1. queue'[i] = queue[i] /\ deadline'[queue[i]] = deadline[queue[i]]
        BY <1>t, <2>2, <2>3, <2>4, <3>1
      <4> QED BY <1>i, <2>1, <3>1, <4>1
    <3>2. CASE i = L + 1
      <4>1. T + B + O * Batches(i) \in Nat
        <5>1. i \in Nat /\ i >= 1 BY <1>t, <3>2
        <5>2. O * Batches(i) \in Nat BY <5>1, BatchesIs
        <5> QED BY <1>t, <5>2
      <4>2. deadline'[queue'[i]] = T + B + O * Batches(i) BY <2>2, <2>3, <3>2
      <4>3. Len(ticks') = T /\ Len(outbox') = B BY <2>1
      <4> HIDE DEF T, B
      <4> QED BY <4>1, <4>2, <4>3
    <3> QED BY <1>t, <2>2, <3>1, <3>2
  <2>8. Len(outbox') <= OutboxSize BY <1>i, <2>1
  <2> QED BY <2>6, <2>7, <2>8 DEF DeadlineSound
<1>2. ASSUME NEW late \in Delays, NEW interval \in Intervals, Tick(late, interval)
      PROVE  DeadlineSound'
  <2> DEFINE D == Drawn
             C == DrawnCovers
             held == B + D + C
             drawn == { queue[i] : i \in 1..D }
  <2>1. /\ Pending' \subseteq Pending \cup drawn
        /\ Len(outbox') = IF held = 0 THEN 0 ELSE held - 1
        /\ Len(queue') = L - D
        /\ \A i \in 1..(L - D) : queue'[i] = queue[D + i]
        /\ queue' \in Seq(Item)
    <3>1. /\ Pending' \cup ({dispatching'} \cap Item) = Pending \cup drawn
          /\ Len(outbox') = IF Len(outbox) + Drawn + DrawnCovers = 0 THEN 0
                            ELSE Len(outbox) + Drawn + (DrawnCovers - 1)
          /\ queue' \in Seq(Item) /\ Len(queue') = Len(queue) - Drawn
          /\ \A i \in 1..(Len(queue) - Drawn) : queue'[i] = queue[Drawn + i]
      <4> HIDE DEF drawn
      <4> QED BY <1>2, TickIs DEF Pending, drawn
    <3>2. Pending' \subseteq Pending \cup drawn
      <4> HIDE DEF drawn
      <4> QED BY <3>1
    <3>3. Len(outbox') = (IF held = 0 THEN 0 ELSE held - 1)
      <4>1. B \in Nat /\ D \in Nat /\ C \in Nat
        <5>1. stash \in Nat BY MixerAssumption DEF TypeOK
        <5> QED BY <1>t, <5>1, DrawnIs
      <4>2. Len(outbox') = IF B + D + C = 0 THEN 0 ELSE B + D + (C - 1) BY <3>1, Zenon
      <4> HIDE DEF B, D, C
      <4> QED BY <4>1, <4>2
    <3>4. Len(queue') = L - D BY <3>1
    <3>5. \A i \in 1..(L - D) : queue'[i] = queue[D + i] BY <3>1
    <3>6. queue' \in Seq(Item) BY <3>1
    <3> HIDE DEF L, D, held, drawn
    <3> QED BY <3>2, <3>3, <3>4, <3>5, <3>6, Zenon
  <2>2. deadline' = deadline BY <1>2 DEF Tick
  <2>3. Len(ticks') = T + 1
    <3>1. PICK t \in Times : ticks' = Append(ticks, t) BY <1>2, ClockIs
    <3> QED BY <3>1, AppendIs DEF TypeOK
  <2>4. /\ D \in 0..L /\ D <= O /\ C \in Nat /\ D + C <= O
        /\ D + C > 0 => outbox = <<>>
        /\ outbox = <<>> /\ D < L => D = O
        /\ outbox = <<>> /\ D + C = 0 => L = 0
    <3>1. stash \in Nat BY MixerAssumption DEF TypeOK
    <3> QED BY <3>1, DrawnIs
  <2>5. DOMAIN queue' = 1..(L - D)
    <3>1. DOMAIN queue' = 1..Len(queue') BY <2>1, SeqIs
    <3> QED BY <2>1, <3>1
  <2>6. CASE outbox # <<>>
    <3>1. B > 0
      <4>1. outbox \in Seq(Packet) BY DEF TypeOK
      <4> QED BY <2>6, <4>1, FrontLast
    <3>2. D = 0 /\ C = 0 BY <1>t, <2>4, <2>6
    <3>3. drawn = {} /\ held = B BY <1>t, <3>2
    <3> HIDE DEF held, drawn, D, C, B, T, L
    <3>4. Len(outbox') = B - 1 /\ Len(ticks') + Len(outbox') = T + B
      BY <1>t, <2>1, <2>3, <3>1, <3>3
    <3>5. \A q \in Pending' : Len(ticks') + Len(outbox') <= deadline'[q]
      BY <1>i, <2>1, <2>2, <3>3, <3>4
    <3>6. \A i \in DOMAIN queue' :
            Len(ticks') + Len(outbox') + OutboxSize * Batches(i) <= deadline'[queue'[i]]
      <4> TAKE i \in DOMAIN queue'
      <4>1. i \in 1..L /\ D + i = i BY <1>t, <2>5, <3>2
      <4>2. queue'[i] = queue[i] BY <1>t, <2>1, <2>5, <3>2, <4>1
      <4> QED BY <1>i, <2>2, <3>4, <4>1, <4>2
    <3>7. Len(outbox') <= OutboxSize BY <1>i, <1>t, <3>1, <3>4
    <3> QED BY <3>5, <3>6, <3>7 DEF DeadlineSound
  <2>7. CASE outbox = <<>>
    <3>1. B = 0 /\ Pending = {} BY <2>7, EmptyIs DEF Pending, ItemsOf, Range
    <3>2. held = D + C BY <1>t, <2>4, <3>1
    <3> HIDE DEF held, drawn, D, C, B, T, L, O
    <3>3. /\ Len(outbox') \in Nat /\ Len(outbox') <= O
          /\ D + C > 0 => Len(outbox') = D + C - 1
      BY <1>t, <2>1, <2>4, <3>2
    <3>4. ASSUME NEW q \in Pending' PROVE Len(ticks') + Len(outbox') <= deadline'[q]
      <4>1. PICK i \in 1..D : q = queue[i] BY <2>1, <3>1, <3>4 DEF drawn
      <4>2. i \in 1..L /\ D > 0 BY <1>t, <2>4, <4>1
      <4>3. T + B + O * Batches(i) <= deadline[q] /\ O * Batches(i) \in Nat
            /\ deadline[q] \in Nat
        BY <1>i, <1>t, <4>1, <4>2
      <4>4. O * Batches(i) >= O
        <5>1. i \in Nat /\ i >= 1 BY <1>t, <4>2
        <5> QED BY <5>1, BatchesIs DEF O
      <4>5. Len(outbox') = D + C - 1 BY <1>t, <2>4, <3>3, <4>2
      <4>6. T + O <= deadline[q] BY <1>t, <3>1, <4>3, <4>4
      <4> QED BY <1>t, <2>2, <2>3, <2>4, <4>3, <4>5, <4>6
    <3>5. ASSUME NEW i \in DOMAIN queue'
          PROVE  Len(ticks') + Len(outbox') + OutboxSize * Batches(i) <= deadline'[queue'[i]]
      <4>1. i \in 1..(L - D) /\ queue'[i] = queue[D + i] BY <2>1, <2>5
      <4>2. i \in Nat /\ i >= 1 /\ D < L /\ D + i \in 1..L
        <5>1. D \in 0..L /\ L \in Nat BY <1>t, <2>4
        <5> QED BY <4>1, <5>1
      <4>3. D = O /\ C = 0
        <5>1. D = O BY <2>4, <2>7, <4>2
        <5>2. C \in Nat /\ D + C <= O /\ O \in Nat BY <1>t, <2>4
        <5> QED BY <5>1, <5>2
      <4>4. O * Batches(D + i) = O * Batches(i) + O
        <5>1. D + i \in Nat /\ D + i >= 1 /\ D + i > O /\ (D + i) - O = i
          BY <1>t, <4>2, <4>3
        <5> QED BY <5>1, BatchesIs DEF O
      <4>5. O * Batches(i) \in Nat BY <4>2, BatchesIs DEF O
      <4>6. T + B + O * Batches(D + i) <= deadline[queue[D + i]]
        BY <1>i, <4>2
      <4>7. Len(ticks') + Len(outbox') = T + O
        <5>1. O \in Nat /\ O > 0 /\ T \in Nat BY <1>t
        <5>2. D + C > 0 /\ D + C - 1 = O - 1 BY <4>3, <5>1
        <5>3. Len(outbox') = O - 1 BY <3>3, <5>2
        <5> QED BY <2>3, <5>1, <5>3
      <4>8. deadline'[queue'[i]] = deadline[queue[D + i]] BY <2>2, <4>1
      <4>9. T + O + O * Batches(i) <= deadline[queue[D + i]]
        BY <1>t, <3>1, <4>4, <4>5, <4>6
      <4> QED BY <4>7, <4>8, <4>9 DEF O
    <3> QED BY <3>3, <3>4, <3>5 DEF DeadlineSound, O
  <2> QED BY <2>6, <2>7
<1>3. CASE \/ Start \/ Dispatch \/ Stop \/ GenerateCover \/ StashCover \/ StopCovers
           \/ UNCHANGED vars
  <2>1. UNCHANGED <<queue, outbox, ticks, deadline>>
    BY <1>3 DEF Start, Dispatch, Stop, GenerateCover, StashCover, StopCovers, vars
  <2> QED BY <2>1 DEF DeadlineSound, Pending
<1> QED BY <1>1, <1>2, <1>3, Zenon DEF Next

-----------------------------------------------------------------------------
(* The theorems. *)

LEMMA InitSound == Init => IInv
<1> SUFFICES ASSUME Init PROVE IInv
  OBVIOUS
<1>0. \A S : <<>> \in Seq(S) BY EmptySeq
<1>1. TypeOK
  BY <1>0, MixerAssumption DEF Init, TypeOK
<1>2. queue = <<>> /\ outbox = <<>> /\ ticks = <<>> /\ arrived = <<>> /\ popped = <<>>
  BY DEF Init
<1>3. /\ Len(queue) = 0 /\ Len(outbox) = 0 /\ Len(ticks) = 0 /\ Len(arrived) = 0
      /\ Len(popped) = 0
      /\ DOMAIN queue = {} /\ DOMAIN outbox = {} /\ DOMAIN ticks = {}
      /\ DOMAIN arrived = {} /\ DOMAIN popped = {}
      /\ Range(outbox) = {} /\ Range(popped) = {}
  BY <1>2, EmptyIs DEF Range
<1>4. Taken = 0 /\ Pending = {} BY <1>3 DEF Taken, Pending, ItemsOf
<1>5. ItemsSound
  <2>1. dispatching = NoPacket /\ departed = {} BY DEF Init
  <2>2. { arrived[j] : j \in 1..Taken } = {} BY <1>4
  <2> QED BY <1>3, <1>4, <2>1, <2>2, MixerAssumption DEF ItemsSound, IsInjective, Once
<1>6. OrderSound
  <2>1. 0 \in 0..Len(popped) BY <1>3
  <2>2. Batch(0) BY <1>3, <1>4, MixerAssumption DEF Batch
  <2> QED BY <1>3, <2>1, <2>2 DEF OrderSound, ReorderBound
<1>7. DeadlineSound BY <1>3, <1>4, MixerAssumption DEF DeadlineSound
<1>8. PaceSound BY <1>3 DEF PaceSound, Pace
<1> QED BY <1>1, <1>5, <1>6, <1>7, <1>8 DEF IInv

THEOREM Invariance == Spec => []IInv
<1>1. IInv /\ [Next]_vars => IInv'
  <2> SUFFICES ASSUME IInv, [Next]_vars PROVE IInv'
    OBVIOUS
  <2>0. TypeOK /\ ItemsSound /\ OrderSound /\ DeadlineSound /\ PaceSound BY DEF IInv
  <2>1. TypeOK' BY <2>0, TypeStep
  <2>2. ItemsSound' BY <2>0, ItemsStep
  <2>3. OrderSound' BY <2>0, <2>1, <2>2, OrderStep
  <2>4. DeadlineSound' BY <2>0, DeadlineStep
  <2>5. PaceSound' BY <2>0, PaceStep
  <2> QED BY <2>1, <2>2, <2>3, <2>4, <2>5 DEF IInv
<1> QED BY InitSound, <1>1, PTL DEF Spec

\* The variables keep their types.
THEOREM TypeCorrect == Spec => []TypeOK
<1>1. IInv => TypeOK BY DEF IInv
<1> QED BY Invariance, <1>1, PTL

\* Every item queued is in one place until it is sent or dropped, however
\* batches are drawn, filled up, shuffled and popped.
THEOREM EachOnceAlways == Spec => []EachOnce
<1>1. ASSUME IInv PROVE EachOnce
  <2> DEFINE tail == Append(outbox, dispatching)
             held == queue \o tail
             S == Packet \cup {NoPacket}
             L == Len(queue)
             B == Len(outbox)
  <2>0. TypeOK /\ ItemsSound BY <1>1 DEF IInv
  <2>1. queue \in Seq(S) /\ outbox \in Seq(S) /\ dispatching \in S
    <3>1. queue \in Seq(Item) /\ outbox \in Seq(Packet) /\ dispatching \in S
      BY <2>0 DEF TypeOK
    <3>2. Item \subseteq S /\ Packet \subseteq S BY DEF Packet
    <3> QED BY <3>1, <3>2, SeqMonotonic
  <2>2. /\ tail \in Seq(S) /\ Len(tail) = B + 1 /\ B \in Nat
        /\ \A i \in 1..B : tail[i] = outbox[i]
        /\ tail[B + 1] = dispatching
        /\ DOMAIN tail = 1..(B + 1) /\ DOMAIN outbox = 1..B
        /\ Range(tail) = Range(outbox) \cup {dispatching}
    BY <2>1, AppendIs, SeqIs
  <2> HIDE DEF tail
  <2>3. /\ held \in Seq(S) /\ Len(held) = L + (B + 1) /\ L \in Nat
        /\ \A i \in 1..(L + (B + 1)) :
             held[i] = IF i <= L THEN queue[i] ELSE tail[i - L]
        /\ Range(held) = Range(queue) \cup Range(tail)
        /\ DOMAIN queue = 1..L
    <3>1. L \in Nat /\ DOMAIN queue = 1..L BY <2>1, SeqIs
    <3>2. Range(held) = Range(queue) \cup Range(tail) BY <2>1, <2>2, RangeConcatenation
    <3>3. /\ held \in Seq(S) /\ Len(held) = Len(queue) + Len(tail)
          /\ \A i \in 1..(Len(queue) + Len(tail)) :
               held[i] = IF i <= Len(queue) THEN queue[i] ELSE tail[i - Len(queue)]
      BY <2>1, <2>2, ConcatProperties
    <3> HIDE DEF held
    <3> QED BY <2>2, <3>1, <3>2, <3>3
  <2>4. DOMAIN held = 1..(L + (B + 1)) BY <2>3, SeqIs
  <2> HIDE DEF held
  <2>5. /\ Pending \cap Range(popped) = {}
        /\ Pending \cup Range(popped) = { arrived[j] : j \in 1..Taken }
        /\ dispatching \in Item => dispatching \in Range(popped)
        /\ departed = Range(popped) \ {dispatching}
        /\ Once(outbox) /\ Pending = Range(outbox) \cap Item
    BY <2>0 DEF ItemsSound, Pending, ItemsOf
  <2>6. /\ Len(arrived) \in Nat /\ DOMAIN arrived = 1..Len(arrived)
        /\ Taken \in Nat /\ Taken + L = Len(arrived)
        /\ \A i \in 1..L : queue[i] = arrived[Taken + i] /\ queue[i] \in Item
        /\ \A j \in 1..Len(arrived) : arrived[j] \in Item
        /\ \A j, k \in 1..Len(arrived) : arrived[j] = arrived[k] => j = k
    BY <2>0, TakenIs
  <2> HIDE DEF L, B
  <2>7. \A i \in 1..L : Taken + i \in 1..Len(arrived) BY <2>3, <2>6
  <2>8. \A j \in 1..Taken : j \in 1..Len(arrived) BY <2>3, <2>6
  <2>9. Range(queue) \cap (Pending \cup Range(popped)) = {} /\ Range(queue) \subseteq Item
    <3>1. \A i \in 1..L, j \in 1..Taken : Taken + i # j BY <2>6
    <3>2. \A i \in 1..L, j \in 1..Taken : queue[i] # arrived[j]
      BY <2>6, <2>7, <2>8, <3>1
    <3> QED BY <2>3, <2>5, <2>6, <3>2 DEF Range
  <2>10. Range(arrived) = Range(queue) \cup (Pending \cup Range(popped))
    <3>1. \A j \in 1..Len(arrived) :
            j \in 1..Taken \/ (j - Taken \in 1..L /\ Taken + (j - Taken) = j)
      BY <2>3, <2>6
    <3>2. \A j \in 1..Len(arrived) : j \in 1..Taken \/ arrived[j] \in Range(queue)
      <4> TAKE j \in 1..Len(arrived)
      <4>1. CASE j \in 1..Taken BY <4>1
      <4>2. CASE j - Taken \in 1..L /\ Taken + (j - Taken) = j
        <5>1. queue[j - Taken] = arrived[j] BY <2>6, <4>2
        <5> QED BY <2>3, <4>2, <5>1 DEF Range
      <4> QED BY <3>1, <4>1, <4>2
    <3>3. \A i \in 1..L : queue[i] \in Range(arrived) BY <2>6, <2>7 DEF Range
    <3>4. \A j \in 1..Taken : arrived[j] \in Range(arrived) BY <2>6, <2>8 DEF Range
    <3>5. Range(queue) \subseteq Range(arrived) BY <2>3, <3>3 DEF Range
    <3>6. { arrived[j] : j \in 1..Taken } \subseteq Range(arrived) BY <3>4
    <3>7. Range(arrived) \subseteq Range(queue) \cup { arrived[j] : j \in 1..Taken }
      BY <2>6, <3>2 DEF Range
    <3> QED BY <2>5, <3>5, <3>6, <3>7
  <2> DEFINE items == Range(held) \cap Item
  <2>11. items = Range(queue) \cup Pending \cup ({dispatching} \cap Item)
    BY <2>2, <2>3, <2>5, <2>9
  <2>12. items \cap departed = {} /\ items \cup departed = Range(arrived)
    <3> DEFINE Q == Range(queue)
               P == Range(popped)
               A == Range(arrived)
               D == {dispatching} \cap Item
    <3>1. /\ Pending \cap P = {} /\ Q \cap (Pending \cup P) = {} /\ A = Q \cup (Pending \cup P)
          /\ departed = P \ D /\ D \subseteq P /\ items = Q \cup Pending \cup D
      <4>1. P \subseteq Item BY <2>0, SeqIs DEF TypeOK, Range
      <4>2. departed = P \ D BY <2>5, <4>1
      <4>3. D \subseteq P BY <2>5
      <4> QED BY <2>5, <2>9, <2>10, <2>11, <4>2, <4>3
    <3> HIDE DEF items, Q, P, A, D
    <3>2. items \cap departed = {} /\ items \cup departed = A BY <3>1
    <3> QED BY <3>2 DEF A
  <2>13. \A i \in DOMAIN held :
           \/ i \in 1..L /\ held[i] = queue[i]
           \/ i \notin 1..L /\ i - L \in 1..B /\ held[i] = outbox[i - L]
           \/ i = L + (B + 1) /\ held[i] = dispatching
    <3> TAKE i \in DOMAIN held
    <3>0. i \in 1..(L + (B + 1)) BY <2>4
    <3>1. CASE i <= L BY <2>3, <3>0, <3>1
    <3>2. CASE i > L /\ i <= L + B
      <4>1. i - L \in 1..B /\ i \notin 1..L BY <2>2, <2>3, <3>0, <3>2
      <4> QED BY <2>2, <2>3, <3>0, <3>2, <4>1
    <3>3. CASE i > L + B
      <4>1. i = L + (B + 1) /\ i - L = B + 1 /\ ~(i <= L) BY <2>2, <2>3, <3>0, <3>3
      <4> QED BY <2>2, <2>3, <3>0, <4>1
    <3> QED BY <2>2, <2>3, <3>0, <3>1, <3>2, <3>3
  <2>14. ASSUME NEW i \in DOMAIN held, NEW j \in DOMAIN held,
                held[i] = held[j], held[i] \in Item
         PROVE  i = j
    <3>0. i \in Nat /\ j \in Nat /\ L \in Nat /\ B \in Nat BY <2>2, <2>3, <2>4
    <3>1. /\ \A k \in 1..L : queue[k] \in Range(queue)
          /\ \A k \in 1..B : outbox[k] \in Item => outbox[k] \in Pending
      BY <2>2, <2>3, <2>5 DEF Range
    <3>2. CASE i \in 1..L /\ held[i] = queue[i] /\ j \in 1..L /\ held[j] = queue[j]
      <4>1. arrived[Taken + i] = arrived[Taken + j] BY <2>6, <2>14, <3>2
      <4>2. Taken + i = Taken + j BY <2>6, <2>7, <3>2, <4>1
      <4> QED BY <2>6, <3>0, <4>2
    <3>3. CASE /\ i - L \in 1..B /\ held[i] = outbox[i - L]
               /\ j - L \in 1..B /\ held[j] = outbox[j - L]
      <4>1. i - L = j - L BY <2>2, <2>5, <2>14, <3>3 DEF Once
      <4> QED BY <3>0, <4>1
    <3>4. \/ dispatching \notin Range(queue) \cup Pending
          \/ dispatching \notin Item
      BY <2>5, <2>9
    <3>5. Range(queue) \cap Pending = {} BY <2>9
    <3> QED BY <2>13, <2>14, <3>1, <3>2, <3>3, <3>4, <3>5
  <2> QED BY <2>12, <2>14 DEF EachOnce, held, tail
<1> QED BY Invariance, <1>1, PTL

\* An item leaves fewer than mix_outbox_size places before or after its turn,
\* whatever the order of the batches and wherever covers fill them up.
THEOREM ReorderBoundAlways == Spec => []ReorderBound
<1>1. IInv => ReorderBound BY DEF IInv, OrderSound
<1> QED BY Invariance, <1>1, PTL

\* Covers never hold up the traffic: an item leaves by the tick at which the
\* batch at work and those the queue ahead of it makes have left.
THEOREM DeadlineAlways == Spec => []Deadline
<1>1. ASSUME IInv PROVE Deadline
  <2>0. TypeOK /\ ItemsSound /\ DeadlineSound BY <1>1 DEF IInv
  <2> SUFFICES ASSUME NEW m \in Range(arrived) \ Range(popped) PROVE Len(ticks) < deadline[m]
    BY DEF Deadline
  <2> DEFINE T == Len(ticks)
             B == Len(outbox)
  <2>1. /\ T \in Nat /\ B \in Nat /\ DOMAIN outbox = 1..B
        /\ deadline \in [Item -> Nat] /\ arrived \in Seq(Item)
    BY <2>0, SeqIs DEF TypeOK
  <2>2. PICK j \in 1..Len(arrived) : m = arrived[j] BY <2>1, SeqIs DEF Range
  <2>3. m \in Item /\ deadline[m] \in Nat BY <2>0, <2>1, <2>2, TakenIs
  <2>4. /\ Taken \in Nat /\ Len(queue) \in Nat /\ Taken + Len(queue) = Len(arrived)
        /\ DOMAIN queue = 1..Len(queue)
        /\ \A i \in 1..Len(queue) : queue[i] = arrived[Taken + i]
    BY <2>0, TakenIs
  <2>5. CASE j \in 1..Taken
    <3>1. m \in Pending BY <2>0, <2>2, <2>5 DEF ItemsSound
    <3>2. T + B <= deadline[m] BY <2>0, <3>1 DEF DeadlineSound
    <3>3. PICK i \in 1..B : outbox[i] = m BY <2>1, <3>1 DEF Pending, ItemsOf, Range
    <3> QED BY <2>1, <2>3, <3>2, <3>3
  <2>6. CASE j \notin 1..Taken
    <3>1. j - Taken \in 1..Len(queue) /\ Taken + (j - Taken) = j BY <2>2, <2>4, <2>6
    <3>2. PICK i \in 1..Len(queue) : queue[i] = m BY <2>2, <2>4, <3>1
    <3>3. T + B + OutboxSize * Batches(i) <= deadline[m]
      BY <2>0, <2>4, <3>2 DEF DeadlineSound
    <3>4. i \in Nat /\ i >= 1 BY <2>4
    <3>5. OutboxSize * Batches(i) \in Nat /\ OutboxSize * Batches(i) >= 1
      BY <3>4, BatchesIs, MixerAssumption
    <3> QED BY <2>1, <2>3, <3>3, <3>5
  <2> QED BY <2>5, <2>6
<1> QED BY Invariance, <1>1, PTL

\* The rate is not exceeded to catch up, however late the event loop was and
\* however often the clock was reset.
THEOREM PaceAlways == Spec => []Pace
<1>1. IInv => Pace BY DEF IInv, PaceSound
<1> QED BY Invariance, <1>1, PTL
=============================================================================
