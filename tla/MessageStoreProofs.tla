------------------------- MODULE MessageStoreProofs -------------------------
(* Proofs about MessageStore for every payload set, window, number of      *)
(* rounds and schedule.                                                    *)
EXTENDS MessageStore, SequenceTheorems, TLAPS

LEMMA ScheduleTypes ==
    \A s \in Schedules : s.join \in Nat /\ s.exit \in Nat
BY StoreAssumption, SMT DEF Schedules

-----------------------------------------------------------------------------
(* Type correctness. *)

\* The dedup window keeps its type and its bound.
LEMMA RememberHashType ==
    ASSUME TypeOK, NEW p \in Payload, RememberHash(p)
    PROVE  /\ seenHashes' \subseteq Payload
           /\ seenOrder' \in Seq(Payload)
           /\ Len(seenOrder') <= Window
<1>1. CASE Len(seenOrder) = Window
  <2>1. /\ seenHashes' = (seenHashes \ {Head(seenOrder)}) \cup {p}
        /\ seenOrder' = Append(Tail(seenOrder), p)
    BY <1>1 DEF RememberHash
  <2>2. Tail(seenOrder) \in Seq(Payload) /\ Len(Tail(seenOrder)) = Window - 1
    BY <1>1, StoreAssumption, SMT DEF TypeOK
  <2> QED
    BY <2>1, <2>2, StoreAssumption, SMT DEF TypeOK
<1>2. CASE Len(seenOrder) # Window
  <2>1. /\ seenHashes' = seenHashes \cup {p}
        /\ seenOrder' = Append(seenOrder, p)
    BY <1>2 DEF RememberHash
  <2> QED
    BY <1>2, <2>1, StoreAssumption, SMT DEF TypeOK
<1> QED
  BY <1>1, <1>2

\* Whatever buckets it starts from, the head of the learner's loop leaves
\* typed buckets and a typed learner.
LEMMA LoopHeadType ==
    ASSUME TypeOK,
           NEW b \in [Rounds -> Seq(Payload)], NEW first \in BOOLEAN,
           LoopHead(b, first)
    PROVE  /\ incoming' \in [Rounds -> Seq(Payload)]
           /\ currentRound' \in 0..NRounds
           /\ learnerRound' \in 0..NRounds
           /\ stage' \in {"send", "done"}
           /\ stage' = "send" => learnerRound' \in Rounds
<1>1. CASE learnerRound = NRounds
  BY <1>1 DEF LoopHead, TypeOK
<1>2. CASE learnerRound # NRounds
  <2> DEFINE clears == first /\ schedule.join > 0
             kept == [s \in Rounds |-> IF clears /\ s < learnerRound + 1
                                       THEN <<>> ELSE b[s]]
  <2>1. /\ learnerRound' = learnerRound + 1
        /\ currentRound' = learnerRound + 1
        /\ incoming' = kept
        /\ stage' \in {"send", "done"}
    BY <1>2 DEF LoopHead
  <2>2. learnerRound + 1 \in 0..NRounds /\ learnerRound + 1 \in Rounds
    BY <1>2, StoreAssumption, SMT DEF TypeOK, Rounds
  <2>3. kept \in [Rounds -> Seq(Payload)]
    OBVIOUS
  <2> QED
    BY <2>1, <2>2, <2>3
<1> QED
  BY <1>1, <1>2

LEMMA CollectType ==
    ASSUME TypeOK, Collect, stage \in {"await", "grace"}
    PROVE  TypeOK'
<1>1. learnerRound \in Rounds
  BY DEF TypeOK
<1>2. collected[learnerRound] \o incoming[learnerRound] \in Seq(Payload)
  BY <1>1 DEF TypeOK
<1>3. /\ collected' \in [Rounds -> Seq(Payload)]
      /\ incoming' \in [Rounds -> Seq(Payload)]
  BY <1>1, <1>2 DEF TypeOK, Collect
<1> QED
  BY <1>1, <1>3 DEF TypeOK, Collect, Stages

LEMMA TypeInvariant == TypeOK /\ [Next]_vars => TypeOK'
<1> SUFFICES ASSUME TypeOK, [Next]_vars PROVE TypeOK'
  OBVIOUS
<1>1. ASSUME NEW p \in Payload, ReceiveFragment(p) PROVE TypeOK'
  <2>1. RoundOf[p] \in Rounds
    BY StoreAssumption
  <2>2. /\ incoming' \in [Rounds -> Seq(Payload)]
        /\ roundsWithIntake' \subseteq Rounds
    <3>1. CASE RoundOf[p] < currentRound
      BY <1>1, <3>1 DEF ReceiveFragment, EnqueueIncoming, TypeOK
    <3>2. CASE ~(RoundOf[p] < currentRound)
      <4>1. Append(incoming[RoundOf[p]], p) \in Seq(Payload)
        BY <2>1 DEF TypeOK
      <4>2. /\ incoming' = [incoming EXCEPT ![RoundOf[p]] = Append(@, p)]
            /\ roundsWithIntake' = roundsWithIntake \cup {RoundOf[p]}
        BY <1>1, <3>2 DEF ReceiveFragment, EnqueueIncoming
      <4>3. incoming' \in [Rounds -> Seq(Payload)]
        BY <4>1, <4>2 DEF TypeOK
      <4> QED
        BY <2>1, <4>2, <4>3 DEF TypeOK
    <3> QED
      BY <3>1, <3>2
  <2>3. /\ seenHashes' \subseteq Payload
        /\ seenOrder' \in Seq(Payload)
        /\ Len(seenOrder') <= Window
    BY <1>1, RememberHashType DEF ReceiveFragment
  <2>4. arrived' \in [Rounds -> Seq(Payload)] /\ accepted' \in Seq(Payload)
    <3>1. Append(arrived[RoundOf[p]], p) \in Seq(Payload)
      BY <2>1 DEF TypeOK
    <3>2. Append(accepted, p) \in Seq(Payload)
      BY DEF TypeOK
    <3>3. /\ arrived' = [arrived EXCEPT ![RoundOf[p]] = Append(@, p)]
          /\ accepted' = Append(accepted, p)
      BY <1>1 DEF ReceiveFragment
    <3>4. arrived' \in [Rounds -> Seq(Payload)]
      BY <3>1, <3>3 DEF TypeOK
    <3> QED
      BY <3>2, <3>3, <3>4
  <2> QED
    BY <1>1, <2>2, <2>3, <2>4 DEF ReceiveFragment, TypeOK, learnerVars
<1>2. CASE BeginTraining
  <2>1. /\ incoming' \in [Rounds -> Seq(Payload)]
        /\ currentRound' \in 0..NRounds
        /\ learnerRound' \in 0..NRounds
        /\ stage' \in {"send", "done"}
        /\ stage' = "send" => learnerRound' \in Rounds
    BY <1>2, LoopHeadType DEF BeginTraining, TypeOK
  <2> QED
    BY <1>2, <2>1 DEF BeginTraining, TypeOK, Stages, history
<1>3. CASE BroadcastModel
  BY <1>3 DEF BroadcastModel, TypeOK, Stages, history
<1>4. ASSUME NEW n \in 0..NPeers, EnterGrace(n) PROVE TypeOK'
  <2>1. learnerRound \in Rounds /\ stage' = "grace"
    BY <1>4 DEF EnterGrace, TypeOK
  <2>2. UNCHANGED <<storeVars, schedule, learnerRound, history>>
    BY <1>4 DEF EnterGrace
  <2> QED
    BY <2>1, <2>2 DEF TypeOK, Stages, history, storeVars
<1>5. CASE CollectAfterGrace
  BY <1>5, CollectType DEF CollectAfterGrace
<1>6. ASSUME NEW n \in 0..NPeers, CollectAfterStall(n) PROVE TypeOK'
  BY <1>6, CollectType DEF CollectAfterStall
<1>7. CASE EndRound
  <2> DEFINE b == [incoming EXCEPT ![learnerRound] = <<>>]
  <2>0. b \in [Rounds -> Seq(Payload)]
    <3>1. <<>> \in Seq(Payload)
      OBVIOUS
    <3> QED
      BY <3>1 DEF TypeOK
  <2>1. /\ incoming' \in [Rounds -> Seq(Payload)]
        /\ currentRound' \in 0..NRounds
        /\ learnerRound' \in 0..NRounds
        /\ stage' \in {"send", "done"}
        /\ stage' = "send" => learnerRound' \in Rounds
    BY <1>7, <2>0, LoopHeadType DEF EndRound
  <2> QED
    BY <1>7, <2>1 DEF EndRound, TypeOK, Stages, history
<1>8. CASE UNCHANGED vars
  BY <1>8 DEF vars, storeVars, learnerVars, history, TypeOK
<1> QED
  BY <1>1, <1>2, <1>3, <1>4, <1>5, <1>6, <1>7, <1>8 DEF Next

\* The store and the learner keep their types, and the dedup window its bound,
\* for every schedule.
THEOREM TypeCorrect == Spec => []TypeOK
<1>1. Init => TypeOK
  <2> SUFFICES ASSUME Init PROVE TypeOK
    OBVIOUS
  <2>1. learnerRound \in 0..NRounds
    BY StoreAssumption, SMT DEF Init, Schedules
  <2>2. /\ incoming \in [Rounds -> Seq(Payload)]
        /\ collected \in [Rounds -> Seq(Payload)]
        /\ arrived \in [Rounds -> Seq(Payload)]
    BY DEF Init
  <2> QED
    BY <2>1, <2>2, StoreAssumption, SMT DEF Init, TypeOK, Stages
<1> QED
  BY <1>1, TypeInvariant, PTL DEF Spec

-----------------------------------------------------------------------------
(* Deduplication. *)

\* The strengthening: the deque is the tail of everything accepted, all of it
\* until the window is full.
WindowIsRecent ==
    /\ Len(seenOrder) <= Len(accepted)
    /\ Len(seenOrder) = Window \/ Len(seenOrder) = Len(accepted)
    /\ \A i \in 1..Len(seenOrder) :
         seenOrder[i] = accepted[Len(accepted) - Len(seenOrder) + i]

DedupInv == WindowIsRecent /\ SeenWindow /\ DuplicateFarApart

\* The arithmetic facts the proofs below use of the type invariant.
LEMMA Lengths ==
    ASSUME TypeOK
    PROVE  /\ seenOrder \in Seq(Payload) /\ Len(seenOrder) \in 0..Window
           /\ accepted \in Seq(Payload) /\ Len(accepted) \in Nat
           /\ Window \in Nat \ {0}
BY StoreAssumption, SMT DEF TypeOK

\* Evicting the oldest keeps the deque the most recent part of accepted.
LEMMA WindowSlides ==
    ASSUME TypeOK, WindowIsRecent, NEW p \in Payload, RememberHash(p),
           accepted' = Append(accepted, p)
    PROVE  WindowIsRecent'
<1>1. CASE Len(seenOrder) = Window
  <2>1. seenOrder' = Append(Tail(seenOrder), p)
    BY <1>1 DEF RememberHash
  <2>2. /\ Len(seenOrder') = Window
        /\ \A i \in 1..Window - 1 : seenOrder'[i] = seenOrder[i + 1]
        /\ seenOrder'[Window] = p
    BY <1>1, <2>1, Lengths, SMT
  <2>3. /\ Len(accepted') = Len(accepted) + 1
        /\ \A i \in 1..Len(accepted) : accepted'[i] = accepted[i]
        /\ accepted'[Len(accepted) + 1] = p
    BY Lengths, SMT
  <2>4. ASSUME NEW i \in 1..Window
        PROVE  seenOrder'[i] = accepted'[Len(accepted') - Len(seenOrder') + i]
    <3> DEFINE k == Len(accepted) - Window + i + 1
    <3>1. Len(accepted') - Len(seenOrder') + i = k
      BY <2>2, <2>3, Lengths, SMT
    <3>2. CASE i = Window
      <4>1. k = Len(accepted) + 1
        BY <3>2, Lengths, SMT
      <4> QED
        BY <2>2, <2>3, <3>1, <3>2, <4>1
    <3>3. CASE i # Window
      <4>1. i + 1 \in 1..Window /\ i \in 1..Window - 1 /\ k \in 1..Len(accepted)
        BY <1>1, <3>3, Lengths, SMT DEF WindowIsRecent
      <4>2. seenOrder[i + 1] = accepted[Len(accepted) - Len(seenOrder) + (i + 1)]
        BY <1>1, <4>1 DEF WindowIsRecent
      <4>3. Len(accepted) - Len(seenOrder) + (i + 1) = k
        BY <1>1, Lengths, SMT
      <4> QED
        BY <2>2, <2>3, <3>1, <4>1, <4>2, <4>3
    <3> QED
      BY <3>2, <3>3
  <2> QED
    BY <1>1, <2>2, <2>3, <2>4, Lengths, SMT DEF WindowIsRecent
<1>2. CASE Len(seenOrder) # Window
  <2>1. seenOrder' = Append(seenOrder, p)
    BY <1>2 DEF RememberHash
  <2>2. Len(seenOrder) = Len(accepted)
    BY <1>2 DEF WindowIsRecent
  <2>3. /\ Len(seenOrder') = Len(seenOrder) + 1
        /\ \A i \in 1..Len(seenOrder) : seenOrder'[i] = seenOrder[i]
        /\ seenOrder'[Len(seenOrder) + 1] = p
    BY <2>1, Lengths, SMT
  <2>4. /\ Len(accepted') = Len(accepted) + 1
        /\ \A i \in 1..Len(accepted) : accepted'[i] = accepted[i]
        /\ accepted'[Len(accepted) + 1] = p
    BY Lengths, SMT
  <2>5. ASSUME NEW i \in 1..Len(seenOrder')
        PROVE  seenOrder'[i] = accepted'[Len(accepted') - Len(seenOrder') + i]
    <3>1. Len(accepted') - Len(seenOrder') + i = i
      BY <2>2, <2>3, <2>4, Lengths, SMT
    <3>2. CASE i \in 1..Len(seenOrder)
      <4>1. seenOrder[i] = accepted[Len(accepted) - Len(seenOrder) + i]
        BY <3>2 DEF WindowIsRecent
      <4>2. Len(accepted) - Len(seenOrder) + i = i
        BY <2>2, Lengths, SMT
      <4> QED
        BY <2>2, <2>3, <2>4, <3>1, <3>2, <4>1, <4>2
    <3>3. CASE i = Len(seenOrder) + 1
      BY <2>2, <2>3, <2>4, <3>1, <3>3
    <3>4. i \in 1..Len(seenOrder) \/ i = Len(seenOrder) + 1
      BY <2>3, Lengths, SMT
    <3> QED
      BY <3>2, <3>3, <3>4
  <2> QED
    BY <2>2, <2>3, <2>4, <2>5, Lengths, SMT DEF WindowIsRecent
<1> QED
  BY <1>1, <1>2

\* The set follows the deque.  That the evicted hash is not elsewhere in the
\* deque needs DuplicateFarApart.
LEMMA HashesFollowOrder ==
    ASSUME TypeOK, DedupInv, NEW p \in Payload, RememberHash(p)
    PROVE  seenHashes' = Range(seenOrder)'
<1>1. CASE Len(seenOrder) = Window
  <2>1. /\ seenHashes' = (seenHashes \ {seenOrder[1]}) \cup {p}
        /\ seenOrder' = Append(Tail(seenOrder), p)
    BY <1>1, Lengths, SMT DEF RememberHash
  <2>2. /\ DOMAIN seenOrder' = 1..Window
        /\ DOMAIN seenOrder = 1..Window
        /\ \A i \in 1..Window - 1 : seenOrder'[i] = seenOrder[i + 1]
        /\ seenOrder'[Window] = p
    BY <1>1, <2>1, Lengths, SMT
  <2>3. \A i \in 2..Window : seenOrder[i] # seenOrder[1]
    <3> SUFFICES ASSUME NEW i \in 2..Window, seenOrder[i] = seenOrder[1]
                 PROVE FALSE
      OBVIOUS
    <3> DEFINE n == Len(accepted) - Window
    <3>1. /\ n \in Nat
          /\ seenOrder[i] = accepted[n + i]
          /\ seenOrder[1] = accepted[n + 1]
      BY <1>1, Lengths, SMT DEF DedupInv, WindowIsRecent
    <3>2. /\ n + 1 \in 1..Len(accepted) /\ n + i \in 1..Len(accepted)
          /\ n + 1 < n + i
          /\ ~((n + i) - (n + 1) > Window)
      BY <3>1, Lengths, SMT
    <3>3. accepted[n + 1] = accepted[n + i]
      BY <3>1
    <3> QED
      BY <3>2, <3>3 DEF DedupInv, DuplicateFarApart
  <2>4. seenHashes = {seenOrder[i] : i \in 1..Window}
    BY <2>2 DEF DedupInv, SeenWindow, Range
  <2>5. seenHashes \ {seenOrder[1]} = {seenOrder[i] : i \in 2..Window}
    BY <2>3, <2>4, Lengths, SMT
  <2>6. {seenOrder[i] : i \in 2..Window} = {seenOrder'[i] : i \in 1..Window - 1}
    <3>1. ASSUME NEW i \in 2..Window PROVE \E k \in 1..Window - 1 : seenOrder[i] = seenOrder'[k]
      <4>1. i - 1 \in 1..Window - 1 /\ (i - 1) + 1 = i
        BY Lengths, SMT
      <4> QED
        BY <2>2, <4>1
    <3>2. ASSUME NEW k \in 1..Window - 1 PROVE \E i \in 2..Window : seenOrder'[k] = seenOrder[i]
      <4>1. k + 1 \in 2..Window
        BY Lengths, SMT
      <4> QED
        BY <2>2, <4>1
    <3> QED
      BY <3>1, <3>2
  <2>7. {seenOrder'[i] : i \in 1..Window - 1} \cup {p} = {seenOrder'[i] : i \in 1..Window}
    BY <2>2, Lengths, SMT
  <2> QED
    BY <2>1, <2>2, <2>5, <2>6, <2>7 DEF Range
<1>2. CASE Len(seenOrder) # Window
  <2>1. /\ seenHashes' = seenHashes \cup {p}
        /\ seenOrder' = Append(seenOrder, p)
    BY <1>2 DEF RememberHash
  <2>2. /\ DOMAIN seenOrder' = 1..Len(seenOrder) + 1
        /\ DOMAIN seenOrder = 1..Len(seenOrder)
        /\ \A i \in 1..Len(seenOrder) : seenOrder'[i] = seenOrder[i]
        /\ seenOrder'[Len(seenOrder) + 1] = p
    BY <2>1, Lengths, SMT
  <2>3. {seenOrder[i] : i \in 1..Len(seenOrder)} \cup {p}
          = {seenOrder'[i] : i \in 1..Len(seenOrder) + 1}
    <3>1. 1..Len(seenOrder) + 1 = 1..Len(seenOrder) \cup {Len(seenOrder) + 1}
      BY Lengths, SMT
    <3>2. {seenOrder'[i] : i \in 1..Len(seenOrder)} = {seenOrder[i] : i \in 1..Len(seenOrder)}
      BY <2>2
    <3> QED
      BY <2>2, <3>1, <3>2, Zenon
  <2> QED
    BY <2>1, <2>2, <2>3 DEF DedupInv, SeenWindow, Range
<1> QED
  BY <1>1, <1>2

\* The deque is a window's worth of what was accepted last, in which no payload
\* occurs twice.
LEMMA WindowIsInjective ==
    ASSUME TypeOK', WindowIsRecent', DuplicateFarApart'
    PROVE  IsInjective(seenOrder')
<1>1. /\ seenOrder' \in Seq(Payload) /\ Len(seenOrder') \in 0..Window
      /\ accepted' \in Seq(Payload) /\ Len(accepted') \in Nat
      /\ Window \in Nat
  BY StoreAssumption, SMT DEF TypeOK
<1> DEFINE n == Len(accepted') - Len(seenOrder')
<1>2. /\ n \in Nat /\ Len(accepted') = n + Len(seenOrder')
      /\ \A i \in 1..Len(seenOrder') : seenOrder'[i] = accepted'[n + i]
  BY <1>1, SMT DEF WindowIsRecent
<1> HIDE DEF n
<1>3. ASSUME NEW i \in 1..Len(seenOrder'), NEW j \in 1..Len(seenOrder'),
             i < j, seenOrder'[i] = seenOrder'[j]
      PROVE  FALSE
  <2>1. n + i \in 1..Len(accepted') /\ n + j \in 1..Len(accepted') /\ n + i < n + j
    BY <1>1, <1>2, <1>3
  <2>2. accepted'[n + i] = accepted'[n + j]
    BY <1>2, <1>3
  <2>3. (n + j) - (n + i) > Window
    BY <2>1, <2>2 DEF DuplicateFarApart
  <2> QED
    BY <1>1, <1>2, <2>3
<1>4. DOMAIN seenOrder' = 1..Len(seenOrder')
  BY <1>1
<1>5. ASSUME NEW i \in 1..Len(seenOrder'), NEW j \in 1..Len(seenOrder'),
             seenOrder'[i] = seenOrder'[j]
      PROVE  i = j
  <2>1. i < j \/ j < i \/ i = j
    BY <1>1
  <2> QED
    BY <1>3, <1>5, <2>1
<1> QED
  BY <1>4, <1>5 DEF IsInjective

\* A payload is let in only when the window does not hold it, so its previous
\* acceptance is at least a whole window away.
LEMMA AcceptedFarApart ==
    ASSUME TypeOK, DedupInv, NEW p \in Payload, p \notin seenHashes,
           accepted' = Append(accepted, p)
    PROVE  DuplicateFarApart'
<1>1. /\ Len(accepted') = Len(accepted) + 1
      /\ \A i \in 1..Len(accepted) : accepted'[i] = accepted[i]
      /\ accepted'[Len(accepted) + 1] = p
  BY Lengths, SMT
<1>2. \A k \in 1..Len(seenOrder) : seenOrder[k] # p
  BY Lengths, SMT DEF DedupInv, SeenWindow, Range
<1>3. \A i \in 1..Len(accepted) :
        accepted[i] = p => i <= Len(accepted) - Len(seenOrder)
  <2> SUFFICES ASSUME NEW i \in 1..Len(accepted), accepted[i] = p,
                      i > Len(accepted) - Len(seenOrder)
               PROVE  FALSE
    BY Lengths, SMT
  <2> DEFINE k == i - (Len(accepted) - Len(seenOrder))
  <2>1. k \in 1..Len(seenOrder)
    BY Lengths, SMT
  <2>2. Len(accepted) - Len(seenOrder) + k = i
    BY Lengths, SMT
  <2> HIDE DEF k
  <2>3. seenOrder[k] = accepted[Len(accepted) - Len(seenOrder) + k]
    BY <2>1 DEF DedupInv, WindowIsRecent
  <2> QED
    BY <1>2, <2>1, <2>2, <2>3
<1> SUFFICES ASSUME NEW i \in 1..Len(accepted'), NEW j \in 1..Len(accepted'),
                    i < j, accepted'[i] = accepted'[j]
             PROVE  j - i > Window
  BY DEF DuplicateFarApart
<1>4. CASE j = Len(accepted) + 1
  <2>1. i \in 1..Len(accepted) /\ accepted[i] = p
    BY <1>1, <1>4, Lengths, SMT
  <2>2. i <= Len(accepted) - Len(seenOrder)
    BY <1>3, <2>1
  <2>3. Len(seenOrder) = Window \/ Len(seenOrder) = Len(accepted)
    BY DEF DedupInv, WindowIsRecent
  <2>4. i <= Len(accepted) - Window
    BY <2>1, <2>2, <2>3, Lengths, SMT
  <2> QED
    BY <1>4, <2>1, <2>4, Lengths, SMT
<1>5. CASE j # Len(accepted) + 1
  <2>1. i \in 1..Len(accepted) /\ j \in 1..Len(accepted)
    BY <1>1, <1>5, Lengths, SMT
  <2> QED
    BY <1>1, <2>1 DEF DedupInv, DuplicateFarApart
<1> QED
  BY <1>4, <1>5

LEMMA DedupInductive == TypeOK /\ DedupInv /\ [Next]_vars => DedupInv'
<1> SUFFICES ASSUME TypeOK, DedupInv, [Next]_vars PROVE DedupInv'
  OBVIOUS
<1>1. ASSUME NEW p \in Payload, ReceiveFragment(p) PROVE DedupInv'
  <2>1. /\ p \notin seenHashes
        /\ RememberHash(p)
        /\ accepted' = Append(accepted, p)
    BY <1>1 DEF ReceiveFragment
  <2>2. WindowIsRecent' /\ DuplicateFarApart'
    BY <2>1, WindowSlides, AcceptedFarApart DEF DedupInv
  <2>3. IsInjective(seenOrder')
    BY <2>2, TypeInvariant, WindowIsInjective
  <2>4. seenHashes' = Range(seenOrder)'
    BY <2>1, HashesFollowOrder
  <2> QED
    BY <2>2, <2>3, <2>4 DEF DedupInv, SeenWindow
<1>2. ASSUME UNCHANGED <<seenHashes, seenOrder, accepted>> PROVE DedupInv'
  BY <1>2 DEF DedupInv, WindowIsRecent, SeenWindow, DuplicateFarApart, Range,
              IsInjective
<1>3. CASE UNCHANGED vars
  BY <1>2, <1>3 DEF vars, storeVars, history
<1>4. CASE BeginTraining \/ EndRound
  BY <1>2, <1>4 DEF BeginTraining, EndRound, history
<1>5. CASE BroadcastModel
  BY <1>2, <1>5 DEF BroadcastModel, history
<1>6. ASSUME NEW n \in 0..NPeers, EnterGrace(n) \/ CollectAfterStall(n) PROVE DedupInv'
  BY <1>2, <1>6 DEF EnterGrace, CollectAfterStall, Collect, storeVars, history
<1>7. CASE CollectAfterGrace
  BY <1>2, <1>7 DEF CollectAfterGrace, Collect
<1> QED
  BY <1>1, <1>3, <1>4, <1>5, <1>6, <1>7 DEF Next

LEMMA DedupAlways == Spec => []DedupInv
<1>1. Init => DedupInv
  BY SMT DEF Init, DedupInv, WindowIsRecent, SeenWindow, DuplicateFarApart, Range,
             IsInjective
<1> QED
  BY <1>1, DedupInductive, TypeCorrect, PTL DEF Spec

\* The hash set of is_duplicate is at all times exactly the content of its
\* deque, and the deque holds no hash twice, whatever the window and the order
\* of arrivals.
THEOREM SeenWindowAlways == Spec => []SeenWindow
<1>1. DedupInv => SeenWindow
  BY DEF DedupInv
<1> QED
  BY <1>1, DedupAlways, PTL

\* A payload is let in a second time only after more than DEDUP_WINDOW_SIZE
\* acceptances.
THEOREM DuplicateFarApartAlways == Spec => []DuplicateFarApart
<1>1. DedupInv => DuplicateFarApart
  BY DEF DedupInv
<1> QED
  BY <1>1, DedupAlways, PTL

-----------------------------------------------------------------------------
(* Round buckets. *)

\* The strengthening: once the learner runs, the store and the learner are in
\* the same round; before, the learner stands just below its first round.
RoundsAgree ==
    /\ stage = "boot" => learnerRound = IF schedule.join > 0
                                        THEN schedule.join - 1 ELSE 0
    /\ stage = "boot" => currentRound = 0
    /\ stage # "boot" => currentRound = learnerRound

BucketInv == RoundsAgree /\ NoStaleBucket

LEMMA BootBelowLast == TypeOK /\ RoundsAgree /\ stage = "boot" => learnerRound < NRounds
BY StoreAssumption, SMT DEF TypeOK, RoundsAgree, Schedules

\* The guard of enqueue_incoming keeps buckets below the current round empty.
LEMMA EnqueueKeepsBuckets ==
    ASSUME TypeOK, NEW p \in Payload, EnqueueIncoming(p),
           UNCHANGED currentRound
    PROVE  \A r \in Rounds :
             r < currentRound => incoming'[r] = incoming[r]
<1>1. CASE RoundOf[p] < currentRound
  BY <1>1 DEF EnqueueIncoming
<1>2. CASE ~(RoundOf[p] < currentRound)
  <2>1. incoming' = [incoming EXCEPT ![RoundOf[p]] = Append(@, p)]
    BY <1>2 DEF EnqueueIncoming
  <2> QED
    BY <1>2, <2>1 DEF TypeOK
<1> QED
  BY <1>1, <1>2

\* Opening the round after learnerRound leaves no bucket below it, provided
\* there was none below it in b, or the iteration is a late joiner's first.
LEMMA LoopHeadBuckets ==
    ASSUME TypeOK, NEW b \in [Rounds -> Seq(Payload)], NEW first \in BOOLEAN,
           LoopHead(b, first), learnerRound # NRounds,
           \/ first /\ schedule.join > 0
           \/ \A r \in Rounds : r < learnerRound + 1 => b[r] = <<>>
    PROVE  /\ currentRound' = learnerRound'
           /\ \A r \in Rounds : r < currentRound' => incoming'[r] = <<>>
BY DEF LoopHead

LEMMA BucketInductive == TypeOK /\ BucketInv /\ [Next]_vars => BucketInv'
<1> SUFFICES ASSUME TypeOK, BucketInv, [Next]_vars PROVE BucketInv'
  OBVIOUS
<1>1. ASSUME NEW p \in Payload, ReceiveFragment(p) PROVE BucketInv'
  <2>1. UNCHANGED <<currentRound, learnerRound, stage, schedule>>
    BY <1>1 DEF ReceiveFragment, learnerVars
  <2>2. \A r \in Rounds : r < currentRound => incoming'[r] = incoming[r]
    BY <1>1, <2>1, EnqueueKeepsBuckets DEF ReceiveFragment
  <2> QED
    BY <2>1, <2>2 DEF BucketInv, RoundsAgree, NoStaleBucket
<1>2. CASE BeginTraining
  <2>1. LoopHead(incoming, TRUE) /\ stage = "boot"
    BY <1>2 DEF BeginTraining
  <2>2. learnerRound # NRounds
    BY <2>1, BootBelowLast, SMT DEF BucketInv, TypeOK
  <2>3. schedule.join > 0 \/ \A r \in Rounds : ~(r < learnerRound + 1)
    BY <2>1, ScheduleTypes, SMT DEF BucketInv, RoundsAgree, Rounds, TypeOK
  <2>4. /\ currentRound' = learnerRound'
        /\ \A r \in Rounds : r < currentRound' => incoming'[r] = <<>>
    BY <2>1, <2>2, <2>3, LoopHeadBuckets DEF TypeOK
  <2>5. stage' # "boot"
    BY <2>1, LoopHeadType DEF TypeOK
  <2> QED
    BY <2>4, <2>5 DEF BucketInv, RoundsAgree, NoStaleBucket
<1>3. CASE BroadcastModel
  BY <1>3 DEF BroadcastModel, BucketInv, RoundsAgree, NoStaleBucket
<1>4. ASSUME NEW n \in 0..NPeers, EnterGrace(n) PROVE BucketInv'
  BY <1>4 DEF EnterGrace, storeVars, BucketInv, RoundsAgree, NoStaleBucket
<1>5. ASSUME stage # "boot", Collect PROVE BucketInv'
  <2>1. /\ UNCHANGED <<currentRound, learnerRound, schedule>>
        /\ stage' = "aggregate"
        /\ incoming' = [incoming EXCEPT ![learnerRound] = <<>>]
    BY <1>5 DEF Collect
  <2>2. \A r \in Rounds : r < currentRound' => incoming'[r] = <<>>
    BY <1>5, <2>1 DEF BucketInv, NoStaleBucket, TypeOK
  <2> QED
    BY <1>5, <2>1, <2>2 DEF BucketInv, RoundsAgree, NoStaleBucket
<1>6. CASE CollectAfterGrace
  BY <1>5, <1>6 DEF CollectAfterGrace
<1>7. ASSUME NEW n \in 0..NPeers, CollectAfterStall(n) PROVE BucketInv'
  BY <1>5, <1>7 DEF CollectAfterStall
<1>8. CASE EndRound
  <2> DEFINE b == [incoming EXCEPT ![learnerRound] = <<>>]
  <2>1. /\ LoopHead(b, FALSE)
        /\ learnerRound \in Rounds
        /\ currentRound = learnerRound
        /\ schedule' = schedule
    BY <1>8 DEF EndRound, TypeOK, BucketInv, RoundsAgree
  <2>2. b \in [Rounds -> Seq(Payload)]
    <3>1. <<>> \in Seq(Payload)
      OBVIOUS
    <3> QED
      BY <3>1 DEF TypeOK
  <2>3. \A r \in Rounds : r < learnerRound + 1 => b[r] = <<>>
    BY <1>8, <2>1, SMT DEF EndRound, BucketInv, NoStaleBucket, TypeOK, Rounds
  <2>4. stage' # "boot"
    BY <2>1, <2>2, LoopHeadType
  <2>5. CASE learnerRound # NRounds
    <3>1. /\ currentRound' = learnerRound'
          /\ \A r \in Rounds : r < currentRound' => incoming'[r] = <<>>
      BY <2>1, <2>2, <2>3, <2>5, LoopHeadBuckets
    <3> QED
      BY <2>4, <3>1 DEF BucketInv, RoundsAgree, NoStaleBucket
  <2>6. CASE learnerRound = NRounds
    <3>1. incoming' = b /\ UNCHANGED <<learnerRound, currentRound>>
      BY <2>1, <2>6 DEF LoopHead
    <3>2. \A r \in Rounds : r < currentRound' => incoming'[r] = <<>>
      BY <2>1, <2>3, <3>1, SMT DEF Rounds, TypeOK
    <3> QED
      BY <2>1, <2>4, <3>1, <3>2 DEF BucketInv, RoundsAgree, NoStaleBucket
  <2> QED
    BY <2>5, <2>6
<1>9. CASE UNCHANGED vars
  BY <1>9 DEF vars, storeVars, learnerVars, BucketInv, RoundsAgree, NoStaleBucket
<1> QED
  BY <1>1, <1>2, <1>3, <1>4, <1>6, <1>7, <1>8, <1>9 DEF Next

LEMMA BucketAlways == Spec => []BucketInv
<1>1. Init => BucketInv
  BY DEF Init, BucketInv, RoundsAgree, NoStaleBucket
<1> QED
  BY <1>1, BucketInductive, TypeCorrect, PTL DEF Spec

\* No bucket of a round the node has left survives, whenever fragments arrive
\* and whichever round the node joins in.
THEOREM NoStaleBucketAlways == Spec => []NoStaleBucket
<1>1. BucketInv => NoStaleBucket
  BY DEF BucketInv
<1> QED
  BY <1>1, BucketAlways, PTL

-----------------------------------------------------------------------------
(* Early and late fragments. *)

LEMMA PrefixIs ==
    ASSUME NEW S, NEW s \in Seq(S), NEW t \in Seq(S), Len(s) <= Len(t),
           \A i \in 1..Len(s) : s[i] = t[i]
    PROVE  IsPrefix(s, t)
<1>1. Len(s) \in Nat /\ Len(t) \in Nat BY LenProperties
<1>2. /\ SubSeq(s, 1, Len(s)) \in Seq(S) /\ Len(SubSeq(s, 1, Len(s))) = Len(s)
      /\ \A i \in 1..Len(s) : SubSeq(s, 1, Len(s))[i] = s[i]
  BY <1>1, LenProperties, SubSeqProperties, ElementOfSeq
<1>3. /\ SubSeq(t, 1, Len(s)) \in Seq(S) /\ Len(SubSeq(t, 1, Len(s))) = Len(s)
      /\ \A i \in 1..Len(s) : SubSeq(t, 1, Len(s))[i] = t[i]
  BY <1>1, LenProperties, SubSeqProperties, ElementOfSeq
<1>4. SubSeq(s, 1, Len(s)) = SubSeq(t, 1, Len(s))
  BY <1>2, <1>3, SeqEqual
<1> QED BY <1>4 DEF IsPrefix

\* A bucket after what was collected keeps both, and so does a longer bucket.
LEMMA JoinedPrefix ==
    ASSUME NEW S, NEW c \in Seq(S), NEW b \in Seq(S)
    PROVE  /\ c \o b \in Seq(S)
           /\ IsPrefix(c \o b, c \o b)
           /\ (c \o b) \o <<>> = c \o b
           /\ \A p \in S : IsPrefix(c \o b, c \o Append(b, p))
<1>1. c \o b \in Seq(S) BY ConcatProperties
<1>2. IsPrefix(c \o b, c \o b)
  <2> DEFINE s == c \o b
  <2>1. s \in Seq(S) /\ Len(s) \in Nat BY <1>1, LenProperties
  <2> HIDE DEF s
  <2>2. IsPrefix(s, s) BY <2>1, PrefixIs
  <2> QED BY <2>2 DEF s
<1>3. (c \o b) \o <<>> = c \o b BY <1>1, ConcatEmptySeq
<1>4. ASSUME NEW p \in S PROVE IsPrefix(c \o b, c \o Append(b, p))
  <2> DEFINE d == Append(b, p)
             s == c \o b
             t == c \o d
             m == Len(c)
             n == Len(b)
  <2>1. /\ d \in Seq(S) /\ Len(d) = n + 1 /\ m \in Nat /\ n \in Nat
        /\ \A i \in 1..n : d[i] = b[i]
    BY LenProperties, AppendProperties
  <2> HIDE DEF d
  <2>2. /\ s \in Seq(S) /\ Len(s) = m + n
        /\ \A i \in 1..(m + n) : s[i] = IF i <= m THEN c[i] ELSE b[i - m]
    BY ConcatProperties
  <2>3. /\ t \in Seq(S) /\ Len(t) = m + (n + 1)
        /\ \A i \in 1..(m + (n + 1)) : t[i] = IF i <= m THEN c[i] ELSE d[i - m]
    <3>1. /\ t \in Seq(S) /\ Len(t) = m + Len(d)
          /\ \A i \in 1..(m + Len(d)) : t[i] = IF i <= m THEN c[i] ELSE d[i - m]
      BY <2>1, ConcatProperties
    <3> QED BY <2>1, <3>1
  <2> HIDE DEF s, t, m, n
  <2>4. ASSUME NEW i \in 1..(m + n) PROVE s[i] = t[i]
    <3>1. i \in 1..(m + (n + 1)) BY <2>1
    <3>2. CASE i <= m BY <2>2, <2>3, <3>1, <3>2
    <3>3. CASE ~(i <= m)
      <4>1. i - m \in 1..n BY <2>1, <3>3
      <4> QED BY <2>1, <2>2, <2>3, <3>1, <3>3, <4>1
    <3> QED BY <3>2, <3>3
  <2>5. Len(s) <= Len(t) BY <2>1, <2>2, <2>3
  <2>6. IsPrefix(s, t) BY <2>2, <2>3, <2>4, <2>5, PrefixIs
  <2> QED BY <2>6 DEF s, t, d
<1> QED BY <1>1, <1>2, <1>3, <1>4

\* What a step keeps of the fragments of round r.
Keeps(r) == IsPrefix(collected[r] \o incoming[r], collected'[r] \o incoming'[r])

LEMMA UntouchedKeeps ==
    ASSUME TypeOK, NEW r \in Rounds,
           collected'[r] = collected[r], incoming'[r] = incoming[r]
    PROVE  Keeps(r)
<1>1. collected[r] \in Seq(Payload) /\ incoming[r] \in Seq(Payload) BY DEF TypeOK
<1>2. IsPrefix(collected[r] \o incoming[r], collected[r] \o incoming[r])
  BY <1>1, JoinedPrefix
<1> QED BY <1>2, Zenon DEF Keeps

LEMMA KeepStep ==
    ASSUME TypeOK, [Next]_vars, NEW r \in Rounds, r >= currentRound', stage' # "done"
    PROVE  Keeps(r)
<1>0. /\ collected[r] \in Seq(Payload) /\ incoming[r] \in Seq(Payload)
      /\ incoming \in [Rounds -> Seq(Payload)] /\ collected \in [Rounds -> Seq(Payload)]
      /\ r \in Nat
  BY DEF TypeOK, Rounds
<1>1. ASSUME NEW p \in Payload, ReceiveFragment(p) PROVE Keeps(r)
  <2>1. EnqueueIncoming(p) /\ collected' = collected BY <1>1 DEF ReceiveFragment
  <2>2. CASE incoming'[r] = incoming[r] BY <2>1, <2>2, UntouchedKeeps
  <2>3. CASE incoming'[r] = Append(incoming[r], p)
    <3>1. IsPrefix(collected[r] \o incoming[r], collected[r] \o Append(incoming[r], p))
      BY <1>0, JoinedPrefix
    <3>2. collected'[r] = collected[r] BY <2>1
    <3> QED BY <2>3, <3>1, <3>2, Zenon DEF Keeps
  <2>4. incoming'[r] = incoming[r] \/ incoming'[r] = Append(incoming[r], p)
    BY <1>0, <2>1 DEF EnqueueIncoming
  <2> QED BY <2>2, <2>3, <2>4
<1>2. CASE BeginTraining
  <2>1. collected' = collected /\ LoopHead(incoming, TRUE) BY <1>2 DEF BeginTraining, history
  <2>2. /\ currentRound' = learnerRound + 1
        /\ incoming' = [s \in Rounds |-> IF schedule.join > 0 /\ s < learnerRound + 1
                                        THEN <<>> ELSE incoming[s]]
    BY <2>1 DEF LoopHead
  <2>3. learnerRound + 1 \in Nat BY DEF TypeOK
  <2>4. ~(r < learnerRound + 1) BY <1>0, <2>2, <2>3
  <2>5. incoming'[r] = incoming[r] BY <2>2, <2>4, Zenon
  <2> QED BY <2>1, <2>5, UntouchedKeeps
<1>3. CASE Collect
  <2>1. /\ collected' = [collected EXCEPT ![learnerRound] = @ \o incoming[learnerRound]]
        /\ incoming' = [incoming EXCEPT ![learnerRound] = <<>>]
    BY <1>3 DEF Collect
  <2>2. CASE r = learnerRound
    <3>1. collected'[r] = collected[r] \o incoming[r] /\ incoming'[r] = <<>>
      BY <1>0, <2>1, <2>2
    <3>2. /\ (collected[r] \o incoming[r]) \o <<>> = collected[r] \o incoming[r]
          /\ IsPrefix(collected[r] \o incoming[r], collected[r] \o incoming[r])
      BY <1>0, JoinedPrefix
    <3> QED BY <3>1, <3>2, Zenon DEF Keeps
  <2>3. CASE r # learnerRound
    BY <1>0, <2>1, <2>3, UntouchedKeeps
  <2> QED BY <2>2, <2>3
<1>4. CASE EndRound
  <2> DEFINE b == [incoming EXCEPT ![learnerRound] = <<>>]
  <2>1. collected' = collected /\ LoopHead(b, FALSE) BY <1>4 DEF EndRound, history
  <2>2. /\ currentRound' = learnerRound + 1
        /\ incoming'[r] = b[r]
    BY <1>0, <2>1 DEF LoopHead
  <2>3. r # learnerRound BY <1>0, <2>2 DEF TypeOK
  <2>4. incoming'[r] = incoming[r] BY <1>0, <2>2, <2>3
  <2> QED BY <2>1, <2>4, UntouchedKeeps
<1>5. ASSUME UNCHANGED <<incoming, collected>> PROVE Keeps(r)
  BY <1>5, UntouchedKeeps
<1>6. CASE BroadcastModel \/ UNCHANGED vars
  BY <1>5, <1>6 DEF BroadcastModel, vars, storeVars, history
<1>7. ASSUME NEW n \in 0..NPeers, EnterGrace(n) PROVE Keeps(r)
  BY <1>5, <1>7 DEF EnterGrace, storeVars, history
<1>8. ASSUME NEW n \in 0..NPeers, CollectAfterStall(n) PROVE Keeps(r)
  BY <1>3, <1>8 DEF CollectAfterStall
<1>9. CASE CollectAfterGrace BY <1>3, <1>9 DEF CollectAfterGrace
<1> QED BY <1>1, <1>2, <1>4, <1>6, <1>7, <1>8, <1>9, Zenon DEF Next

\* A fragment that arrives before its round is opened, or during the grace
\* period of its round, stays where the learner will find it, in order: no step
\* of either client takes one from a round the node has not left.
THEOREM EarlyFragmentsKeptAlways == Spec => EarlyFragmentsKept
<1>1. TypeOK /\ [Next]_vars =>
        [\A r \in Rounds :
           (r >= currentRound' /\ stage' # "done")
             => IsPrefix(collected[r] \o incoming[r],
                         collected'[r] \o incoming'[r])]_vars
  BY KeepStep DEF Keeps
<1> QED BY <1>1, TypeCorrect, PTL DEF Spec, EarlyFragmentsKept

-----------------------------------------------------------------------------
(* Fragment by fragment. *)

\* A bucket that grows, grows at the end of what its round has so far; what came
\* first stays first.
LEMMA JoinedAppend ==
    \A c, b \in Seq(Payload), p \in Payload : c \o Append(b, p) = Append(c \o b, p)
<1> SUFFICES ASSUME NEW c \in Seq(Payload), NEW b \in Seq(Payload), NEW p \in Payload
             PROVE  c \o Append(b, p) = Append(c \o b, p)
  OBVIOUS
<1> DEFINE d == Append(b, p)
           s == c \o b
           t == c \o d
           u == Append(s, p)
           m == Len(c)
           n == Len(b)
<1>1. /\ d \in Seq(Payload) /\ Len(d) = n + 1 /\ m \in Nat /\ n \in Nat
      /\ \A i \in 1..n : d[i] = b[i]
      /\ d[n + 1] = p
  BY LenProperties, AppendProperties
<1> HIDE DEF d
<1>2. /\ s \in Seq(Payload) /\ Len(s) = m + n
      /\ \A i \in 1..(m + n) : s[i] = IF i <= m THEN c[i] ELSE b[i - m]
  BY ConcatProperties
<1>3. /\ t \in Seq(Payload) /\ Len(t) = m + Len(d)
      /\ \A i \in 1..(m + Len(d)) : t[i] = IF i <= m THEN c[i] ELSE d[i - m]
  BY <1>1, ConcatProperties
<1> HIDE DEF s, t, m, n
<1>4. /\ u \in Seq(Payload) /\ Len(u) = Len(s) + 1
      /\ \A i \in 1..Len(s) : u[i] = s[i]
      /\ u[Len(s) + 1] = p
  BY <1>2, AppendProperties
<1> HIDE DEF u
<1>5. ASSUME NEW i \in 1..(m + (n + 1)) PROVE t[i] = u[i]
  <2>1. CASE i <= m
    <3>1. i \in 1..(m + n) /\ i \in 1..Len(s) BY <1>1, <1>2, <2>1
    <3> QED BY <1>1, <1>2, <1>3, <1>4, <2>1, <3>1
  <2>2. CASE i = m + (n + 1)
    <3>1. ~(i <= m) /\ i - m = n + 1 /\ i = Len(s) + 1 BY <1>1, <1>2, <2>2
    <3> QED BY <1>1, <1>3, <1>4, <3>1
  <2>3. CASE ~(i <= m) /\ i # m + (n + 1)
    <3>1. i - m \in 1..n /\ i \in 1..(m + n) /\ i \in 1..Len(s) BY <1>1, <1>2, <2>3
    <3> QED BY <1>1, <1>2, <1>3, <1>4, <2>3, <3>1
  <2> QED BY <2>1, <2>2, <2>3
<1>6. Len(t) = m + (n + 1) /\ Len(u) = m + (n + 1) BY <1>1, <1>2, <1>3, <1>4
<1>7. t = u BY <1>3, <1>4, <1>5, <1>6, SeqEqual
<1> QED BY <1>7 DEF t, d, u, s

LEMMA PrefixOfConcat ==
    ASSUME NEW S, NEW c \in Seq(S), NEW b \in Seq(S)
    PROVE  IsPrefix(c, c \o b)
<1> DEFINE t == c \o b
<1>1. /\ t \in Seq(S) /\ Len(t) = Len(c) + Len(b) /\ Len(c) \in Nat /\ Len(b) \in Nat
      /\ \A i \in 1..(Len(c) + Len(b)) : t[i] = IF i <= Len(c) THEN c[i] ELSE b[i - Len(c)]
  BY ConcatProperties, LenProperties
<1> HIDE DEF t
<1>2. Len(c) <= Len(t) /\ \A i \in 1..Len(c) : c[i] = t[i] BY <1>1
<1>3. IsPrefix(c, t) BY <1>1, <1>2, PrefixIs
<1> QED BY <1>3 DEF t

LEMMA PrefixGrows ==
    ASSUME NEW S, NEW c \in Seq(S), NEW a \in Seq(S), NEW p \in S, IsPrefix(c, a)
    PROVE  IsPrefix(c, Append(a, p))
<1> DEFINE u == Append(a, p)
<1>1. Len(c) \in Nat /\ Len(a) \in Nat BY LenProperties
<1>2. /\ u \in Seq(S) /\ Len(u) = Len(a) + 1
      /\ \A i \in 1..Len(a) : u[i] = a[i]
  BY AppendProperties
<1> HIDE DEF u
<1>3. Len(c) <= Len(a) /\ SubSeq(c, 1, Len(c)) = SubSeq(a, 1, Len(c)) BY DEF IsPrefix
<1>4. ASSUME NEW i \in 1..Len(c) PROVE c[i] = u[i]
  <2>1. SubSeq(c, 1, Len(c))[i] = c[i] /\ SubSeq(a, 1, Len(c))[i] = a[i]
    BY <1>1, <1>3, LenProperties, SubSeqProperties, ElementOfSeq
  <2>2. i \in 1..Len(a) BY <1>1, <1>3
  <2> QED BY <1>2, <1>3, <2>1, <2>2
<1>5. Len(c) <= Len(u) BY <1>1, <1>2, <1>3
<1>6. IsPrefix(c, u) BY <1>2, <1>4, <1>5, PrefixIs
<1> QED BY <1>6 DEF u

\* What Conservation says of round r.
Kept(r) == collected[r] \o incoming[r] = arrived[r]
Begun(r) == IsPrefix(collected[r], arrived[r])

LEMMA KeptIsBegun ==
    ASSUME TypeOK, NEW r \in Rounds, Kept(r)
    PROVE  Begun(r)
<1>1. collected[r] \in Seq(Payload) /\ incoming[r] \in Seq(Payload) BY DEF TypeOK
<1>2. IsPrefix(collected[r], collected[r] \o incoming[r]) BY <1>1, PrefixOfConcat
<1> QED BY <1>2, Zenon DEF Kept, Begun

\* A round the step does not touch.
LEMMA UntouchedConserved ==
    ASSUME NEW r \in Rounds, collected'[r] = collected[r], arrived'[r] = arrived[r]
    PROVE  /\ Begun(r) => Begun(r)'
           /\ incoming'[r] = incoming[r] => (Kept(r) => Kept(r)')
BY Zenon DEF Kept, Begun

LEMMA ReceiveConserves ==
    ASSUME TypeOK, Conservation, NEW p \in Payload, ReceiveFragment(p), NEW r \in Rounds
    PROVE  IF r >= currentRound' /\ stage' # "done" THEN Kept(r)' ELSE Begun(r)'
<1>0. /\ collected[r] \in Seq(Payload) /\ incoming[r] \in Seq(Payload)
      /\ arrived[r] \in Seq(Payload) /\ r \in Nat /\ currentRound \in Nat
      /\ incoming \in [Rounds -> Seq(Payload)] /\ arrived \in [Rounds -> Seq(Payload)]
      /\ RoundOf[p] \in Rounds
  <2>1. RoundOf[p] \in Rounds BY StoreAssumption
  <2>2. r \in Nat /\ currentRound \in Nat BY StoreAssumption DEF TypeOK, Rounds
  <2> QED BY <2>1, <2>2 DEF TypeOK
<1>1. /\ EnqueueIncoming(p) /\ collected' = collected
      /\ currentRound' = currentRound /\ stage' = stage
      /\ arrived' = [arrived EXCEPT ![RoundOf[p]] = Append(@, p)]
  BY DEF ReceiveFragment, learnerVars
<1>2. IF r >= currentRound /\ stage # "done" THEN Kept(r) ELSE Begun(r)
  BY DEF Conservation, Kept, Begun
<1>3. CASE r # RoundOf[p]
  <2>1. arrived'[r] = arrived[r] /\ incoming'[r] = incoming[r]
    BY <1>0, <1>1, <1>3 DEF EnqueueIncoming
  <2> QED BY <1>1, <1>2, <2>1, UntouchedConserved
<1>4. CASE r = RoundOf[p]
  <2>1. arrived'[r] = Append(arrived[r], p) BY <1>0, <1>1, <1>4
  <2>2. CASE r >= currentRound /\ stage # "done"
    <3>1. incoming'[r] = Append(incoming[r], p)
      BY <1>0, <1>1, <1>4, <2>2 DEF EnqueueIncoming
    <3>2. collected[r] \o Append(incoming[r], p) = Append(collected[r] \o incoming[r], p)
      BY <1>0, JoinedAppend, Zenon
    <3>3. collected'[r] = collected[r] BY <1>1
    <3>4. Kept(r)' BY <1>2, <2>1, <2>2, <3>1, <3>2, <3>3, Zenon DEF Kept
    <3> QED BY <1>1, <2>2, <3>4
  <2>3. CASE ~(r >= currentRound /\ stage # "done")
    <3>1. IsPrefix(collected[r], Append(arrived[r], p))
      BY <1>0, <1>2, <2>3, PrefixGrows DEF Begun
    <3>2. collected'[r] = collected[r] BY <1>1
    <3>3. Begun(r)' BY <2>1, <3>1, <3>2, Zenon DEF Begun
    <3> QED BY <1>1, <2>3, <3>3
  <2> QED BY <2>2, <2>3
<1> QED BY <1>3, <1>4

LEMMA CollectConserves ==
    ASSUME TypeOK, RoundsAgree, Conservation, Collect, stage \in {"await", "grace"},
           NEW r \in Rounds
    PROVE  IF r >= currentRound' /\ stage' # "done" THEN Kept(r)' ELSE Begun(r)'
<1>0. /\ collected[r] \in Seq(Payload) /\ incoming[r] \in Seq(Payload)
      /\ incoming \in [Rounds -> Seq(Payload)] /\ collected \in [Rounds -> Seq(Payload)]
      /\ r \in Nat /\ learnerRound \in Nat /\ currentRound = learnerRound
  BY DEF TypeOK, Rounds, RoundsAgree
<1>1. /\ collected' = [collected EXCEPT ![learnerRound] = @ \o incoming[learnerRound]]
      /\ incoming' = [incoming EXCEPT ![learnerRound] = <<>>]
      /\ stage' = "aggregate" /\ currentRound' = currentRound /\ arrived' = arrived
  BY DEF Collect
<1>2. IF r >= currentRound THEN Kept(r) ELSE Begun(r)
  BY DEF Conservation, Kept, Begun
<1>3. CASE r # learnerRound
  <2>1. collected'[r] = collected[r] /\ incoming'[r] = incoming[r] /\ arrived'[r] = arrived[r]
    BY <1>0, <1>1, <1>3
  <2> QED BY <1>1, <1>2, <2>1, UntouchedConserved
<1>4. CASE r = learnerRound
  <2>1. collected'[r] = collected[r] \o incoming[r] /\ incoming'[r] = <<>>
    BY <1>0, <1>1, <1>4
  <2>2. (collected[r] \o incoming[r]) \o <<>> = collected[r] \o incoming[r]
    BY <1>0, JoinedPrefix
  <2>3. arrived'[r] = arrived[r] BY <1>1
  <2>4. r >= currentRound BY <1>0, <1>4
  <2>5. Kept(r) BY <1>2, <2>4
  <2>6. Kept(r)' BY <2>1, <2>2, <2>3, <2>5, Zenon DEF Kept
  <2>7. r >= currentRound' /\ stage' # "done" BY <1>1, <2>4
  <2> QED BY <2>6, <2>7
<1> QED BY <1>3, <1>4

\* Opening a round empties no bucket of that round or a later one.
LEMMA LoopHeadConserves ==
    ASSUME TypeOK, RoundsAgree, Conservation, stage # "done",
           NEW b \in [Rounds -> Seq(Payload)], NEW first \in BOOLEAN, LoopHead(b, first),
           collected' = collected, arrived' = arrived,
           \A q \in Rounds : q > learnerRound => b[q] = incoming[q],
           NEW r \in Rounds
    PROVE  IF r >= currentRound' /\ stage' # "done" THEN Kept(r)' ELSE Begun(r)'
<1>0. r \in Nat /\ learnerRound \in Nat /\ currentRound \in Nat BY DEF TypeOK, Rounds
<1>1. IF r >= currentRound THEN Kept(r) ELSE Begun(r)
  BY DEF Conservation, Kept, Begun
<1>2. Begun(r) BY <1>1, KeptIsBegun
<1>3. Begun(r)' BY <1>2, UntouchedConserved
<1>4. CASE learnerRound = NRounds \/ ~(r >= currentRound')
  <2>1. ~(r >= currentRound' /\ stage' # "done") BY <1>4 DEF LoopHead
  <2> QED BY <1>3, <2>1
<1>5. CASE learnerRound # NRounds /\ r >= currentRound'
  <2>1. /\ currentRound' = learnerRound + 1
        /\ incoming' = [s \in Rounds |-> IF (first /\ schedule.join > 0) /\ s < learnerRound + 1
                                        THEN <<>> ELSE b[s]]
    BY <1>5 DEF LoopHead
  <2>2. r > learnerRound /\ ~(r < learnerRound + 1) BY <1>0, <1>5, <2>1
  <2>3. incoming'[r] = b[r] BY <2>1, <2>2, Zenon
  <2>4. incoming'[r] = incoming[r] BY <2>2, <2>3
  <2>5. r >= currentRound
    <3>1. currentRound = 0 \/ currentRound = learnerRound BY DEF RoundsAgree
    <3> QED BY <1>0, <2>2, <3>1
  <2>6. Kept(r)' BY <1>1, <2>4, <2>5, UntouchedConserved
  <2> QED BY <1>3, <2>6
<1> QED BY <1>4, <1>5

LEMMA ConservationStep ==
    ASSUME TypeOK, BucketInv, Conservation, [Next]_vars
    PROVE  Conservation'
<1>0. RoundsAgree BY DEF BucketInv
<1> SUFFICES ASSUME NEW r \in Rounds
             PROVE  IF r >= currentRound' /\ stage' # "done" THEN Kept(r)' ELSE Begun(r)'
  BY DEF Conservation, Kept, Begun
<1>1. ASSUME NEW p \in Payload, ReceiveFragment(p)
      PROVE  IF r >= currentRound' /\ stage' # "done" THEN Kept(r)' ELSE Begun(r)'
  BY <1>1, ReceiveConserves
<1>2. CASE BeginTraining
  <2>1. /\ LoopHead(incoming, TRUE) /\ stage = "boot"
        /\ collected' = collected /\ arrived' = arrived
        /\ incoming \in [Rounds -> Seq(Payload)]
    BY <1>2 DEF BeginTraining, history, TypeOK
  <2> QED BY <1>0, <2>1, LoopHeadConserves
<1>3. CASE EndRound
  <2> DEFINE b == [incoming EXCEPT ![learnerRound] = <<>>]
  <2>1. /\ LoopHead(b, FALSE) /\ stage = "aggregate"
        /\ collected' = collected /\ arrived' = arrived
    BY <1>3 DEF EndRound, history
  <2>2. b \in [Rounds -> Seq(Payload)]
    <3>1. <<>> \in Seq(Payload) BY EmptySeq
    <3> QED BY <3>1 DEF TypeOK
  <2>3. \A q \in Rounds : q > learnerRound => b[q] = incoming[q]
    <3>1. \A q \in Rounds : q > learnerRound => q # learnerRound BY DEF Rounds, TypeOK
    <3> QED BY <3>1 DEF TypeOK
  <2> HIDE DEF b
  <2> QED BY <1>0, <2>1, <2>2, <2>3, LoopHeadConserves
<1>4. CASE Collect /\ stage \in {"await", "grace"}
  BY <1>0, <1>4, CollectConserves
<1>5. ASSUME UNCHANGED <<incoming, collected, arrived, currentRound>>,
             stage' = "done" <=> stage = "done"
      PROVE  IF r >= currentRound' /\ stage' # "done" THEN Kept(r)' ELSE Begun(r)'
  <2>1. IF r >= currentRound /\ stage # "done" THEN Kept(r) ELSE Begun(r)
    BY DEF Conservation, Kept, Begun
  <2> QED BY <1>5, <2>1, UntouchedConserved
<1>6. CASE BroadcastModel
  <2>1. stage = "send" /\ stage' = "await" BY <1>6 DEF BroadcastModel
  <2> QED BY <1>5, <1>6, <2>1 DEF BroadcastModel, history
<1>7. CASE UNCHANGED vars
  BY <1>5, <1>7 DEF vars, storeVars, learnerVars, history
<1>8. ASSUME NEW n \in 0..NPeers, EnterGrace(n)
      PROVE  IF r >= currentRound' /\ stage' # "done" THEN Kept(r)' ELSE Begun(r)'
  <2>1. stage = "await" /\ stage' = "grace" BY <1>8 DEF EnterGrace
  <2> QED BY <1>5, <1>8, <2>1 DEF EnterGrace, storeVars, history
<1>9. ASSUME NEW n \in 0..NPeers, CollectAfterStall(n)
      PROVE  IF r >= currentRound' /\ stage' # "done" THEN Kept(r)' ELSE Begun(r)'
  BY <1>4, <1>9 DEF CollectAfterStall
<1>10. CASE CollectAfterGrace BY <1>4, <1>10 DEF CollectAfterGrace
<1> QED BY <1>1, <1>2, <1>3, <1>6, <1>7, <1>8, <1>9, <1>10, Zenon DEF Next

\* Every new fragment of a round the node has not left is in the round's bucket
\* or collected, once and in order of arrival; what was collected for a round it
\* has left is what came first of it.
THEOREM ConservationAlways == Spec => []Conservation
<1>1. Init => Conservation
  <2> SUFFICES ASSUME Init, NEW r \in Rounds
               PROVE  Kept(r) /\ Begun(r)
    BY DEF Conservation, Kept, Begun
  <2>1. collected[r] = <<>> /\ incoming[r] = <<>> /\ arrived[r] = <<>> BY DEF Init
  <2>2. <<>> \in Seq(Payload) BY EmptySeq
  <2>3. <<>> \o <<>> = <<>> BY <2>2, ConcatEmptySeq
  <2>4. IsPrefix(<<>>, <<>>) BY <2>2, <2>3, PrefixOfConcat
  <2> QED BY <2>1, <2>3, <2>4, Zenon DEF Kept, Begun
<1>2. TypeOK /\ BucketInv /\ Conservation /\ [Next]_vars => Conservation'
  BY ConservationStep
<1> QED BY <1>1, <1>2, TypeCorrect, BucketAlways, PTL DEF Spec
=============================================================================
