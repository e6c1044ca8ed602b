---------------------------- MODULE MetricsProofs -----------------------------
(***************************************************************************)
(* Proofs about Metrics, for any number of nodes, dashboards, runs and     *)
(* flushes and any page size.  Three arguments that do not need each       *)
(* other: what a last push carries, whose container a reading is of, and   *)
(* where a point may be found.                                             *)
(***************************************************************************)
EXTENDS Metrics, FiniteSetTheorems, SequenceTheorems, WellFoundedInduction, TLAPS

Containers == Nodes \X Nat
Pushed == [node : Nodes, run : Nat, seq : Nat, timestamp : Nat \ {0}, value : Nat]
Points == [id : Nodes \X Nat \X Nat, timestamp : Nat \ {0}]
Requests == [point : Pushed, by : {"loop", "final"}, state : {"open", "abandoned", "answered"}]
Boards == [phase : {"loading", "open"}, loaded : Seq(Points), shown : Seq(Points), last : Nat]

TypeOK ==
    /\ now \in Nat \ {0} /\ run \in Nat /\ up \subseteq Nodes
    /\ data \in [Nodes -> Nat] /\ flushes \in [Nodes -> Nat]
    /\ changeLog \in [Nodes -> SUBSET Pushed]
    /\ loop \in [Nodes -> {"off", "asleep", "waiting"}]
    /\ final \in [Nodes -> {"no", "waiting", "ok", "failed"}]
    /\ requests \subseteq Requests
    /\ cache \in Seq(Points) /\ history \in Seq(Points)
    /\ nameToId \subseteq Containers
    /\ resourceCache \subseteq [key : Containers, of : Containers]
    /\ listing \in [at : Nat, containers : SUBSET Containers]
    /\ board \in [Dashboards -> Boards]
    /\ received \in [Nodes -> SUBSET Nat] /\ leftWith \in [Nodes -> Nat]

\* A listing names one container per node, and a reading is kept under the
\* container it was made of.
OneRun(C) == \A c, e \in C : c[2] = e[2]

ContainersSound ==
    /\ OneRun(listing.containers) /\ OneRun(nameToId)
    /\ \A r \in resourceCache : r.of = r.key

\* A request whose answer the node still takes is of a running node; that of
\* its last push carries what the node was left with.
StopSound ==
    /\ \A n \in Nodes \ up : final[n] = "no"
    /\ \A r \in requests : r.state # "abandoned" =>
         LET n == r.point.node
         IN  /\ n \in up /\ r.point.run = run
             /\ r.by = "final" => /\ final[n] = "waiting"
                                  /\ r.point.value = leftWith[n]
                                  /\ r.state = "answered" => leftWith[n] \in received[n]
    /\ FinalPushArrives

\* The point the manager makes of a push.
PointOf(r) == [id |-> <<r.point.node, r.point.run, r.point.seq>>,
               timestamp |-> r.point.timestamp]

\* All points that are kept or shown somewhere.
Kept == Range(history) \cup Range(cache)
          \cup UNION {Range(board[d].loaded) \cup Range(board[d].shown) : d \in Dashboards}

\* A push is received once: its point is not yet known.
PointsSound ==
    /\ \A p \in Kept : p.id[3] <= flushes[p.id[1]] /\ p.timestamp <= now
    /\ \A r \in requests : /\ r.point.seq <= flushes[r.point.node]
                           /\ r.point.timestamp <= now
                           /\ r.state # "answered" => PointOf(r) \notin Kept
    /\ \A r, s \in requests : PointOf(r) = PointOf(s) => r = s

\* What a dashboard has loaded of the history is at the same place there, and
\* what it shows is not newer than the last it has seen.
BoardsSound ==
    /\ IsInjective(history) /\ IsInjective(cache)
    /\ \A d \in Dashboards :
         LET b == board[d]
         IN  /\ IsInjective(b.loaded)
             /\ \A i \in DOMAIN b.loaded, j \in DOMAIN history :
                  b.loaded[i] = history[j] => i = j
             /\ \A i \in DOMAIN b.shown : b.shown[i].timestamp <= b.last
             /\ b.last <= now
    /\ NoPointTwice

IInv == TypeOK /\ ContainersSound /\ StopSound /\ PointsSound /\ BoardsSound

-----------------------------------------------------------------------------
(* Operators of the model. *)

LEMMA LeastOf ==
    ASSUME NEW T, T \subseteq Nat, T # {}
    PROVE  \E x \in T : \A y \in T : x <= y
<1>1. PICK x \in T : \A y \in T : ~(<<y, x>> \in OpToRel(<, Nat))
  BY WFMin, NatLessThanWellFounded
<1>2. ASSUME NEW y \in T PROVE x <= y
  <2>1. x \in Nat /\ y \in Nat OBVIOUS
  <2>2. ~(y < x) BY <1>1, <2>1 DEF OpToRel
  <2> QED BY <2>1, <2>2
<1> QED BY <1>2

LEMMA GreatestOf ==
    ASSUME NEW T, T \subseteq Nat, T # {}, NEW bound \in Nat, \A y \in T : y <= bound
    PROVE  \E x \in T : \A y \in T : y <= x
<1> DEFINE above == { k \in Nat : \A y \in T : y <= k }
<1>1. PICK m \in above : \A k \in above : m <= k
  <2>1. above \subseteq Nat /\ above # {} OBVIOUS
  <2> HIDE DEF above
  <2> QED BY <2>1, LeastOf
<1>2. CASE m \in T
  BY <1>1, <1>2
<1>3. CASE m \notin T
  <2>1. \A y \in T : y < m BY <1>1, <1>3
  <2>2. m \in Nat /\ m > 0
    <3>1. PICK y \in T : TRUE OBVIOUS
    <3>2. y \in Nat /\ m \in Nat /\ y < m BY <1>1, <2>1, <3>1
    <3> QED BY <3>2
  <2>3. m - 1 \in above BY <1>1, <2>1, <2>2
  <2> HIDE DEF above
  <2>4. m \in Nat BY <1>1 DEF above
  <2> QED BY <1>1, <2>3, <2>4
<1> QED BY <1>2, <1>3

LEMMA SeqIs ==
    ASSUME NEW S, NEW s \in Seq(S)
    PROVE  Len(s) \in Nat /\ DOMAIN s = 1..Len(s) /\ \A i \in DOMAIN s : s[i] \in S
BY LenProperties, ElementOfSeq

\* The newest of some points and of what was shown before.
LEMMA LatestIs ==
    ASSUME NEW s \in Seq(Points), NEW last \in Nat, NEW bound \in Nat,
           last <= bound, \A i \in DOMAIN s : s[i].timestamp <= bound
    PROVE  /\ Latest(s, last) \in Nat
           /\ last <= Latest(s, last) /\ Latest(s, last) <= bound
           /\ \A i \in DOMAIN s : s[i].timestamp <= Latest(s, last)
           /\ Latest(s, last) = 0 => s = <<>>
<1> DEFINE T == TimestampsOf(s) \cup {last}
<1>1. T \subseteq Nat /\ T # {} /\ \A y \in T : y <= bound
  <2>1. \A i \in DOMAIN s : s[i] \in Points BY SeqIs
  <2> QED BY <2>1 DEF TimestampsOf, Points
<1>2. \E x \in T : \A y \in T : y <= x
  <2> HIDE DEF T
  <2> QED BY <1>1, GreatestOf
<1>3. Latest(s, last) \in T /\ \A y \in T : y <= Latest(s, last)
  BY <1>2 DEF Latest
<1>4. \A i \in DOMAIN s : s[i].timestamp \in T /\ s[i].timestamp > 0
  <2>1. \A i \in DOMAIN s : s[i] \in Points BY SeqIs
  <2> QED BY <2>1 DEF TimestampsOf, Points
<1>5. last \in T OBVIOUS
<1> HIDE DEF T
<1>6. ASSUME Latest(s, last) = 0 PROVE s = <<>>
  <2>1. ASSUME NEW i \in DOMAIN s PROVE FALSE
    <3>1. s[i].timestamp \in Nat /\ s[i].timestamp > 0 /\ s[i].timestamp <= 0
      BY <1>1, <1>3, <1>4, <1>6
    <3> QED BY <3>1
  <2>2. Len(s) \in Nat /\ DOMAIN s = 1..Len(s) BY SeqIs
  <2>3. Len(s) = 0
    <3>1. Len(s) > 0 => 1 \in DOMAIN s BY <2>2
    <3> QED BY <2>1, <2>2, <3>1
  <2> QED BY <2>3, EmptySeq
<1> QED BY <1>1, <1>3, <1>4, <1>5, <1>6

\* Every finite set of numbers has a first, a second ... element.
LEMMA NthExists ==
    ASSUME NEW n \in Nat, NEW I \in SUBSET (1..n), NEW k \in 1..Cardinality(I)
    PROVE  \E i \in I : Cardinality({ j \in I : j <= i }) = k
<1> DEFINE upTo(m) == { j \in I : j <= m }
           big == { m \in 0..n : Cardinality(upTo(m)) >= k }
<1>1. IsFiniteSet(I) /\ Cardinality(I) \in Nat
  <2>1. IsFiniteSet(1..n) BY FS_Interval
  <2> QED BY <2>1, FS_Subset, FS_CardinalityType
<1>2. \A m \in 0..n : IsFiniteSet(upTo(m)) /\ Cardinality(upTo(m)) \in Nat
  <2> TAKE m \in 0..n
  <2>1. upTo(m) \subseteq I OBVIOUS
  <2> HIDE DEF upTo
  <2> QED BY <1>1, <2>1, FS_Subset, FS_CardinalityType
<1>3. n \in big
  <2>1. upTo(n) = I
    <3>1. \A j \in I : j <= n OBVIOUS
    <3> QED BY <3>1, Zenon
  <2> QED BY <1>1, <2>1
<1>4. PICK m \in big : \A y \in big : m <= y
  <2>1. big \subseteq Nat /\ big # {} BY <1>3
  <2> HIDE DEF big
  <2> QED BY <2>1, LeastOf
<1>5. m > 0
  <2>1. upTo(0) = {}
    <3>1. \A j \in I : ~(j <= 0) OBVIOUS
    <3> QED BY <3>1, Zenon
  <2>2. Cardinality(upTo(0)) = 0 BY <2>1, FS_EmptySet
  <2> HIDE DEF upTo
  <2> QED BY <2>2
<1>6. m - 1 \in 0..n /\ m - 1 \notin big /\ m \in 0..n
  <2>1. m \in 0..n OBVIOUS
  <2> HIDE DEF big
  <2> QED BY <1>4, <1>5, <2>1
<1>7. Cardinality(upTo(m - 1)) < k /\ Cardinality(upTo(m)) >= k
  <2> HIDE DEF upTo
  <2> QED BY <1>2, <1>6
<1>8. upTo(m) = upTo(m - 1) \cup (I \cap {m})
  <2>1. \A j \in I : j \in Nat /\ m \in Nat
    <3>1. \A j \in I : j \in 1..n OBVIOUS
    <3> QED BY <1>6, <3>1
  <2>2. \A j \in I : j <= m <=> (j <= m - 1 \/ j = m) BY <2>1
  <2> QED BY <2>2
<1>9. m \in I
  <2>1. ASSUME m \notin I PROVE FALSE
    <3>1. upTo(m) = upTo(m - 1) BY <1>8, <2>1
    <3> HIDE DEF upTo
    <3> QED BY <1>2, <1>6, <1>7, <3>1
  <2> QED BY <2>1
<1>10. Cardinality(upTo(m)) = Cardinality(upTo(m - 1)) + 1
  <2>1. upTo(m) = upTo(m - 1) \cup {m} /\ m \notin upTo(m - 1) BY <1>6, <1>8, <1>9
  <2> HIDE DEF upTo, big
  <2> QED BY <1>2, <1>6, <2>1, FS_AddElement
<1>11. Cardinality(upTo(m)) = k
  <2> HIDE DEF upTo, big
  <2> QED BY <1>2, <1>6, <1>7, <1>10
<1> QED BY <1>9, <1>11

\* filter keeps elements it is told to, each once.
LEMMA SelectIs ==
    ASSUME NEW S, NEW s \in Seq(S), NEW I \in SUBSET (DOMAIN s)
    PROVE  /\ Select(s, I) \in Seq(S)
           /\ \A k \in DOMAIN Select(s, I) : \E i \in I : Select(s, I)[k] = s[i]
           /\ IsInjective(s) => IsInjective(Select(s, I))
<1> DEFINE Nth(k) == CHOOSE i \in I : Cardinality({ j \in I : j <= i }) = k
<1>1. Len(s) \in Nat /\ DOMAIN s = 1..Len(s) /\ \A i \in DOMAIN s : s[i] \in S
  BY SeqIs
<1>2. IsFiniteSet(I) /\ Cardinality(I) \in Nat
  <2>1. IsFiniteSet(1..Len(s)) BY <1>1, FS_Interval
  <2>2. I \subseteq 1..Len(s) BY <1>1
  <2> QED BY <2>1, <2>2, FS_Subset, FS_CardinalityType
<1>3. \A k \in 1..Cardinality(I) :
        Nth(k) \in I /\ Cardinality({ j \in I : j <= Nth(k) }) = k
  <2> TAKE k \in 1..Cardinality(I)
  <2>1. I \in SUBSET (1..Len(s)) BY <1>1
  <2>2. \E i \in I : Cardinality({ j \in I : j <= i }) = k
    BY <1>1, <2>1, NthExists
  <2> QED BY <2>2
<1>4. Select(s, I) = [k \in 1..Cardinality(I) |-> s[Nth(k)]]
  BY DEF Select
<1> HIDE DEF Nth
<1>5. Select(s, I) \in [1..Cardinality(I) -> S]
  <2>1. \A k \in 1..Cardinality(I) : s[Nth(k)] \in S BY <1>1, <1>3
  <2> QED BY <1>4, <2>1
<1>6. Select(s, I) \in Seq(S) BY <1>2, <1>5, SeqDef
<1>7. DOMAIN Select(s, I) = 1..Cardinality(I) BY <1>5
<1>8. ASSUME IsInjective(s), NEW k \in 1..Cardinality(I), NEW l \in 1..Cardinality(I),
             Select(s, I)[k] = Select(s, I)[l]
      PROVE  k = l
  <2>1. s[Nth(k)] = s[Nth(l)] BY <1>4, <1>8
  <2>2. Nth(k) = Nth(l) BY <1>3, <1>8, <2>1 DEF IsInjective
  <2> QED BY <1>3, <2>2
<1> QED BY <1>3, <1>4, <1>6, <1>7, <1>8 DEF IsInjective

-----------------------------------------------------------------------------
(* What the steps do. *)

LEMMA RunOf ==
    ASSUME TypeOK, NEW r \in requests
    PROVE  /\ r \in Requests /\ r.point \in Pushed /\ r.point.node \in Nodes
           /\ r.by \in {"loop", "final"}
           /\ r.state \in {"open", "abandoned", "answered"}
BY DEF TypeOK, Requests, Pushed

\* A flush makes one point, with the next number, and posts it.
LEMMA FlushIs ==
    ASSUME TypeOK, NEW n \in Nodes, NEW by \in {"loop", "final"},
           Flush(n), Post(n, by)
    PROVE  /\ changeLog' \in [Nodes -> SUBSET Pushed]
           /\ flushes' \in [Nodes -> Nat]
           /\ changeLog'[n] = {Flushed(n)} /\ Flushed(n) \in Pushed
           /\ flushes'[n] = flushes[n] + 1
           /\ \A m \in Nodes \ {n} : flushes'[m] = flushes[m]
           /\ requests' = requests \cup
                { [point |-> Flushed(n), by |-> by, state |-> "open"] }
           /\ [point |-> Flushed(n), by |-> by, state |-> "open"] \in Requests
<1>1. Flushed(n) \in Pushed BY DEF TypeOK, Flushed, Pushed
<1>2. /\ changeLog' = [changeLog EXCEPT ![n] = {Flushed(n)}]
      /\ flushes' = [flushes EXCEPT ![n] = @ + 1]
  BY DEF Flush
<1> DEFINE p == Flushed(n)
<1>3. changeLog'[n] = {p} BY <1>2 DEF TypeOK
<1>4. requests' = requests \cup { [point |-> p, by |-> by, state |-> "open"] }
  <2> HIDE DEF p
  <2> QED BY <1>3 DEF Post
<1>5. [point |-> p, by |-> by, state |-> "open"] \in Requests
  <2> HIDE DEF p
  <2> QED BY <1>1 DEF Requests, p
<1> QED BY <1>1, <1>2, <1>3, <1>4, <1>5 DEF TypeOK

\* The requests of X end or are given up; the others stay as they are.
Withdrawn(X) == requests' \subseteq (requests \ X) \cup GivenUp(X)

LEMMA GivenUpIs ==
    ASSUME TypeOK, NEW X \in SUBSET requests, NEW q \in GivenUp(X)
    PROVE  /\ q \in Requests /\ q.state = "abandoned"
           /\ \E o \in X : /\ o.state # "answered" /\ o.point = q.point /\ o.by = q.by
                           /\ q = [o EXCEPT !.state = "abandoned"]
<1>1. PICK o \in X : o.state # "answered" /\ q = [o EXCEPT !.state = "abandoned"]
  BY DEF GivenUp
<1>2. o \in Requests BY DEF TypeOK
<1>3. q \in Requests /\ q.state = "abandoned" /\ o.point = q.point /\ o.by = q.by
  BY <1>1, <1>2 DEF Requests
<1> QED BY <1>1, <1>3

LEMMA WithdrawnIs ==
    ASSUME TypeOK, NEW X \in SUBSET requests, Withdrawn(X)
    PROVE  /\ requests' \subseteq Requests
           /\ \A q \in requests' :
                \/ q \in requests \ X
                \/ /\ q.state = "abandoned"
                   /\ \E o \in X : /\ o.state # "answered"
                                   /\ o.point = q.point /\ o.by = q.by
                                   /\ q = [o EXCEPT !.state = "abandoned"]
<1>1. \A q \in requests' : q \in requests \ X \/ q \in GivenUp(X)
  BY DEF Withdrawn
<1>2. requests \subseteq Requests BY DEF TypeOK
<1> QED BY <1>1, <1>2, GivenUpIs

\* With the answer to a last push, or its failure, the loop's is given up.
LEMMA RestIs ==
    ASSUME TypeOK, NEW r \in requests, NEW keep, keep \subseteq GivenUp({r})
    PROVE  \E X \in SUBSET requests :
             /\ r \in X
             /\ r.by = "final" =>
                  \A q \in requests : q.point.node = r.point.node => q \in X
             /\ Rest(r, keep) \subseteq (requests \ X) \cup GivenUp(X)
<1> DEFINE own == { q \in requests \ {r} : q.point.node = r.point.node }
<1>1. \A X, Y : X \subseteq Y => GivenUp(X) \subseteq GivenUp(Y)
  BY DEF GivenUp
<1>2. CASE r.by = "loop"
  <2>1. Rest(r, keep) \subseteq (requests \ {r}) \cup GivenUp({r})
    BY <1>2 DEF Rest
  <2> QED BY <1>2, <2>1
<1>3. CASE r.by # "loop"
  <2> DEFINE X == {r} \cup own
  <2>1. Rest(r, keep) = keep \cup (requests \ ({r} \cup own)) \cup GivenUp(own)
    BY <1>3 DEF Rest
  <2>2. GivenUp({r}) \subseteq GivenUp(X) /\ GivenUp(own) \subseteq GivenUp(X)
    <3>1. {r} \subseteq X /\ own \subseteq X OBVIOUS
    <3> HIDE DEF X, own
    <3> QED BY <1>1, <3>1
  <2>3. Rest(r, keep) \subseteq (requests \ X) \cup GivenUp(X)
    <3> HIDE DEF own
    <3> QED BY <2>1, <2>2
  <2>4. \A q \in requests : q.point.node = r.point.node => q \in X
    OBVIOUS
  <2>5. X \in SUBSET requests /\ r \in X OBVIOUS
  <2> HIDE DEF X
  <2> QED BY <2>3, <2>4, <2>5
<1> QED BY <1>2, <1>3

LEMMA PushEnds ==
    ASSUME TypeOK, NEW r \in requests, PushAnswered(r) \/ PushFails(r)
    PROVE  \E X \in SUBSET requests :
             /\ r \in X
             /\ r.by = "final" =>
                  \A q \in requests : q.point.node = r.point.node => q \in X
             /\ Withdrawn(X)
<1>1. PICK keep \in {{}, GivenUp({r})} : requests' = Rest(r, keep)
  BY DEF PushAnswered, PushFails
<1> QED BY <1>1, RestIs DEF Withdrawn

LEMMA GoneWithdraws ==
    ASSUME TypeOK, NEW n \in Nodes, Gone(n)
    PROVE  \E X \in SUBSET requests :
             /\ \A q \in requests : q.point.node = n => q \in X
             /\ Withdrawn(X)
<1> DEFINE own == { r \in requests : r.point.node = n }
<1>1. requests' = (requests \ own) \cup GivenUp(own)
  BY DEF Gone
<1>2. own \in SUBSET requests /\ \A q \in requests : q.point.node = n => q \in own
  OBVIOUS
<1> HIDE DEF own
<1> QED BY <1>1, <1>2 DEF Withdrawn

\* What the end of a push does to the node.
LEMMA EndsIs ==
    ASSUME TypeOK, NEW n \in Nodes, NEW by \in {"loop", "final"},
           NEW how \in {"ok", "failed"}, Ends(n, by, how)
    PROVE  /\ loop' \in [Nodes -> {"off", "asleep", "waiting"}]
           /\ final' \in [Nodes -> {"no", "waiting", "ok", "failed"}]
           /\ \A m \in Nodes \ {n} : final'[m] = final[m]
           /\ final'[n] = IF by = "loop" THEN final[n] ELSE how
           /\ by = "loop" => final' = final
<1>1. CASE by = "loop"
  <2>1. /\ loop' = [loop EXCEPT ![n] = IF @ = "waiting" THEN "asleep" ELSE @]
        /\ final' = final
    BY <1>1 DEF Ends
  <2> QED BY <1>1, <2>1 DEF TypeOK
<1>2. CASE by # "loop"
  <2>1. /\ loop' = [loop EXCEPT ![n] = "off"]
        /\ final' = [final EXCEPT ![n] = how]
    BY <1>2 DEF Ends
  <2> QED BY <1>2, <2>1 DEF TypeOK
<1> QED BY <1>1, <1>2

\* The point of a received push, and what becomes of its request.
LEMMA ReceivedIs ==
    ASSUME TypeOK, NEW r \in requests, ReceivePush(r)
    PROVE  /\ PointOf(r) \in Points
           /\ r.state # "answered"
           /\ cache' = Append(cache, PointOf(r)) /\ history' = Append(history, PointOf(r))
           /\ requests' \subseteq Requests
           /\ \A q \in requests' :
                \/ q \in requests \ {r}
                \/ /\ r.state = "open" /\ q.state = "answered"
                   /\ q.point = r.point /\ q.by = r.by
                   /\ q = [r EXCEPT !.state = "answered"]
<1>1. r \in Requests /\ requests \subseteq Requests BY DEF TypeOK
<1>2. PointOf(r) \in Points BY <1>1 DEF PointOf, Points, Requests, Pushed
<1>3. [r EXCEPT !.state = "answered"] \in Requests
  BY <1>1 DEF Requests
<1>4. /\ r.state # "answered"
      /\ requests' = (requests \ {r}) \cup
           (IF r.state = "open" THEN {[r EXCEPT !.state = "answered"]} ELSE {})
      /\ cache' = Append(cache, PointOf(r)) /\ history' = Append(history, PointOf(r))
  BY DEF ReceivePush, PointOf
<1>5. \A q \in requests' : \/ q \in requests \ {r}
                           \/ r.state = "open" /\ q = [r EXCEPT !.state = "answered"]
  BY <1>4
<1>6. [r EXCEPT !.state = "answered"].state = "answered"
      /\ [r EXCEPT !.state = "answered"].point = r.point
      /\ [r EXCEPT !.state = "answered"].by = r.by
  BY <1>1 DEF Requests
<1> QED BY <1>1, <1>2, <1>3, <1>4, <1>5, <1>6

\* A page goes on where the dashboard's copy of the history ends; the last one
\* makes it the points shown.
LEMMA LoadIs ==
    ASSUME TypeOK, PointsSound, NEW d \in Dashboards, LoadPage(d)
    PROVE  \E points \in Seq(Points), new \in Boards :
             /\ board' = [board EXCEPT ![d] = new]
             /\ \A i \in DOMAIN points :
                  \/ i \in DOMAIN board[d].loaded /\ points[i] = board[d].loaded[i]
                  \/ i \in DOMAIN history /\ points[i] = history[i]
             /\ \/ /\ new.loaded = points /\ new.shown = board[d].shown
                   /\ new.last = board[d].last
                \/ /\ new.loaded = <<>> /\ new.shown = points
                   /\ new.last <= now
                   /\ \A i \in DOMAIN points : points[i].timestamp <= new.last
<1> DEFINE b == board[d]
           L == Len(b.loaded)
           more == SubSeq(history, L + 1, PageEnd(L))
           points == b.loaded \o more
           last == LastOfHistory(points)
           new == IF PageEnd(L) < Len(history)
                  THEN [b EXCEPT !.loaded = points]
                  ELSE [phase |-> "open", loaded |-> <<>>, shown |-> points, last |-> last]
<1>1. b \in Boards /\ b.loaded \in Seq(Points) /\ history \in Seq(Points) /\ now \in Nat
  BY DEF TypeOK, Boards
<1>2. /\ L \in Nat /\ DOMAIN b.loaded = 1..L /\ \A i \in 1..L : b.loaded[i] \in Points
      /\ Len(history) \in Nat /\ DOMAIN history = 1..Len(history)
      /\ \A i \in 1..Len(history) : history[i] \in Points
  BY <1>1, SeqIs
<1>3. PageEnd(L) \in Nat /\ PageEnd(L) <= Len(history)
  BY <1>2, MetricsAssumption DEF PageEnd
<1> DEFINE e == PageEnd(L)
<1>4. /\ more \in Seq(Points) /\ Len(more) \in Nat /\ Len(more) <= Len(history)
      /\ \A i \in 1..Len(more) : L + i \in DOMAIN history /\ more[i] = history[L + i]
  <2> HIDE DEF L, e
  <2>1. CASE L + 1 <= e
    <3>1. /\ Len(more) = e - L
          /\ \A i \in 1..(e - L) : more[i] = history[L + i]
          /\ more \in Seq(Points)
      BY <1>1, <1>2, <1>3, <2>1, SubSeqProperties DEF e
    <3> HIDE DEF more
    <3> QED BY <1>2, <1>3, <3>1 DEF e
  <2>2. CASE ~(L + 1 <= e)
    <3>1. more = <<>>
      BY <1>1, <1>2, <1>3, <2>2, SubSeqProperties DEF e
    <3> HIDE DEF more
    <3> QED BY <1>2, <3>1
  <2> QED BY <2>1, <2>2
<1>5. /\ points \in Seq(Points) /\ Len(points) = L + Len(more)
      /\ \A i \in 1..Len(points) :
           points[i] = IF i <= L THEN b.loaded[i] ELSE more[i - L]
  <2> HIDE DEF b, more
  <2> QED BY <1>1, <1>4, ConcatProperties
<1>6. \A i \in DOMAIN points :
        \/ i \in DOMAIN b.loaded /\ points[i] = b.loaded[i]
        \/ i \in DOMAIN history /\ points[i] = history[i]
  <2> TAKE i \in DOMAIN points
  <2> HIDE DEF L, b, more, points
  <2>1. i \in 1..Len(points) BY <1>5, SeqIs
  <2>2. CASE i <= L
    BY <1>2, <1>5, <2>1, <2>2
  <2>3. CASE ~(i <= L)
    <3>1. i - L \in 1..Len(more) /\ L + (i - L) = i BY <1>2, <1>4, <1>5, <2>1, <2>3
    <3>2. points[i] = more[i - L] BY <1>5, <2>1, <2>3
    <3>3. L + (i - L) \in DOMAIN history /\ more[i - L] = history[L + (i - L)]
      BY <1>4, <3>1
    <3> QED BY <3>1, <3>2, <3>3
  <2> QED BY <2>2, <2>3
<1>7. \A i \in DOMAIN points : points[i].timestamp <= now
  <2> TAKE i \in DOMAIN points
  <2> HIDE DEF points, L
  <2>1. points[i] \in Kept
    <3>1. points[i] \in Range(history) \/ points[i] \in Range(board[d].loaded)
      BY <1>6 DEF Range
    <3> QED BY <3>1 DEF Kept
  <2> QED BY <2>1 DEF PointsSound
<1>8. /\ last \in Nat /\ last <= now
      /\ \A i \in DOMAIN points : points[i].timestamp <= last
  <2> HIDE DEF points
  <2>1. 0 \in Nat /\ 0 <= now BY <1>1
  <2>2. last = Latest(points, 0) BY DEF LastOfHistory
  <2> HIDE DEF last
  <2>3. /\ Latest(points, 0) \in Nat /\ Latest(points, 0) <= now
        /\ \A i \in DOMAIN points : points[i].timestamp <= Latest(points, 0)
    BY <1>1, <1>5, <1>7, <2>1, LatestIs
  <2> QED BY <2>2, <2>3
<1>9. board' = [board EXCEPT ![d] = new]
  BY DEF LoadPage
<1> HIDE DEF L, more, points, last
<1>10. CASE PageEnd(L) < Len(history)
  <2>1. new = [b EXCEPT !.loaded = points] BY <1>10
  <2>2. /\ new \in Boards /\ new.loaded = points /\ new.shown = b.shown
        /\ new.last = b.last
    BY <1>1, <1>5, <2>1 DEF Boards
  <2> HIDE DEF new
  <2> QED BY <1>5, <1>6, <1>9, <2>2
<1>11. CASE ~(PageEnd(L) < Len(history))
  <2>1. new = [phase |-> "open", loaded |-> <<>>, shown |-> points, last |-> last]
    BY <1>11
  <2>2. new \in Boards /\ new.loaded = <<>> /\ new.shown = points /\ new.last = last
    BY <1>5, <1>8, <2>1 DEF Boards
  <2> HIDE DEF new
  <2> QED BY <1>5, <1>6, <1>8, <1>9, <2>2
<1> QED BY <1>10, <1>11

\* Of the points of the stream those are shown that are newer than the newest
\* shown, or all when nothing was shown before.
LEMMA StreamIs ==
    ASSUME TypeOK, PointsSound, BoardsSound, NEW d \in Dashboards, Stream(d)
    PROVE  \E fresh \in Seq(Points), new \in Boards :
             /\ board' = [board EXCEPT ![d] = new]
             /\ cache' = <<>>
             /\ IsInjective(fresh)
             /\ \A i \in DOMAIN fresh :
                  /\ fresh[i] \in Range(cache)
                  /\ board[d].last = 0 \/ fresh[i].timestamp > board[d].last
             /\ new.loaded = board[d].loaded
             /\ new.shown = board[d].shown \o fresh
             /\ board[d].last <= new.last /\ new.last <= now
             /\ \A i \in DOMAIN fresh : fresh[i].timestamp <= new.last
<1> DEFINE b == board[d]
           newer == { i \in DOMAIN cache : b.last = 0 \/ cache[i].timestamp > b.last }
           fresh == Select(cache, newer)
           new == [b EXCEPT !.shown = @ \o fresh, !.last = Latest(fresh, @)]
<1>1. /\ b \in Boards /\ b.shown \in Seq(Points) /\ cache \in Seq(Points)
      /\ now \in Nat /\ b.last \in Nat /\ b.last <= now
  BY DEF TypeOK, Boards, BoardsSound
<1>2. /\ fresh \in Seq(Points) /\ IsInjective(fresh)
      /\ \A k \in DOMAIN fresh : \E i \in newer : fresh[k] = cache[i]
  <2>1. newer \in SUBSET (DOMAIN cache) /\ IsInjective(cache)
    BY DEF BoardsSound
  <2> HIDE DEF newer
  <2> QED BY <1>1, <2>1, SelectIs
<1>3. \A k \in DOMAIN fresh :
        /\ fresh[k] \in Range(cache)
        /\ b.last = 0 \/ fresh[k].timestamp > b.last
        /\ fresh[k].timestamp <= now
  <2> TAKE k \in DOMAIN fresh
  <2> HIDE DEF fresh
  <2>1. PICK i \in newer : fresh[k] = cache[i] BY <1>2
  <2>2. cache[i] \in Range(cache) BY DEF Range
  <2>3. fresh[k] \in Kept BY <2>1, <2>2 DEF Kept
  <2>4. fresh[k].timestamp <= now BY <2>3 DEF PointsSound
  <2> QED BY <2>1, <2>2, <2>4
<1> HIDE DEF fresh
<1>4. /\ Latest(fresh, b.last) \in Nat /\ b.last <= Latest(fresh, b.last)
      /\ Latest(fresh, b.last) <= now
      /\ \A i \in DOMAIN fresh : fresh[i].timestamp <= Latest(fresh, b.last)
  BY <1>1, <1>2, <1>3, LatestIs
<1>5. cache' = <<>> /\ board' = [board EXCEPT ![d].shown = @ \o fresh,
                                              ![d].last = Latest(fresh, @)]
  BY DEF Stream, fresh
<1>6. board' = [board EXCEPT ![d] = new]
  BY <1>1, <1>5 DEF TypeOK, Boards
<1>7. b.shown \o fresh \in Seq(Points) BY <1>1, <1>2
<1>8. /\ new \in Boards /\ new.loaded = b.loaded /\ new.shown = b.shown \o fresh
      /\ new.last = Latest(fresh, b.last)
  BY <1>1, <1>4, <1>7 DEF Boards
<1> HIDE DEF new
<1>9. b.last <= new.last /\ new.last <= now
      /\ \A i \in DOMAIN fresh : fresh[i].timestamp <= new.last
  BY <1>4, <1>8
<1>10. cache' = <<>> BY <1>5
<1> QED BY <1>2, <1>3, <1>6, <1>8, <1>9, <1>10, Zenon

-----------------------------------------------------------------------------
(* Types, and the readings of the containers. *)

LEMMA BoardType ==
    ASSUME TypeOK, NEW d \in Dashboards
    PROVE  /\ board[d] \in Boards
           /\ board[d].loaded \in Seq(Points) /\ board[d].shown \in Seq(Points)
           /\ board[d].last \in Nat
BY DEF TypeOK, Boards

LEMMA TypeStep == IInv /\ [Next]_vars => TypeOK'
<1> SUFFICES ASSUME IInv, [Next]_vars PROVE TypeOK'
  OBVIOUS
<1> USE DEF nodeVars, managerVars
<1>0. TypeOK /\ PointsSound /\ BoardsSound BY DEF IInv
<1>1. ASSUME Tick PROVE TypeOK'
  BY <1>0, <1>1 DEF TypeOK, Tick
<1>2. ASSUME ListContainers PROVE TypeOK'
  <2>1. { <<n, run>> : n \in up } \subseteq Containers
    BY <1>0 DEF TypeOK, Containers
  <2>2. listing' \in [at : Nat, containers : SUBSET Containers]
    BY <1>0, <1>2, <2>1 DEF TypeOK, ListContainers
  <2> QED BY <1>0, <1>2, <2>2 DEF TypeOK, ListContainers
<1>3. ASSUME Launch PROVE TypeOK'
  BY <1>0, <1>3 DEF TypeOK, Launch
<1>4. ASSUME Clear PROVE TypeOK'
  <2>1. <<>> \in Seq(Points) BY EmptySeq
  <2> QED BY <1>0, <1>4, <2>1 DEF TypeOK, Clear
<1>5. ASSUME NEW n \in Nodes, Change(n) PROVE TypeOK'
  BY <1>0, <1>5 DEF TypeOK, Change
<1>6. ASSUME NEW n \in Nodes, PushLoop(n) PROVE TypeOK'
  <2>1. /\ changeLog' \in [Nodes -> SUBSET Pushed] /\ flushes' \in [Nodes -> Nat]
        /\ requests' \subseteq Requests
    BY <1>0, <1>6, FlushIs DEF PushLoop, TypeOK
  <2>2. loop' \in [Nodes -> {"off", "asleep", "waiting"}]
    BY <1>0, <1>6 DEF TypeOK, PushLoop
  <2> QED BY <1>0, <1>6, <2>1, <2>2 DEF TypeOK, PushLoop
<1>7. ASSUME NEW n \in Nodes, StopPushLoop(n) PROVE TypeOK'
  <2>1. /\ changeLog' \in [Nodes -> SUBSET Pushed] /\ flushes' \in [Nodes -> Nat]
        /\ requests' \subseteq Requests
    BY <1>0, <1>7, FlushIs DEF StopPushLoop, LastPush, TypeOK
  <2>2. /\ final' \in [Nodes -> {"no", "waiting", "ok", "failed"}]
        /\ leftWith' \in [Nodes -> Nat]
    BY <1>0, <1>7 DEF TypeOK, StopPushLoop
  <2> QED BY <1>0, <1>7, <2>1, <2>2 DEF TypeOK, StopPushLoop
<1>8. ASSUME NEW n \in Nodes, Gone(n) PROVE TypeOK'
  <2>1. requests' \subseteq Requests
    BY <1>0, <1>8, GoneWithdraws, WithdrawnIs
  <2>2. {} \subseteq Pushed /\ {} \subseteq Nat OBVIOUS
  <2> QED BY <1>0, <1>8, <2>1, <2>2 DEF TypeOK, Gone
<1>9. ASSUME NEW r \in requests, PushAnswered(r) \/ PushFails(r) PROVE TypeOK'
  <2>1. requests' \subseteq Requests
    BY <1>0, <1>9, PushEnds, WithdrawnIs
  <2>2. r.point.node \in Nodes /\ r.by \in {"loop", "final"} BY <1>0, RunOf
  <2>3. /\ loop' \in [Nodes -> {"off", "asleep", "waiting"}]
        /\ final' \in [Nodes -> {"no", "waiting", "ok", "failed"}]
    <3>1. Ends(r.point.node, r.by, "ok") \/ Ends(r.point.node, r.by, "failed")
      BY <1>9 DEF PushAnswered, PushFails
    <3> QED BY <1>0, <2>2, <3>1, EndsIs
  <2>4. changeLog' \in [Nodes -> SUBSET Pushed]
    <3>1. \/ changeLog' = changeLog
          \/ changeLog' = [changeLog EXCEPT ![r.point.node] = {}]
      BY <1>9 DEF PushAnswered, PushFails
    <3> QED BY <1>0, <3>1 DEF TypeOK
  <2>5. UNCHANGED <<now, run, up, data, flushes, leftWith, managerVars, board>>
    BY <1>9 DEF PushAnswered, PushFails
  <2> QED BY <1>0, <2>1, <2>3, <2>4, <2>5 DEF TypeOK
<1>10. ASSUME NEW r \in requests, ReceivePush(r) PROVE TypeOK'
  <2>1. /\ PointOf(r) \in Points /\ requests' \subseteq Requests
        /\ cache' = Append(cache, PointOf(r)) /\ history' = Append(history, PointOf(r))
    BY <1>0, <1>10, ReceivedIs
  <2>2. cache' \in Seq(Points) /\ history' \in Seq(Points)
    BY <1>0, <2>1, AppendProperties DEF TypeOK
  <2>3. received' \in [Nodes -> SUBSET Nat]
    <3>1. r.point.value \in Nat /\ r.point.node \in Nodes
      BY <1>0, RunOf DEF Pushed
    <3>2. \/ received' = received
          \/ received' = [received EXCEPT ![r.point.node] = @ \cup {r.point.value}]
      <4>1. received' = [received EXCEPT ![r.point.node] =
              IF r.point.node \in up /\ r.point.run = run
              THEN @ \cup {r.point.value} ELSE @]
        BY <1>10 DEF ReceivePush
      <4> QED BY <1>0, <4>1 DEF TypeOK
    <3>3. received \in [Nodes -> SUBSET Nat] BY <1>0 DEF TypeOK
    <3>4. received[r.point.node] \cup {r.point.value} \in SUBSET Nat
      BY <3>1, <3>3
    <3> QED BY <3>1, <3>2, <3>3, <3>4
  <2> QED BY <1>0, <1>10, <2>1, <2>2, <2>3 DEF TypeOK, ReceivePush
<1>11. ASSUME NEW readable \in SUBSET listing.containers, StoreListing(readable)
       PROVE  TypeOK'
  <2>1. listing.containers \subseteq Containers /\ readable \subseteq Containers
    BY <1>0 DEF TypeOK
  <2>2. \A s \in { [key |-> Key(c), of |-> c] : c \in readable } :
          s \in [key : Containers, of : Containers]
    BY <2>1 DEF Key
  <2>3. resourceCache' \subseteq [key : Containers, of : Containers]
    BY <1>0, <1>11, <2>2 DEF TypeOK, StoreListing
  <2>4. nameToId' \subseteq Containers BY <1>11, <2>1 DEF StoreListing
  <2>5. listing' \in [at : Nat, containers : SUBSET Containers]
    <3>1. listing' = [at |-> 0, containers |-> {}] BY <1>11 DEF StoreListing, None
    <3> QED BY <3>1
  <2>6. UNCHANGED <<now, run, up, nodeVars, requests, cache, history, received, board>>
    BY <1>11 DEF StoreListing
  <2> QED BY <1>0, <2>3, <2>4, <2>5, <2>6 DEF TypeOK
<1>12. ASSUME NEW d \in Dashboards, LoadPage(d) PROVE TypeOK'
  <2>1. board' \in [Dashboards -> Boards]
    BY <1>0, <1>12, LoadIs DEF TypeOK
  <2> QED BY <1>0, <1>12, <2>1 DEF TypeOK, LoadPage
<1>13. ASSUME NEW d \in Dashboards, Stream(d) PROVE TypeOK'
  <2>1. board' \in [Dashboards -> Boards] /\ cache' \in Seq(Points)
    <3>1. PICK new \in Boards : board' = [board EXCEPT ![d] = new] /\ cache' = <<>>
      BY <1>0, <1>13, StreamIs
    <3> QED BY <1>0, <3>1, EmptySeq DEF TypeOK
  <2> QED BY <1>0, <1>13, <2>1 DEF TypeOK, Stream
<1>14. ASSUME NEW d \in Dashboards, ClearBoard(d) PROVE TypeOK'
  <2>1. board' \in [Dashboards -> Boards]
    <3>1. <<>> \in Seq(Points) /\ 0 \in Nat BY EmptySeq
    <3>2. board \in [Dashboards -> Boards] BY <1>0 DEF TypeOK
    <3>3. [[board[d] EXCEPT !.shown = <<>>] EXCEPT !.last = 0] \in Boards
      BY <3>1, <3>2 DEF Boards
    <3>4. board' = [board EXCEPT ![d] = [[board[d] EXCEPT !.shown = <<>>] EXCEPT !.last = 0]]
      BY <1>14, <3>2 DEF ClearBoard, Boards
    <3> QED BY <3>2, <3>3, <3>4
  <2> QED BY <1>0, <1>14, <2>1 DEF TypeOK, ClearBoard
<1>15. CASE UNCHANGED vars
  BY <1>0, <1>15 DEF TypeOK, vars
<1> QED
  BY <1>1, <1>2, <1>3, <1>4, <1>5, <1>6, <1>7, <1>8, <1>9, <1>10, <1>11, <1>12,
     <1>13, <1>14, <1>15, Zenon DEF Next

LEMMA ContainersStep == TypeOK /\ ContainersSound /\ [Next]_vars => ContainersSound'
<1> SUFFICES ASSUME TypeOK, ContainersSound, [Next]_vars PROVE ContainersSound'
  OBVIOUS
<1>1. ASSUME UNCHANGED <<listing, nameToId, resourceCache>> PROVE ContainersSound'
  BY <1>1 DEF ContainersSound, OneRun
<1>2. ASSUME ListContainers PROVE ContainersSound'
  <2>1. /\ listing'.containers = { <<n, run>> : n \in up }
        /\ UNCHANGED <<nameToId, resourceCache>>
    BY <1>2 DEF ListContainers
  <2>2. OneRun(listing'.containers) BY <2>1 DEF OneRun
  <2> QED BY <2>1, <2>2 DEF ContainersSound, OneRun
<1>3. ASSUME Clear PROVE ContainersSound'
  BY <1>3 DEF ContainersSound, OneRun, Clear
<1>4. ASSUME NEW readable \in SUBSET listing.containers, StoreListing(readable)
      PROVE  ContainersSound'
  <2>1. listing'.containers = {} /\ nameToId' = listing.containers
    BY <1>4 DEF StoreListing, None
  <2>2. \A r \in resourceCache' :
          r \in resourceCache \/ \E c \in readable : r = [key |-> c, of |-> c]
    BY <1>4 DEF StoreListing, Key
  <2> QED BY <2>1, <2>2 DEF ContainersSound, OneRun
<1>5. CASE \/ Tick \/ Launch
           \/ \E n \in Nodes : Change(n) \/ PushLoop(n) \/ StopPushLoop(n) \/ Gone(n)
           \/ \E r \in requests : PushAnswered(r) \/ PushFails(r) \/ ReceivePush(r)
           \/ \E d \in Dashboards : LoadPage(d) \/ Stream(d) \/ ClearBoard(d)
           \/ UNCHANGED vars
  <2>1. UNCHANGED <<listing, nameToId, resourceCache>>
    BY <1>5 DEF Tick, Launch, Change, PushLoop, StopPushLoop, Gone, PushAnswered,
                PushFails, ReceivePush, LoadPage, Stream, ClearBoard, vars, managerVars
  <2> QED BY <1>1, <2>1
<1> QED BY <1>2, <1>3, <1>4, <1>5, Zenon DEF Next

-----------------------------------------------------------------------------
(* The last push. *)

\* What StopSound says of a request whose answer is still taken.
Live(r) == r.state # "abandoned"
Accounted(r) ==
    /\ r.point.node \in up /\ r.point.run = run
    /\ r.by = "final" =>
         /\ final[r.point.node] = "waiting"
         /\ r.point.value = leftWith[r.point.node]
         /\ r.state = "answered" => leftWith[r.point.node] \in received[r.point.node]

LEMMA StopSoundIs ==
    StopSound <=> /\ \A n \in Nodes \ up : final[n] = "no"
                  /\ \A r \in requests : Live(r) => Accounted(r)
                  /\ FinalPushArrives
BY DEF StopSound, Live, Accounted

\* Nothing a request is accounted by is taken back.
LEMMA StaysAccounted ==
    ASSUME NEW r, Accounted(r), r.point.node \in up', run' = run,
           r.by = "final" => /\ final'[r.point.node] = final[r.point.node]
                             /\ leftWith'[r.point.node] = leftWith[r.point.node]
                             /\ received[r.point.node] \subseteq received'[r.point.node]
    PROVE  Accounted(r)'
BY DEF Accounted

LEMMA StopStep == TypeOK /\ StopSound /\ [Next]_vars => StopSound'
<1> SUFFICES ASSUME TypeOK, StopSound, [Next]_vars PROVE StopSound'
  OBVIOUS
<1> USE DEF nodeVars, managerVars
<1>0. /\ \A n \in Nodes \ up : final[n] = "no"
      /\ \A r \in requests : Live(r) => Accounted(r)
      /\ FinalPushArrives
  BY StopSoundIs
<1>s. ASSUME \A n \in Nodes \ up' : final'[n] = "no",
             \A r \in requests' : Live(r) => Accounted(r)',
             FinalPushArrives'
      PROVE  StopSound'
  BY <1>s DEF StopSound, Live, Accounted
<1>1. ASSUME UNCHANGED <<run, up, final, requests, leftWith, received>> PROVE StopSound'
  BY <1>1 DEF StopSound, FinalPushArrives
<1>2. ASSUME Launch PROVE StopSound'
  <2>1. \A r \in requests : ~Live(r) BY <1>0, <1>2 DEF Launch, Accounted
  <2>2. \A n \in Nodes : final'[n] = "no" BY <1>0, <1>2 DEF Launch
  <2>3. FinalPushArrives'
    BY <1>2, <2>2 DEF FinalPushArrives, Launch
  <2>4. requests' = requests BY <1>2 DEF Launch
  <2> QED BY <1>s, <2>1, <2>2, <2>3, <2>4
<1>3. ASSUME NEW n \in Nodes, PushLoop(n) PROVE StopSound'
  <2>0. PICK new \in Requests :
          /\ new = [point |-> Flushed(n), by |-> "loop", state |-> "open"]
          /\ requests' = requests \cup {new}
    BY <1>3, FlushIs DEF PushLoop
  <2>1. n \in up /\ UNCHANGED <<run, up, final, leftWith, received>>
    BY <1>3 DEF PushLoop
  <2>2. \A r \in requests' : Live(r) => Accounted(r)'
    <3>1. new.point.node = n /\ new.point.run = run /\ new.by = "loop"
      BY <2>0 DEF Flushed
    <3>3. Accounted(new)' BY <2>1, <3>1 DEF Accounted
    <3>2. \A r \in requests : Live(r) => Accounted(r)'
      BY <1>0, <2>1 DEF Accounted
    <3> QED BY <2>0, <3>2, <3>3
  <2> QED BY <1>0, <1>s, <2>1, <2>2 DEF FinalPushArrives
<1>4. ASSUME NEW n \in Nodes, StopPushLoop(n) PROVE StopSound'
  <2>0. PICK new \in Requests :
          /\ new = [point |-> Flushed(n), by |-> "final", state |-> "open"]
          /\ requests' = requests \cup {new}
    BY <1>4, FlushIs DEF StopPushLoop, LastPush
  <2>1. /\ n \in up /\ final[n] = "no"
        /\ changeLog'[n] # {}
        /\ UNCHANGED <<run, up, received>>
        /\ leftWith' = [leftWith EXCEPT ![n] = data[n]]
    BY <1>4, FlushIs DEF StopPushLoop, LastPush
  <2>2. final' = [final EXCEPT ![n] = "waiting"]
    <3>1. final' = [final EXCEPT ![n] = IF changeLog'[n] = {} THEN "ok" ELSE "waiting"]
      BY <1>4 DEF StopPushLoop
    <3> QED BY <2>1, <3>1
  <2>3. /\ final'[n] = "waiting" /\ leftWith'[n] = data[n]
        /\ \A m \in Nodes \ {n} : final'[m] = final[m] /\ leftWith'[m] = leftWith[m]
    BY <2>1, <2>2 DEF TypeOK
  <2>4. /\ new.point.node = n /\ new.point.run = run /\ new.state = "open"
        /\ new.point.value = data[n]
    BY <2>0 DEF Flushed
  <2>5. Accounted(new)'
    BY <2>1, <2>3, <2>4 DEF Accounted
  <2>6. ASSUME NEW r \in requests, Live(r) PROVE Accounted(r)'
    <3>1. Accounted(r) BY <1>0, <2>6
    <3>2. r.point.node \in Nodes BY RunOf
    <3>3. r.by = "final" => r.point.node # n
      BY <2>1, <3>1 DEF Accounted
    <3> QED BY <2>1, <2>3, <3>1, <3>2, <3>3, StaysAccounted DEF Accounted
  <2>7. \A r \in requests' : Live(r) => Accounted(r)'
    BY <2>0, <2>5, <2>6
  <2>8. \A m \in Nodes \ up' : final'[m] = "no"
    BY <1>0, <2>1, <2>3
  <2>9. FinalPushArrives'
    <3>1. up \subseteq Nodes BY DEF TypeOK
    <3> QED BY <1>0, <2>1, <2>3, <3>1 DEF FinalPushArrives
  <2> QED BY <1>s, <2>7, <2>8, <2>9
<1>5. ASSUME NEW n \in Nodes, Gone(n) PROVE StopSound'
  <2>1. /\ up' = up \ {n} /\ run' = run
        /\ final' = [final EXCEPT ![n] = "no"]
        /\ leftWith' = [leftWith EXCEPT ![n] = 0]
        /\ received' = [received EXCEPT ![n] = {}]
    BY <1>5 DEF Gone
  <2>2. /\ final'[n] = "no"
        /\ \A m \in Nodes \ {n} : /\ final'[m] = final[m]
                                  /\ leftWith'[m] = leftWith[m]
                                  /\ received'[m] = received[m]
    BY <2>1 DEF TypeOK
  <2>3. PICK X \in SUBSET requests :
          /\ \A q \in requests : q.point.node = n => q \in X
          /\ Withdrawn(X)
    BY <1>5, GoneWithdraws
  <2>4. ASSUME NEW r \in requests', Live(r) PROVE Accounted(r)'
    <3>1. r \in requests \ X BY <2>3, <2>4, WithdrawnIs DEF Live
    <3>2. r.point.node \in Nodes \ {n} BY <2>3, <3>1, RunOf
    <3>3. Accounted(r) BY <1>0, <2>4, <3>1
    <3> QED BY <2>1, <2>2, <3>2, <3>3, StaysAccounted DEF Accounted
  <2>5. \A m \in Nodes \ up' : final'[m] = "no"
    BY <1>0, <2>1, <2>2
  <2>6. FinalPushArrives'
    <3>1. up \subseteq Nodes BY DEF TypeOK
    <3> QED BY <1>0, <2>1, <2>2, <3>1 DEF FinalPushArrives
  <2> QED BY <1>s, <2>4, <2>5, <2>6
<1>6. ASSUME NEW r \in requests, PushAnswered(r) \/ PushFails(r) PROVE StopSound'
  <2> DEFINE n == r.point.node
  <2>1. UNCHANGED <<run, up, leftWith, received>>
    BY <1>6 DEF PushAnswered, PushFails
  <2>2. PICK X \in SUBSET requests :
          /\ r \in X
          /\ r.by = "final" =>
               \A q \in requests : q.point.node = n => q \in X
          /\ Withdrawn(X)
    BY <1>6, PushEnds
  <2>3. n \in Nodes /\ r.by \in {"loop", "final"} BY RunOf
  <2>4. PICK how \in {"ok", "failed"} :
          /\ Ends(n, r.by, how)
          /\ how = "ok" => r.state = "answered"
    BY <1>6 DEF PushAnswered, PushFails
  <2>5. Live(r)
    BY <1>6 DEF PushAnswered, PushFails, Live
  <2>6. Accounted(r) BY <1>0, <2>5
  <2>7. /\ \A m \in Nodes \ {n} : final'[m] = final[m]
        /\ final'[n] = IF r.by = "loop" THEN final[n] ELSE how
    BY <2>3, <2>4, EndsIs
  <2>8. ASSUME NEW q \in requests', Live(q) PROVE Accounted(q)'
    <3>1. q \in requests \ X BY <2>2, <2>8, WithdrawnIs DEF Live
    <3>2. q.point.node \in Nodes BY <3>1, RunOf
    <3>3. r.by = "final" => q.point.node # n BY <2>2, <3>1
    <3>4. final'[q.point.node] = final[q.point.node]
      BY <2>3, <2>7, <3>2, <3>3
    <3>5. Accounted(q) BY <1>0, <2>8, <3>1
    <3> QED BY <2>1, <3>4, <3>5, StaysAccounted DEF Accounted
  <2>9. \A m \in Nodes \ up' : final'[m] = "no"
    <3>1. n \in up BY <2>6 DEF Accounted
    <3> QED BY <1>0, <2>1, <2>7, <3>1
  <2>10. FinalPushArrives'
    <3>1. up \subseteq Nodes BY DEF TypeOK
    <3>2. final'[n] = "ok" => leftWith[n] \in received[n]
      BY <1>0, <2>3, <2>4, <2>6, <2>7 DEF FinalPushArrives, Accounted
    <3> HIDE DEF n
    <3> QED BY <1>0, <2>1, <2>7, <3>1, <3>2 DEF FinalPushArrives
  <2> QED BY <1>s, <2>8, <2>9, <2>10
<1>7. ASSUME NEW r \in requests, ReceivePush(r) PROVE StopSound'
  <2> DEFINE n == r.point.node
  <2>1. UNCHANGED <<run, up, final, leftWith>>
    BY <1>7 DEF ReceivePush
  <2>2. \A q \in requests' :
          \/ q \in requests \ {r}
          \/ /\ r.state = "open" /\ q.state = "answered"
             /\ q.point = r.point /\ q.by = r.by
    BY <1>7, ReceivedIs
  <2>3. n \in Nodes BY RunOf
  <2>4. /\ \A m \in Nodes : received[m] \subseteq received'[m]
        /\ n \in up /\ r.point.run = run => r.point.value \in received'[n]
    <3>1. received' = [received EXCEPT ![n] = IF n \in up /\ r.point.run = run
                                              THEN @ \cup {r.point.value} ELSE @]
      BY <1>7 DEF ReceivePush
    <3> HIDE DEF n
    <3> QED BY <2>3, <3>1 DEF TypeOK
  <2>5. ASSUME NEW q \in requests', Live(q) PROVE Accounted(q)'
    <3>1. CASE q \in requests \ {r}
      <4>1. Accounted(q) /\ q.point.node \in Nodes BY <1>0, <2>5, <3>1, RunOf
      <4> QED BY <2>1, <2>4, <4>1, StaysAccounted DEF Accounted
    <3>2. CASE r.state = "open" /\ q.point = r.point /\ q.by = r.by
      <4>1. Accounted(r) BY <1>0, <3>2 DEF Live
      <4> QED BY <2>1, <2>4, <3>2, <4>1 DEF Accounted
    <3> QED BY <2>2, <3>1, <3>2
  <2>6. FinalPushArrives'
    <3>1. up \subseteq Nodes BY DEF TypeOK
    <3> QED BY <1>0, <2>1, <2>4, <3>1 DEF FinalPushArrives
  <2> QED BY <1>0, <1>s, <2>1, <2>5, <2>6
<1>8. CASE \/ Tick \/ ListContainers \/ Clear
           \/ \E n \in Nodes : Change(n)
           \/ \E readable \in SUBSET listing.containers : StoreListing(readable)
           \/ \E d \in Dashboards : LoadPage(d) \/ Stream(d) \/ ClearBoard(d)
           \/ UNCHANGED vars
  <2>1. UNCHANGED <<run, up, final, requests, leftWith, received>>
    BY <1>8 DEF Tick, ListContainers, Clear, Change, StoreListing, LoadPage, Stream,
                ClearBoard, vars
  <2> QED BY <1>1, <2>1
<1> QED BY <1>2, <1>3, <1>4, <1>5, <1>6, <1>7, <1>8, Zenon DEF Next

-----------------------------------------------------------------------------
(* Where a point may be found. *)

LEMMA KeptType == ASSUME TypeOK PROVE Kept \subseteq Points
<1>1. history \in Seq(Points) /\ cache \in Seq(Points) BY DEF TypeOK
<1>2. Range(history) \subseteq Points /\ Range(cache) \subseteq Points
  BY <1>1, SeqIs DEF Range
<1>3. ASSUME NEW d \in Dashboards
      PROVE  Range(board[d].loaded) \subseteq Points /\ Range(board[d].shown) \subseteq Points
  <2>1. board[d].loaded \in Seq(Points) /\ board[d].shown \in Seq(Points)
    BY BoardType
  <2> QED BY <2>1, SeqIs DEF Range
<1> QED BY <1>2, <1>3 DEF Kept

\* Points are copied from where they are kept to where they are kept, except
\* for the one that is received.
LEMMA KeptMoves ==
    ASSUME IInv, [Next]_vars
    PROVE  \/ Kept' \subseteq Kept
           \/ \E r \in requests : ReceivePush(r) /\ Kept' \subseteq Kept \cup {PointOf(r)}
<1> USE DEF nodeVars, managerVars
<1>0. TypeOK /\ PointsSound /\ BoardsSound BY DEF IInv
<1>1. ASSUME UNCHANGED <<history, cache, board>> PROVE Kept' \subseteq Kept
  BY <1>1 DEF Kept
<1>2. ASSUME Clear PROVE Kept' \subseteq Kept
  <2>1. /\ \A i \in DOMAIN <<>> : FALSE
        /\ history' = <<>> /\ cache' = <<>> /\ board' = board
    BY <1>2 DEF Clear
  <2> QED BY <2>1 DEF Kept, Range
<1>3. ASSUME NEW d \in Dashboards, NEW new \in Boards, board' = [board EXCEPT ![d] = new],
             Range(history') \subseteq Kept, Range(cache') \subseteq Kept,
             Range(new.loaded) \subseteq Kept, Range(new.shown) \subseteq Kept
      PROVE  Kept' \subseteq Kept
  <2>1. board'[d] = new BY <1>0, <1>3 DEF TypeOK
  <2>2. \A e \in Dashboards \ {d} : board'[e] = board[e] BY <1>0, <1>3 DEF TypeOK
  <2>3. ASSUME NEW e \in Dashboards
        PROVE  Range(board'[e].loaded) \cup Range(board'[e].shown) \subseteq Kept
    <3>1. CASE e = d BY <1>3, <2>1, <3>1
    <3>2. CASE e # d
      <4>1. board'[e] = board[e] BY <2>2, <3>2
      <4> QED BY <4>1 DEF Kept
    <3> QED BY <3>1, <3>2
  <2>4. \A p \in Kept' :
          \/ p \in Range(history') \/ p \in Range(cache')
          \/ \E e \in Dashboards : p \in Range(board'[e].loaded) \cup Range(board'[e].shown)
    BY DEF Kept
  <2> QED BY <1>3, <2>3, <2>4
<1>h. /\ Range(history) \subseteq Kept /\ Range(cache) \subseteq Kept
      /\ \A d \in Dashboards : /\ Range(board[d].loaded) \subseteq Kept
                               /\ Range(board[d].shown) \subseteq Kept
  BY DEF Kept
<1>4. ASSUME NEW d \in Dashboards, LoadPage(d) PROVE Kept' \subseteq Kept
  <2>1. UNCHANGED <<history, cache>> BY <1>4 DEF LoadPage
  <2>2. PICK points \in Seq(Points), new \in Boards :
          /\ board' = [board EXCEPT ![d] = new]
          /\ \A i \in DOMAIN points :
               \/ i \in DOMAIN board[d].loaded /\ points[i] = board[d].loaded[i]
               \/ i \in DOMAIN history /\ points[i] = history[i]
          /\ \/ new.loaded = points /\ new.shown = board[d].shown
             \/ new.loaded = <<>> /\ new.shown = points
    BY <1>0, <1>4, LoadIs
  <2>3. Range(points) \subseteq Kept
    <3>1. \A i \in DOMAIN points :
            points[i] \in Range(board[d].loaded) \cup Range(history)
      BY <2>2 DEF Range
    <3>2. Range(points) \subseteq Range(board[d].loaded) \cup Range(history)
      BY <3>1 DEF Range
    <3> QED BY <1>h, <3>2
  <2>4. Range(<<>>) \subseteq Kept
    <3>1. \A i \in DOMAIN <<>> : FALSE OBVIOUS
    <3> QED BY <3>1 DEF Range
  <2>5. Range(new.loaded) \subseteq Kept /\ Range(new.shown) \subseteq Kept
    <3>1. CASE new.loaded = points /\ new.shown = board[d].shown
      BY <1>h, <2>3, <3>1
    <3>2. CASE new.loaded = <<>> /\ new.shown = points
      BY <2>3, <2>4, <3>2
    <3> QED BY <2>2, <3>1, <3>2
  <2>6. Range(history') \subseteq Kept /\ Range(cache') \subseteq Kept
    BY <1>h, <2>1
  <2> QED BY <1>3, <2>2, <2>5, <2>6
<1>5. ASSUME NEW d \in Dashboards, Stream(d) PROVE Kept' \subseteq Kept
  <2>1. UNCHANGED history BY <1>5 DEF Stream
  <2>2. PICK fresh \in Seq(Points), new \in Boards :
          /\ board' = [board EXCEPT ![d] = new]
          /\ cache' = <<>>
          /\ \A i \in DOMAIN fresh : fresh[i] \in Range(cache)
          /\ new.loaded = board[d].loaded
          /\ new.shown = board[d].shown \o fresh
    BY <1>0, <1>5, StreamIs
  <2>3. Range(new.shown) \subseteq Range(board[d].shown) \cup Range(fresh)
    BY <1>0, <2>2, BoardType, RangeConcatenation
  <2>4. Range(fresh) \subseteq Range(cache) BY <2>2 DEF Range
  <2>5. Range(<<>>) \subseteq Kept
    <3>1. \A i \in DOMAIN <<>> : FALSE OBVIOUS
    <3> QED BY <3>1 DEF Range
  <2>6. /\ Range(new.loaded) \subseteq Kept /\ Range(new.shown) \subseteq Kept
        /\ Range(history') \subseteq Kept /\ Range(cache') \subseteq Kept
    BY <1>h, <2>1, <2>2, <2>3, <2>4, <2>5
  <2> QED BY <1>3, <2>2, <2>6
<1>6. ASSUME NEW d \in Dashboards, ClearBoard(d) PROVE Kept' \subseteq Kept
  <2>1. /\ UNCHANGED <<history, cache>>
        /\ board' = [board EXCEPT ![d].shown = <<>>, ![d].last = 0]
    BY <1>6 DEF ClearBoard
  <2>2. PICK new \in Boards : /\ board' = [board EXCEPT ![d] = new]
                              /\ new.loaded = board[d].loaded /\ new.shown = <<>>
    <3>1. board[d] \in Boards /\ <<>> \in Seq(Points) BY <1>0, BoardType, EmptySeq
    <3>2. board' = [board EXCEPT ![d] = [board[d] EXCEPT !.shown = <<>>, !.last = 0]]
      BY <1>0, <2>1, <3>1 DEF TypeOK, Boards
    <3>3. /\ [board[d] EXCEPT !.shown = <<>>, !.last = 0] \in Boards
          /\ [board[d] EXCEPT !.shown = <<>>, !.last = 0].loaded = board[d].loaded
          /\ [board[d] EXCEPT !.shown = <<>>, !.last = 0].shown = <<>>
      BY <3>1 DEF Boards
    <3> QED BY <3>2, <3>3
  <2>3. Range(<<>>) \subseteq Kept
    <3>1. \A i \in DOMAIN <<>> : FALSE OBVIOUS
    <3> QED BY <3>1 DEF Range
  <2>4. /\ Range(new.loaded) \subseteq Kept /\ Range(new.shown) \subseteq Kept
        /\ Range(history') \subseteq Kept /\ Range(cache') \subseteq Kept
    BY <1>h, <2>1, <2>2, <2>3
  <2> QED BY <1>3, <2>2, <2>4
<1>7. ASSUME NEW r \in requests, ReceivePush(r)
      PROVE  Kept' \subseteq Kept \cup {PointOf(r)}
  <2>1. /\ PointOf(r) \in Points
        /\ cache' = Append(cache, PointOf(r)) /\ history' = Append(history, PointOf(r))
        /\ board' = board
    BY <1>0, <1>7, ReceivedIs DEF ReceivePush
  <2>2. \A s \in Seq(Points) : Range(Append(s, PointOf(r))) \subseteq Range(s) \cup {PointOf(r)}
    <3> TAKE s \in Seq(Points)
    <3> DEFINE t == Append(s, PointOf(r))
    <3>1. /\ t \in Seq(Points) /\ Len(t) = Len(s) + 1 /\ Len(s) \in Nat
          /\ \A i \in 1..Len(s) : t[i] = s[i]
          /\ t[Len(s) + 1] = PointOf(r)
          /\ DOMAIN s = 1..Len(s)
      BY <2>1, AppendProperties, SeqIs
    <3>2. DOMAIN t = 1..Len(t) BY <3>1, SeqIs
    <3> HIDE DEF t
    <3>3. \A i \in DOMAIN t : i \in DOMAIN s \/ i = Len(s) + 1 BY <3>1, <3>2
    <3> QED BY <3>1, <3>3 DEF Range
  <2>3. history \in Seq(Points) /\ cache \in Seq(Points) BY <1>0 DEF TypeOK
  <2>4. /\ Range(history') \subseteq Range(history) \cup {PointOf(r)}
        /\ Range(cache') \subseteq Range(cache) \cup {PointOf(r)}
    BY <2>1, <2>2, <2>3
  <2> QED BY <2>1, <2>4 DEF Kept
<1>8. CASE \/ Tick \/ ListContainers \/ Launch
           \/ \E n \in Nodes : Change(n) \/ PushLoop(n) \/ StopPushLoop(n) \/ Gone(n)
           \/ \E r \in requests : PushAnswered(r) \/ PushFails(r)
           \/ \E readable \in SUBSET listing.containers : StoreListing(readable)
           \/ UNCHANGED vars
  <2>1. UNCHANGED <<history, cache, board>>
    BY <1>8 DEF Tick, ListContainers, Launch, Change, PushLoop, StopPushLoop, Gone,
                PushAnswered, PushFails, StoreListing, vars
  <2> QED BY <1>1, <2>1
<1> QED BY <1>2, <1>4, <1>5, <1>6, <1>7, <1>8, Zenon DEF Next

\* What PointsSound says of a point that is kept, and of a request.
KeptSound(p) == p.id[3] <= flushes[p.id[1]] /\ p.timestamp <= now
RequestSound(r) == /\ r.point.seq <= flushes[r.point.node]
                   /\ r.point.timestamp <= now
                   /\ r.state # "answered" => PointOf(r) \notin Kept

LEMMA PointsStep == IInv /\ [Next]_vars => PointsSound'
<1> SUFFICES ASSUME IInv, [Next]_vars PROVE PointsSound'
  OBVIOUS
<1> USE DEF nodeVars, managerVars
<1>0. TypeOK /\ PointsSound BY DEF IInv
<1>i. /\ \A p \in Kept : KeptSound(p)
      /\ \A r \in requests : RequestSound(r)
      /\ \A r, s \in requests : PointOf(r) = PointOf(s) => r = s
  BY <1>0 DEF PointsSound, KeptSound, RequestSound
<1>s. ASSUME \A p \in Kept' : KeptSound(p)',
             \A r \in requests' : RequestSound(r)',
             \A r, s \in requests' : PointOf(r) = PointOf(s) => r = s
      PROVE  PointsSound'
  BY <1>s DEF PointsSound, KeptSound, RequestSound, PointOf
<1>t. /\ Kept \subseteq Points /\ requests \subseteq Requests
      /\ flushes \in [Nodes -> Nat] /\ now \in Nat
      /\ \A p \in Points : p.id[1] \in Nodes /\ p.id[3] \in Nat /\ p.timestamp \in Nat
      /\ \A r \in Requests : /\ r.point.node \in Nodes /\ r.point.seq \in Nat
                             /\ r.point.timestamp \in Nat
      /\ \A r \in Requests : PointOf(r).id[1] = r.point.node /\ PointOf(r).id[3] = r.point.seq
                             /\ PointOf(r).timestamp = r.point.timestamp
  BY <1>0, KeptType DEF TypeOK, Points, Requests, Pushed, PointOf
<1>1. ASSUME UNCHANGED <<flushes, requests>>, now' \in Nat, now <= now', Kept' \subseteq Kept
      PROVE  PointsSound'
  <2>1. \A p \in Kept' : KeptSound(p)'
    BY <1>1, <1>i, <1>t DEF KeptSound
  <2>2. \A r \in requests' : RequestSound(r)'
    <3> SUFFICES ASSUME NEW r \in requests PROVE RequestSound(r)'
      BY <1>1
    <3>1. /\ RequestSound(r) /\ r.point.node \in Nodes
          /\ r.point.timestamp \in Nat
      BY <1>i, <1>t
    <3> QED BY <1>1, <1>t, <3>1 DEF RequestSound, PointOf
  <2> QED BY <1>1, <1>i, <1>s, <2>1, <2>2
\* The requests of X are withdrawn.
<1>2. ASSUME UNCHANGED <<flushes, now>>, Kept' \subseteq Kept,
             NEW X \in SUBSET requests, Withdrawn(X)
      PROVE  PointsSound'
  <2>1. \A q \in requests' :
          \/ q \in requests \ X
          \/ \E o \in X : /\ o.state # "answered" /\ o.point = q.point
                          /\ q = [o EXCEPT !.state = "abandoned"]
    BY <1>0, <1>2, WithdrawnIs
  <2>2. \A q \in requests' : \E o \in requests :
          /\ o.point = q.point
          /\ q.state # "answered" => o.state # "answered"
    BY <2>1
  <2>3. ASSUME NEW q \in requests' PROVE RequestSound(q)'
    <3>1. PICK o \in requests : /\ o.point = q.point
                                /\ q.state # "answered" => o.state # "answered"
      BY <2>2
    <3>2. RequestSound(o) BY <1>i
    <3> QED BY <1>2, <3>1, <3>2 DEF RequestSound, PointOf
  <2>4. ASSUME NEW q \in requests', NEW s \in requests', PointOf(q) = PointOf(s)
        PROVE  q = s
    <3>1. \A o, u \in requests : o.point = q.point /\ u.point = s.point => o = u
      BY <1>i, <2>4 DEF PointOf
    <3>2. CASE q \in requests \ X /\ s \in requests \ X
      BY <3>1, <3>2
    <3>3. CASE q \in requests \ X /\ s \notin requests \ X
      BY <2>1, <3>1, <3>3
    <3>4. CASE q \notin requests \ X /\ s \in requests \ X
      BY <2>1, <3>1, <3>4
    <3>5. CASE q \notin requests \ X /\ s \notin requests \ X
      BY <2>1, <3>1, <3>5
    <3> QED BY <3>2, <3>3, <3>4, <3>5
  <2>5. \A p \in Kept' : KeptSound(p)'
    BY <1>2, <1>i DEF KeptSound
  <2> QED BY <1>s, <2>3, <2>4, <2>5
\* A push is posted.
<1>3. ASSUME NEW n \in Nodes, NEW by \in {"loop", "final"}, Flush(n), Post(n, by),
             UNCHANGED <<now, history, cache, board>>
      PROVE  PointsSound'
  <2>1. PICK new \in Requests :
          /\ new = [point |-> Flushed(n), by |-> by, state |-> "open"]
          /\ requests' = requests \cup {new}
    BY <1>0, <1>3, FlushIs
  <2>2. /\ new.point.node = n /\ new.point.seq = flushes[n] + 1
        /\ new.point.timestamp = now
    BY <2>1 DEF Flushed
  <2>3. /\ flushes'[n] = flushes[n] + 1
        /\ \A m \in Nodes \ {n} : flushes'[m] = flushes[m]
        /\ \A m \in Nodes : flushes[m] <= flushes'[m] /\ flushes'[m] \in Nat
    <3>1. /\ flushes' \in [Nodes -> Nat] /\ flushes'[n] = flushes[n] + 1
          /\ \A m \in Nodes \ {n} : flushes'[m] = flushes[m]
      BY <1>0, <1>3, FlushIs
    <3>2. \A m \in Nodes : flushes[m] \in Nat /\ flushes'[m] \in Nat BY <1>t, <3>1
    <3>3. \A m \in Nodes : flushes[m] <= flushes'[m] BY <3>1, <3>2
    <3> QED BY <3>1, <3>2, <3>3
  <2>4. Kept' = Kept BY <1>3 DEF Kept
  <2>5. \A p \in Kept' : KeptSound(p)'
    <3> SUFFICES ASSUME NEW p \in Kept PROVE KeptSound(p)'
      BY <2>4
    <3>1. KeptSound(p) /\ p.id[1] \in Nodes /\ p.id[3] \in Nat BY <1>i, <1>t
    <3> QED BY <1>3, <1>t, <2>3, <3>1 DEF KeptSound
  <2>6. PointOf(new) \notin Kept
    <3>1. ASSUME PointOf(new) \in Kept PROVE FALSE
      <4>1. KeptSound(PointOf(new)) BY <1>i, <3>1
      <4>2. flushes[n] + 1 <= flushes[n] BY <1>t, <2>2, <4>1 DEF KeptSound
      <4> QED BY <1>t, <4>2
    <3> QED BY <3>1
  <2>7. ASSUME NEW q \in requests' PROVE RequestSound(q)'
    <3>1. CASE q \in requests
      <4>1. /\ RequestSound(q) /\ q.point.node \in Nodes /\ q.point.seq \in Nat
        BY <1>i, <1>t, <3>1
      <4> QED BY <1>3, <1>t, <2>3, <2>4, <4>1 DEF RequestSound, PointOf
    <3>2. CASE q = new
      BY <1>3, <1>t, <2>2, <2>3, <2>4, <2>6, <3>2 DEF RequestSound, PointOf
    <3> QED BY <2>1, <3>1, <3>2
  <2>8. \A q \in requests : PointOf(q) # PointOf(new)
    <3> TAKE q \in requests
    <3>1. RequestSound(q) /\ q \in Requests BY <1>i, <1>t
    <3>2. ASSUME PointOf(q) = PointOf(new) PROVE FALSE
      <4>1. q.point.node = n /\ q.point.seq = flushes[n] + 1
        BY <1>t, <2>2, <3>1, <3>2
      <4> QED BY <1>t, <3>1, <4>1 DEF RequestSound
    <3> QED BY <3>2
  <2> QED BY <1>i, <1>s, <2>1, <2>5, <2>7, <2>8
<1>4. ASSUME NEW r \in requests, ReceivePush(r), Kept' \subseteq Kept \cup {PointOf(r)}
      PROVE  PointsSound'
  <2>1. UNCHANGED <<now, flushes>> BY <1>4 DEF ReceivePush
  <2>2. \A q \in requests' :
          \/ q \in requests \ {r}
          \/ /\ q.state = "answered" /\ q.point = r.point
             /\ q = [r EXCEPT !.state = "answered"]
    BY <1>0, <1>4, ReceivedIs
  <2>3. \A p \in Kept' : KeptSound(p)'
    <3>1. KeptSound(PointOf(r)) BY <1>i, <1>t DEF KeptSound, RequestSound
    <3> QED BY <1>4, <1>i, <2>1, <3>1 DEF KeptSound
  <2>4. ASSUME NEW q \in requests' PROVE RequestSound(q)'
    <3>1. CASE q \in requests \ {r}
      <4>1. RequestSound(q) /\ PointOf(q) # PointOf(r) BY <1>i, <3>1
      <4> QED BY <1>4, <2>1, <4>1 DEF RequestSound, PointOf
    <3>2. CASE q.state = "answered" /\ q.point = r.point
      <4>1. RequestSound(r) BY <1>i
      <4> QED BY <2>1, <3>2, <4>1 DEF RequestSound
    <3> QED BY <2>2, <3>1, <3>2
  <2>5. ASSUME NEW q \in requests', NEW s \in requests', PointOf(q) = PointOf(s)
        PROVE  q = s
    <3>1. \A o, u \in requests : o.point = q.point /\ u.point = s.point => o = u
      BY <1>i, <2>5 DEF PointOf
    <3> QED BY <2>2, <3>1
  <2> QED BY <1>s, <2>3, <2>4, <2>5
<1>5. ASSUME NEW n \in Nodes, Gone(n) PROVE PointsSound'
  <2>1. UNCHANGED <<flushes, now, history, cache, board>> BY <1>5 DEF Gone
  <2>2. Kept' = Kept BY <2>1 DEF Kept
  <2> QED BY <1>0, <1>2, <1>5, <2>1, <2>2, GoneWithdraws
<1>6. ASSUME NEW r \in requests, PushAnswered(r) \/ PushFails(r) PROVE PointsSound'
  <2>1. UNCHANGED <<flushes, now, history, cache, board>>
    BY <1>6 DEF PushAnswered, PushFails
  <2>2. Kept' = Kept BY <2>1 DEF Kept
  <2> QED BY <1>0, <1>2, <1>6, <2>1, <2>2, PushEnds
<1>7. ASSUME NEW n \in Nodes, PushLoop(n) \/ StopPushLoop(n) PROVE PointsSound'
  <2>1. /\ Flush(n) /\ (Post(n, "loop") \/ Post(n, "final"))
        /\ UNCHANGED <<now, history, cache, board>>
    BY <1>7 DEF PushLoop, StopPushLoop, LastPush
  <2> QED BY <1>3, <2>1
<1>8. ASSUME NEW r \in requests, ReceivePush(r) PROVE PointsSound'
  <2>1. PICK q \in requests : \/ Kept' \subseteq Kept
                              \/ ReceivePush(q) /\ Kept' \subseteq Kept \cup {PointOf(q)}
    BY KeptMoves
  <2> QED BY <1>4, <1>8, <2>1
<1>9. CASE \/ Tick \/ ListContainers \/ Launch \/ Clear
           \/ \E n \in Nodes : Change(n)
           \/ \E readable \in SUBSET listing.containers : StoreListing(readable)
           \/ \E d \in Dashboards : LoadPage(d) \/ Stream(d) \/ ClearBoard(d)
           \/ UNCHANGED vars
  <2>1. UNCHANGED <<flushes, requests>> /\ (now' = now \/ now' = now + 1)
    BY <1>9 DEF Tick, ListContainers, Launch, Clear, Change, StoreListing, LoadPage,
                Stream, ClearBoard, vars
  <2>2. Kept' \subseteq Kept \/ \E r \in requests : ReceivePush(r)
    BY KeptMoves
  <2> QED BY <1>1, <1>8, <1>t, <2>1, <2>2
<1> QED BY <1>5, <1>6, <1>7, <1>8, <1>9, Zenon DEF Next

\* What BoardsSound says of a dashboard.
BoardSound(b) ==
    /\ IsInjective(b.loaded)
    /\ \A i \in DOMAIN b.loaded, j \in DOMAIN history : b.loaded[i] = history[j] => i = j
    /\ \A i \in DOMAIN b.shown : b.shown[i].timestamp <= b.last
    /\ b.last <= now
    /\ IsInjective(b.shown)

LEMMA BoardsSoundIs ==
    BoardsSound <=> /\ IsInjective(history) /\ IsInjective(cache)
                    /\ \A d \in Dashboards : BoardSound(board[d])
BY Zenon DEF BoardsSound, BoardSound, NoPointTwice

LEMMA EmptyInjective == IsInjective(<<>>) /\ \A i \in DOMAIN <<>> : FALSE
<1>1. \A i \in DOMAIN <<>> : FALSE OBVIOUS
<1> QED BY <1>1 DEF IsInjective

\* A point that is not yet known is appended.
LEMMA AppendKeepsInjective ==
    ASSUME NEW s \in Seq(Points), NEW p \in Points, IsInjective(s), p \notin Range(s)
    PROVE  IsInjective(Append(s, p))
<1> DEFINE t == Append(s, p)
<1>1. /\ t \in Seq(Points) /\ Len(t) = Len(s) + 1
      /\ \A i \in 1..Len(s) : t[i] = s[i]
      /\ t[Len(s) + 1] = p
  BY AppendProperties
<1>2. DOMAIN t = 1..Len(t) /\ DOMAIN s = 1..Len(s) /\ Len(s) \in Nat BY <1>1, SeqIs
<1>3. \A i \in DOMAIN s : s[i] # p BY DEF Range
<1> HIDE DEF t
<1>4. ASSUME NEW i \in DOMAIN t, NEW j \in DOMAIN t, t[i] = t[j] PROVE i = j
  <2>1. CASE i \in DOMAIN s /\ j \in DOMAIN s
    BY <1>1, <1>2, <1>4, <2>1 DEF IsInjective
  <2>2. CASE i \in DOMAIN s /\ j \notin DOMAIN s
    BY <1>1, <1>2, <1>3, <1>4, <2>2
  <2>3. CASE i \notin DOMAIN s /\ j \in DOMAIN s
    BY <1>1, <1>2, <1>3, <1>4, <2>3
  <2>4. CASE i \notin DOMAIN s /\ j \notin DOMAIN s
    BY <1>1, <1>2, <2>4
  <2> QED BY <2>1, <2>2, <2>3, <2>4
<1>5. IsInjective(t) BY <1>4 DEF IsInjective
<1> QED BY <1>5 DEF t

LEMMA ConcatKeepsInjective ==
    ASSUME NEW s \in Seq(Points), NEW t \in Seq(Points), IsInjective(s), IsInjective(t),
           \A i \in DOMAIN s, j \in DOMAIN t : s[i] # t[j]
    PROVE  IsInjective(s \o t)
<1> DEFINE u == s \o t
<1>1. /\ u \in Seq(Points) /\ Len(u) = Len(s) + Len(t)
      /\ \A i \in 1..(Len(s) + Len(t)) : u[i] = IF i <= Len(s) THEN s[i] ELSE t[i - Len(s)]
  BY ConcatProperties
<1>2. /\ DOMAIN u = 1..Len(u) /\ DOMAIN s = 1..Len(s) /\ DOMAIN t = 1..Len(t)
      /\ Len(s) \in Nat /\ Len(t) \in Nat
  BY <1>1, SeqIs
<1> HIDE DEF u
<1>3. \A i \in DOMAIN u : \/ i \in DOMAIN s /\ u[i] = s[i]
                          \/ i \notin DOMAIN s /\ i - Len(s) \in DOMAIN t
                             /\ u[i] = t[i - Len(s)] /\ i \in Nat
  <2> TAKE i \in DOMAIN u
  <2>1. i \in Nat /\ 1 <= i /\ i <= Len(s) + Len(t) BY <1>1, <1>2
  <2>2. CASE i <= Len(s) BY <1>1, <1>2, <2>1, <2>2
  <2>3. CASE ~(i <= Len(s))
    <3>1. i - Len(s) \in 1..Len(t) /\ i \notin 1..Len(s) BY <1>2, <2>1, <2>3
    <3>2. u[i] = t[i - Len(s)] BY <1>1, <2>1, <2>3
    <3> QED BY <1>2, <2>1, <3>1, <3>2
  <2> QED BY <2>2, <2>3
<1>4. ASSUME NEW i \in DOMAIN u, NEW j \in DOMAIN u, u[i] = u[j] PROVE i = j
  <2>1. CASE i \in DOMAIN s /\ j \in DOMAIN s
    BY <1>3, <1>4, <2>1 DEF IsInjective
  <2>2. CASE i \in DOMAIN s /\ j \notin DOMAIN s
    BY <1>3, <1>4, <2>2
  <2>3. CASE i \notin DOMAIN s /\ j \in DOMAIN s
    <3>1. u[j] = s[j] /\ u[i] = t[i - Len(s)] /\ i - Len(s) \in DOMAIN t BY <1>3, <2>3
    <3> QED BY <1>4, <2>3, <3>1
  <2>4. CASE i \notin DOMAIN s /\ j \notin DOMAIN s
    <3>1. /\ i - Len(s) \in DOMAIN t /\ j - Len(s) \in DOMAIN t
          /\ u[i] = t[i - Len(s)] /\ u[j] = t[j - Len(s)] /\ i \in Nat /\ j \in Nat
      BY <1>3, <2>4
    <3>2. i - Len(s) = j - Len(s) BY <1>4, <3>1 DEF IsInjective
    <3> QED BY <1>2, <3>1, <3>2
  <2> QED BY <2>1, <2>2, <2>3, <2>4
<1> QED BY <1>4 DEF IsInjective, u

\* A page of the history continues its copy without a point twice.
LEMMA LoadKeeps ==
    ASSUME IInv, NEW d \in Dashboards, LoadPage(d) PROVE BoardsSound'
<1>0. TypeOK /\ PointsSound /\ BoardsSound BY DEF IInv
<1>1. UNCHANGED <<history, cache, now>> BY DEF LoadPage, managerVars
<1>2. /\ IsInjective(history) /\ IsInjective(cache)
      /\ \A e \in Dashboards : BoardSound(board[e])
  BY <1>0, BoardsSoundIs
<1>3. PICK points \in Seq(Points), new \in Boards :
        /\ board' = [board EXCEPT ![d] = new]
        /\ \A i \in DOMAIN points :
             \/ i \in DOMAIN board[d].loaded /\ points[i] = board[d].loaded[i]
             \/ i \in DOMAIN history /\ points[i] = history[i]
        /\ \/ /\ new.loaded = points /\ new.shown = board[d].shown
              /\ new.last = board[d].last
           \/ /\ new.loaded = <<>> /\ new.shown = points
              /\ new.last <= now
              /\ \A i \in DOMAIN points : points[i].timestamp <= new.last
  BY <1>0, LoadIs
<1>4. BoardSound(board[d]) BY <1>2
<1>5. \A i \in DOMAIN points, j \in DOMAIN history : points[i] = history[j] => i = j
  BY <1>2, <1>3, <1>4 DEF BoardSound, IsInjective
<1>6. IsInjective(points)
  <2> SUFFICES ASSUME NEW i \in DOMAIN points, NEW j \in DOMAIN points,
                      points[i] = points[j]
               PROVE  i = j
    BY DEF IsInjective
  <2>1. CASE i \in DOMAIN history /\ points[i] = history[i]
    <3>1. points[j] = history[i] BY <2>1
    <3> QED BY <1>5, <2>1, <3>1
  <2>2. CASE j \in DOMAIN history /\ points[j] = history[j]
    BY <1>5, <2>2
  <2>3. CASE /\ i \in DOMAIN board[d].loaded /\ points[i] = board[d].loaded[i]
             /\ j \in DOMAIN board[d].loaded /\ points[j] = board[d].loaded[j]
    BY <1>4, <2>3 DEF BoardSound, IsInjective
  <2> QED BY <1>3, <2>1, <2>2, <2>3
<1>7. BoardSound(new)
  <2>1. CASE /\ new.loaded = points /\ new.shown = board[d].shown
             /\ new.last = board[d].last
    BY <1>4, <1>5, <1>6, <2>1 DEF BoardSound
  <2>2. CASE /\ new.loaded = <<>> /\ new.shown = points
             /\ new.last <= now
             /\ \A i \in DOMAIN points : points[i].timestamp <= new.last
    BY <1>6, <2>2, EmptyInjective DEF BoardSound
  <2> QED BY <1>3, <2>1, <2>2
<1>8. \A e \in Dashboards : BoardSound(board'[e])
  <2> TAKE e \in Dashboards
  <2>1. board'[e] = IF e = d THEN new ELSE board[e]
    BY <1>0, <1>3 DEF TypeOK
  <2> QED BY <1>2, <1>7, <2>1
<1>9. \A e \in Dashboards : BoardSound(board[e])'
  BY <1>1, <1>8 DEF BoardSound
<1>10. IsInjective(history') /\ IsInjective(cache') BY <1>1, <1>2
<1> QED BY <1>9, <1>10, Zenon DEF BoardsSound, BoardSound, NoPointTwice

\* What the stream adds is newer than all that is shown.
LEMMA StreamKeeps ==
    ASSUME IInv, NEW d \in Dashboards, Stream(d) PROVE BoardsSound'
<1>0. TypeOK /\ PointsSound /\ BoardsSound BY DEF IInv
<1>1. UNCHANGED <<history, now>> BY DEF Stream
<1>2. /\ IsInjective(history) /\ IsInjective(cache)
      /\ \A e \in Dashboards : BoardSound(board[e])
  BY <1>0, BoardsSoundIs
<1>3. PICK fresh \in Seq(Points), new \in Boards :
        /\ board' = [board EXCEPT ![d] = new]
        /\ cache' = <<>>
        /\ IsInjective(fresh)
        /\ \A i \in DOMAIN fresh :
             board[d].last = 0 \/ fresh[i].timestamp > board[d].last
        /\ new.loaded = board[d].loaded
        /\ new.shown = board[d].shown \o fresh
        /\ board[d].last <= new.last /\ new.last <= now
        /\ \A i \in DOMAIN fresh : fresh[i].timestamp <= new.last
  <2>1. \E fresh \in Seq(Points), new \in Boards :
             /\ board' = [board EXCEPT ![d] = new]
             /\ cache' = <<>>
             /\ IsInjective(fresh)
             /\ \A i \in DOMAIN fresh :
                  /\ fresh[i] \in Range(cache)
                  /\ board[d].last = 0 \/ fresh[i].timestamp > board[d].last
             /\ new.loaded = board[d].loaded
             /\ new.shown = board[d].shown \o fresh
             /\ board[d].last <= new.last /\ new.last <= now
             /\ \A i \in DOMAIN fresh : fresh[i].timestamp <= new.last
    BY <1>0, StreamIs
  <2> QED BY <2>1, Zenon
<1>4. BoardSound(board[d]) BY <1>2
<1> DEFINE shown == board[d].shown
           last == board[d].last
<1>5. /\ shown \in Seq(Points) /\ last \in Nat /\ new.last \in Nat /\ now \in Nat
      /\ \A i \in DOMAIN shown : shown[i].timestamp \in Nat \ {0}
      /\ \A i \in DOMAIN fresh : fresh[i].timestamp \in Nat \ {0}
  <2>1. shown \in Seq(Points) /\ last \in Nat BY <1>0, BoardType
  <2>2. \A p \in Points : p.timestamp \in Nat \ {0} BY DEF Points
  <2>3. \A i \in DOMAIN shown : shown[i] \in Points BY <2>1, SeqIs
  <2>4. \A i \in DOMAIN fresh : fresh[i] \in Points BY SeqIs
  <2>5. new.last \in Nat BY DEF Boards
  <2>6. now \in Nat BY <1>0 DEF TypeOK
  <2> HIDE DEF shown, last
  <2> QED BY <2>1, <2>2, <2>3, <2>4, <2>5, <2>6
<1>6. \A i \in DOMAIN shown, j \in DOMAIN fresh : shown[i] # fresh[j]
  <2> TAKE i \in DOMAIN shown, j \in DOMAIN fresh
  <2>1. shown[i].timestamp <= last BY <1>4 DEF BoardSound
  <2>2. last = 0 \/ fresh[j].timestamp > last BY <1>3
  <2> HIDE DEF shown, last
  <2>3. shown[i].timestamp \in Nat /\ shown[i].timestamp > 0 BY <1>5
  <2>4. fresh[j].timestamp \in Nat BY <1>5
  <2>5. shown[i].timestamp < fresh[j].timestamp BY <1>5, <2>1, <2>2, <2>3, <2>4
  <2> QED BY <2>3, <2>4, <2>5
<1>7. IsInjective(new.shown)
  <2>1. IsInjective(shown) BY <1>4 DEF BoardSound
  <2> HIDE DEF shown
  <2>2. new.shown = shown \o fresh BY <1>3 DEF shown
  <2> QED BY <1>3, <1>5, <1>6, <2>1, <2>2, ConcatKeepsInjective
<1>8. \A i \in DOMAIN new.shown : new.shown[i].timestamp <= new.last
  <2>1. Range(shown \o fresh) = Range(shown) \cup Range(fresh)
    BY <1>5, RangeConcatenation
  <2>2. \A i \in DOMAIN shown : shown[i].timestamp <= last BY <1>4 DEF BoardSound
  <2> HIDE DEF shown, last
  <2>3. last <= new.last BY <1>3 DEF last
  <2>4. \A i \in DOMAIN shown : shown[i].timestamp <= new.last BY <1>5, <2>2, <2>3
  <2>5. \A p \in Range(shown) \cup Range(fresh) : p.timestamp <= new.last
    BY <1>3, <2>4 DEF Range
  <2>6. new.shown = shown \o fresh BY <1>3 DEF shown
  <2> QED BY <2>1, <2>5, <2>6 DEF Range
<1>9. BoardSound(new) BY <1>3, <1>4, <1>7, <1>8 DEF BoardSound
<1>10. \A e \in Dashboards : BoardSound(board'[e])
  <2> TAKE e \in Dashboards
  <2>1. board'[e] = IF e = d THEN new ELSE board[e]
    BY <1>0, <1>3 DEF TypeOK
  <2> QED BY <1>2, <1>9, <2>1
<1>11. \A e \in Dashboards : BoardSound(board[e])'
  BY <1>1, <1>10 DEF BoardSound
<1>12. IsInjective(history') /\ IsInjective(cache') BY <1>1, <1>2, <1>3, EmptyInjective
<1> QED BY <1>11, <1>12, Zenon DEF BoardsSound, BoardSound, NoPointTwice

LEMMA ReceiveKeeps ==
    ASSUME IInv, NEW r \in requests, ReceivePush(r) PROVE BoardsSound'
<1>0. TypeOK /\ PointsSound /\ BoardsSound BY DEF IInv
<1>1. UNCHANGED <<board, now>> BY DEF ReceivePush
<1>2. /\ IsInjective(history) /\ IsInjective(cache)
      /\ \A e \in Dashboards : BoardSound(board[e])
  BY <1>0, BoardsSoundIs
<1>3. /\ PointOf(r) \in Points /\ r.state # "answered"
      /\ cache' = Append(cache, PointOf(r)) /\ history' = Append(history, PointOf(r))
  BY <1>0, ReceivedIs
<1>4. PointOf(r) \notin Kept BY <1>0, <1>3 DEF PointsSound
<1>5. /\ PointOf(r) \notin Range(cache) /\ PointOf(r) \notin Range(history)
      /\ \A d \in Dashboards : PointOf(r) \notin Range(board[d].loaded)
  BY <1>4 DEF Kept
<1>6. history \in Seq(Points) /\ cache \in Seq(Points) BY <1>0 DEF TypeOK
<1>7. IsInjective(history') /\ IsInjective(cache')
  <2>1. IsInjective(Append(history, PointOf(r)))
    BY <1>2, <1>3, <1>5, <1>6, AppendKeepsInjective
  <2>2. IsInjective(Append(cache, PointOf(r)))
    BY <1>2, <1>3, <1>5, <1>6, AppendKeepsInjective
  <2> QED BY <1>3, <2>1, <2>2
<1>8. ASSUME NEW d \in Dashboards PROVE BoardSound(board[d])'
  <2> DEFINE b == board[d]
  <2>1. BoardSound(b) BY <1>2
  <2>2. \A i \in DOMAIN b.loaded : b.loaded[i] # PointOf(r) BY <1>5 DEF Range
  <2>3. /\ Len(history) \in Nat /\ DOMAIN history = 1..Len(history)
        /\ DOMAIN history' = 1..(Len(history) + 1)
        /\ \A j \in 1..Len(history) : history'[j] = history[j]
        /\ history'[Len(history) + 1] = PointOf(r)
    <3>1. /\ history' \in Seq(Points) /\ Len(history') = Len(history) + 1
          /\ \A j \in 1..Len(history) : history'[j] = history[j]
          /\ history'[Len(history) + 1] = PointOf(r)
      BY <1>3, <1>6, AppendProperties
    <3>2. DOMAIN history' = 1..Len(history') BY <3>1, SeqIs
    <3> QED BY <1>6, <3>1, <3>2, SeqIs
  <2>4. \A i \in DOMAIN b.loaded, j \in DOMAIN history' :
          b.loaded[i] = history'[j] => i = j
    <3> TAKE i \in DOMAIN b.loaded, j \in DOMAIN history'
    <3> HIDE DEF b
    <3>1. CASE j = Len(history) + 1 BY <2>2, <2>3, <3>1
    <3>2. CASE j # Len(history) + 1
      <4>1. j \in DOMAIN history /\ history'[j] = history[j] BY <2>3, <3>2
      <4> QED BY <2>1, <4>1 DEF BoardSound
    <3> QED BY <3>1, <3>2
  <2>5. board'[d] = b BY <1>1
  <2> HIDE DEF b
  <2> QED BY <1>1, <2>1, <2>4, <2>5 DEF BoardSound
<1> QED BY <1>7, <1>8, Zenon DEF BoardsSound, BoardSound, NoPointTwice

LEMMA BoardsStep == IInv /\ [Next]_vars => BoardsSound'
<1> SUFFICES ASSUME IInv, [Next]_vars PROVE BoardsSound'
  OBVIOUS
<1> USE DEF nodeVars, managerVars
<1>0. TypeOK /\ BoardsSound BY DEF IInv
<1>i. /\ IsInjective(history) /\ IsInjective(cache)
      /\ \A d \in Dashboards : BoardSound(board[d])
  BY <1>0, BoardsSoundIs
<1>s. ASSUME IsInjective(history'), IsInjective(cache'),
             \A d \in Dashboards : BoardSound(board[d])'
      PROVE  BoardsSound'
  BY <1>s, Zenon DEF BoardsSound, BoardSound, NoPointTwice
<1>t. now \in Nat /\ \A d \in Dashboards : board[d].last \in Nat
  BY <1>0, BoardType DEF TypeOK
<1>1. ASSUME UNCHANGED <<history, cache, board>>, now' = now \/ now' = now + 1
      PROVE  BoardsSound'
  <2>1. ASSUME NEW d \in Dashboards PROVE BoardSound(board[d])'
    <3>1. BoardSound(board[d]) /\ board'[d] = board[d] BY <1>1, <1>i
    <3>2. board[d].last <= now' BY <1>1, <1>t, <3>1 DEF BoardSound
    <3> QED BY <1>1, <3>1, <3>2 DEF BoardSound
  <2> QED BY <1>1, <1>i, <1>s, <2>1
<1>2. ASSUME Clear PROVE BoardsSound'
  <2>1. history' = <<>> /\ cache' = <<>> /\ board' = board /\ now' = now
    BY <1>2 DEF Clear
  <2>2. \A d \in Dashboards : BoardSound(board[d])'
    BY <1>i, <2>1, EmptyInjective DEF BoardSound
  <2> QED BY <1>s, <2>1, <2>2, EmptyInjective
<1>3. ASSUME NEW d \in Dashboards, ClearBoard(d) PROVE BoardsSound'
  <2>1. /\ UNCHANGED <<history, cache, now>>
        /\ board' = [board EXCEPT ![d].shown = <<>>, ![d].last = 0]
    BY <1>3 DEF ClearBoard
  <2>2. /\ board'[d].loaded = board[d].loaded /\ board'[d].shown = <<>>
        /\ board'[d].last = 0
        /\ \A e \in Dashboards \ {d} : board'[e] = board[e]
    BY <1>0, <2>1 DEF TypeOK, Boards
  <2>3. \A e \in Dashboards : BoardSound(board'[e])
    <3> TAKE e \in Dashboards
    <3>1. BoardSound(board[e]) BY <1>i
    <3>2. CASE e = d
      <4>1. 0 <= now /\ \A i \in DOMAIN <<>> : FALSE BY <1>t, EmptyInjective
      <4>2. board'[e].loaded = board[e].loaded /\ board'[e].shown = <<>>
            /\ board'[e].last = 0
        BY <2>2, <3>2
      <4>3. IsInjective(board'[e].shown) BY <4>2, EmptyInjective
      <4>4. \A i \in DOMAIN board'[e].shown : FALSE BY <4>1, <4>2, Zenon
      <4>5. /\ IsInjective(board'[e].loaded)
            /\ \A i \in DOMAIN board'[e].loaded, j \in DOMAIN history :
                 board'[e].loaded[i] = history[j] => i = j
        BY <3>1, <4>2, Zenon DEF BoardSound
      <4> QED BY <4>1, <4>2, <4>3, <4>4, <4>5, Zenon DEF BoardSound
    <3>3. CASE e # d
      BY <2>2, <3>1, <3>3
    <3> QED BY <3>2, <3>3
  <2>4. \A e \in Dashboards : BoardSound(board[e])'
    <3> TAKE e \in Dashboards
    <3>1. BoardSound(board'[e]) BY <2>3
    <3>2. history' = history /\ now' = now BY <2>1
    <3> QED BY <3>1, <3>2 DEF BoardSound
  <2> QED BY <1>i, <1>s, <2>1, <2>4
<1>4. CASE \/ Tick \/ ListContainers \/ Launch
           \/ \E n \in Nodes : Change(n) \/ PushLoop(n) \/ StopPushLoop(n) \/ Gone(n)
           \/ \E r \in requests : PushAnswered(r) \/ PushFails(r)
           \/ \E readable \in SUBSET listing.containers : StoreListing(readable)
           \/ UNCHANGED vars
  <2>1. UNCHANGED <<history, cache, board>> /\ (now' = now \/ now' = now + 1)
    BY <1>4 DEF Tick, ListContainers, Launch, Change, PushLoop, StopPushLoop, Gone,
                PushAnswered, PushFails, StoreListing, vars
  <2> QED BY <1>1, <2>1
<1> QED BY <1>2, <1>3, <1>4, LoadKeeps, StreamKeeps, ReceiveKeeps, Zenon DEF Next

-----------------------------------------------------------------------------
(* The theorems. *)

LEMMA InitSound == Init => IInv
<1> SUFFICES ASSUME Init PROVE IInv
  OBVIOUS
<1>1. <<>> \in Seq(Points) BY EmptySeq
<1>2. Blank \in Boards BY <1>1 DEF Blank, Boards
<1>3. TypeOK
  BY <1>1, <1>2 DEF Init, TypeOK, None, Containers
<1>4. ContainersSound BY DEF Init, ContainersSound, OneRun, None
<1>5. StopSound BY DEF Init, StopSound, FinalPushArrives
<1>6. PointsSound
  <2>1. Range(<<>>) = {} BY EmptyInjective DEF Range
  <2>2. \A d \in Dashboards : board[d].loaded = <<>> /\ board[d].shown = <<>>
    BY DEF Init, Blank
  <2>3. history = <<>> /\ cache = <<>> /\ requests = {} BY DEF Init
  <2>4. Kept = {} BY <2>1, <2>2, <2>3 DEF Kept
  <2> QED BY <2>3, <2>4 DEF PointsSound
<1>7. BoardsSound
  <2>1. \A d \in Dashboards : board[d] = Blank BY DEF Init
  <2>2. BoardSound(Blank)
    BY EmptyInjective DEF Init, BoardSound, Blank
  <2>3. history = <<>> /\ cache = <<>> BY DEF Init
  <2> QED BY <2>1, <2>2, <2>3, EmptyInjective, BoardsSoundIs
<1> QED BY <1>3, <1>4, <1>5, <1>6, <1>7 DEF IInv

THEOREM Invariance == Spec => []IInv
<1>1. IInv /\ [Next]_vars => IInv'
  <2> SUFFICES ASSUME IInv, [Next]_vars PROVE IInv'
    OBVIOUS
  <2>1. TypeOK' BY TypeStep
  <2>2. ContainersSound' BY ContainersStep DEF IInv
  <2>3. StopSound' BY StopStep DEF IInv
  <2>4. PointsSound' BY PointsStep
  <2>5. BoardsSound' BY BoardsStep
  <2> QED BY <2>1, <2>2, <2>3, <2>4, <2>5 DEF IInv
<1> QED BY InitSound, <1>1, PTL DEF Spec

\* The variables keep their types.
THEOREM TypeCorrect == Spec => []TypeOK
<1>1. IInv => TypeOK BY DEF IInv
<1> QED BY Invariance, <1>1, PTL

\* A node whose last push met no error has told the manager what it held when
\* it was told to stop (node_metrics.py:116), with any number of pushes of its
\* loop, answered, abandoned or still under way from runs before.
THEOREM FinalPushArrivesAlways == Spec => []FinalPushArrives
<1>1. IInv => FinalPushArrives BY DEF IInv, StopSound
<1> QED BY Invariance, <1>1, PTL

\* What a node's pushes are given as its resources was read from its container
\* and not from one of the same name before it (metrics_service.py:82).
THEOREM ResourcesOfOwnContainerAlways == Spec => []ResourcesOfOwnContainer
<1>1. ASSUME IInv PROVE ResourcesOfOwnContainer
  <2> SUFFICES ASSUME NEW c \in nameToId, NEW o \in Reading(c[1]) PROVE o = c
    BY DEF ResourcesOfOwnContainer
  <2>1. PICK r \in resourceCache : o = r.of /\ \E e \in nameToId : e[1] = c[1] /\ r.key = e
    BY DEF Reading, Key
  <2>2. PICK e \in nameToId : e[1] = c[1] /\ r.key = e BY <2>1
  <2>3. r.of = r.key /\ e[2] = c[2] BY <1>1 DEF IInv, ContainersSound, OneRun
  <2>4. e = <<e[1], e[2]>> /\ c = <<c[1], c[2]>>
    <3>1. nameToId \subseteq Containers BY <1>1 DEF IInv, TypeOK
    <3> QED BY <3>1 DEF Containers
  <2>5. e = c BY <2>2, <2>3, <2>4, Zenon
  <2> QED BY <2>1, <2>2, <2>3, <2>5, Zenon
<1> QED BY Invariance, <1>1, PTL

\* No dashboard shows a point twice (useMetricsStream.js:24), however many of
\* them share the stream, whatever the pages of the history and whenever it or
\* the board is cleared.
THEOREM NoPointTwiceAlways == Spec => []NoPointTwice
<1>1. IInv => NoPointTwice BY DEF IInv, BoardsSound
<1> QED BY Invariance, <1>1, PTL
=============================================================================
