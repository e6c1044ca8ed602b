---------------------------- MODULE ExchangeProofs ----------------------------
(***************************************************************************)
(* Proofs about Exchange, for any number of nodes, rounds and fragments.   *)
(* What the network holds, what the sessions wait for and what the stores  *)
(* have collected are related to each other: from that follow that a count *)
(* of fragments stands for all peers, that copies and losses bound each    *)
(* other, and that what a node lacks is at most what was lost.             *)
(***************************************************************************)
EXTENDS Exchange, FiniteSetTheorems, TLAPS

Kinds == {"fragment", "probe", "reply", "probe reply"}
Packets == [kind : Kinds, src : Nodes, dst : Nodes, round : Rounds,
            part : Parts \cup {0}, copy : Nat]
Trackeds == [dst : Nodes, round : Rounds, part : Parts, copies : Nat,
             sent : BOOLEAN, answered : BOOLEAN]

TypeOK ==
    /\ round \in [Nodes -> Rounds]
    /\ stage \in [Nodes -> {"train", "await", "done", "dead"}]
    /\ bucket \in [Nodes -> SUBSET Packets]
    /\ seen \in [Nodes -> SUBSET (Nodes \X Rounds \X Parts)]
    /\ intake \in [Nodes -> SUBSET Rounds]
    /\ pending \in [Nodes -> SUBSET Trackeds]
    /\ unreachable \in [Nodes -> SUBSET Nodes]
    /\ unlinked \in [Nodes -> SUBSET Nodes]
    /\ net \in SUBSET Packets
    /\ lost \in Nat /\ slow \in Nat

\* Packets run between different nodes, to one that lives.
NetSound ==
    \A p \in net : /\ p.src # p.dst
                   /\ p.kind \in {"fragment", "reply"} => p.part \in Parts
                   /\ Alive(Receiver(p))

\* A bucket holds one copy of a fragment, sent to its node and seen.
BucketsSound ==
    \A n \in Nodes : \A p \in bucket[n] :
        /\ p.src \in Peers(n) /\ p.part \in Parts
        /\ <<p.src, p.round, p.part>> \in seen[n]
        /\ \A q \in bucket[n] :
             q.src = p.src /\ q.round = p.round /\ q.part = p.part => q = p

SessionsSound ==
    \A n \in Nodes :
        /\ n \notin unreachable[n]
        /\ \A f \in pending[n] : f.dst # n
        /\ ~Alive(n) => pending[n] = {} /\ unreachable[n] = {}

\* The connections that have ended are those to dead peers.
LinksSound == \A n \in Nodes : \A d \in unlinked[n] : ~Alive(d)

\* Only the last round is the end.
DoneLast == \A n \in Nodes : stage[n] = "done" => round[n] = NRounds

\* One kind of fault per behaviour, within its bound.
FaultsApart ==
    /\ lost > 0 => Dead = {}
    /\ Cardinality(Dead) <= MaxCrashes

\* A fragment has been sent once more than copies of it, or replies to them,
\* have been lost, unless one is still under way.
CopiesCounted ==
    slow = 0 =>
      \A n \in Nodes : \A f \in pending[n] :
        Alive(f.dst) =>
          f.copies <= IF UnderWay(n, f) THEN lost + 1 ELSE lost

\* The fragments of round r are still of use to n; d has sent its own.
Needs(n, r) == stage[n] \in {"train", "await"} /\ r >= round[n]
Sent(d, r) ==
    Alive(d) /\ (r < round[d] \/ (r = round[d] /\ stage[d] # "train"))

Has(n, d, r, c) == \E p \in bucket[n] : p.src = d /\ p.round = r /\ p.part = c
OnItsWay(n, d, r, c) ==
    \E p \in net : /\ p.kind = "fragment" /\ p.src = d /\ p.dst = n
                   /\ p.round = r /\ p.part = c

\* What was seen and is of use is in the bucket: no duplicate is missed.
SeenKept ==
    \A n, d \in Nodes, r \in Rounds, c \in Parts :
        <<d, r, c>> \in seen[n] /\ Needs(n, r) => Has(n, d, r, c)

Lacks(n, d, r, c) ==
    /\ n # d /\ Needs(n, r) /\ Sent(d, r)
    /\ ~Has(n, d, r, c) /\ ~OnItsWay(n, d, r, c)

\* Only a packet that was lost is missing.
MissingOnlyLost ==
    slow = 0 /\ lost <= 1 /\ MaxResends >= 1 =>
        \A n, d, m, e \in Nodes, r, s \in Rounds, b, c \in Parts :
            Lacks(n, d, r, b) /\ Lacks(m, e, s, c) =>
                lost = 1 /\ n = m /\ d = e /\ r = s /\ b = c

IInv == TypeOK /\ NetSound /\ BucketsSound /\ SessionsSound /\ LinksSound
            /\ DoneLast /\ FaultsApart /\ CopiesCounted /\ LivePeerKept /\ SeenKept
            /\ MissingOnlyLost

-----------------------------------------------------------------------------
(* What the steps do. *)

LEMMA FragmentType ==
    ASSUME NEW n \in Nodes, NEW d \in Nodes, NEW r \in Rounds, NEW c \in Parts,
           NEW k \in Nat
    PROVE  Fragment(n, d, r, c, k) \in Packets
BY DEF Fragment, Packets, Kinds

LEMMA ProbeType ==
    ASSUME TypeOK, NEW n \in Nodes, NEW d \in Nodes PROVE Probe(n, d) \in Packets
<1>1. round[n] \in Rounds BY DEF TypeOK
<1> QED BY <1>1 DEF Probe, Packets, Kinds

LEMMA TrackedType ==
    ASSUME NEW d \in Nodes, NEW r \in Rounds, NEW c \in Parts, NEW sent \in BOOLEAN
    PROVE  Tracked(d, r, c, sent) \in Trackeds
BY DEF Tracked, Trackeds

LEMMA DispatchedType ==
    ASSUME NEW n \in Nodes, NEW d PROVE Dispatched(n, d) \in BOOLEAN
BY Zenon DEF Dispatched

\* A copy more of a fragment is still of it.
LEMMA CopyType ==
    ASSUME NEW f \in Trackeds, NEW sent \in BOOLEAN
    PROVE  LET g == [f EXCEPT !.copies = @ + 1, !.sent = sent]
           IN  /\ g \in Trackeds /\ g.dst = f.dst /\ g.round = f.round /\ g.part = f.part
               /\ g.copies = f.copies + 1
<1> DEFINE h == [f EXCEPT !.copies = @ + 1]
           g == [h EXCEPT !.sent = sent]
<1>1. /\ h \in Trackeds /\ h.dst = f.dst /\ h.round = f.round /\ h.part = f.part
      /\ h.copies = f.copies + 1
  BY DEF Trackeds
<1>2. g = [f EXCEPT !.copies = @ + 1, !.sent = sent]
  BY DEF Trackeds
<1> HIDE DEF h
<1>3. /\ g \in Trackeds /\ g.dst = h.dst /\ g.round = h.round /\ g.part = h.part
      /\ g.copies = h.copies
  BY <1>1 DEF Trackeds
<1> HIDE DEF g
<1> QED BY <1>1, <1>2, <1>3, Zenon

\* A reply is of the fragment or the probe it answers.
LEMMA ReplyType ==
    ASSUME NEW p \in Packets
    PROVE  /\ Reply(p) \in Packets
           /\ Reply(p).kind \in {"reply", "probe reply"}
           /\ Reply(p).kind = "reply" => p.kind # "probe"
           /\ Reply(p).src = p.src /\ Reply(p).dst = p.dst
           /\ Reply(p).round = p.round /\ Reply(p).part = p.part
<1>1. CASE p.kind = "probe"
  BY <1>1 DEF Reply, Packets, Kinds
<1>2. CASE p.kind # "probe"
  BY <1>2 DEF Reply, Packets, Kinds
<1> QED BY <1>1, <1>2

SameFragment(f, g) ==
    f.dst = g.dst /\ f.round = g.round /\ f.part = g.part /\ f.copies = g.copies

\* An acknowledgement clears the fragment it is of, leaves the copies of the
\* others and gives nobody up.
LEMMA AcknowledgeEffect ==
    ASSUME TypeOK, NEW p \in Packets, Acknowledge(p)
    PROVE  /\ pending' \in [Nodes -> SUBSET Trackeds]
           /\ unreachable' \in [Nodes -> SUBSET Nodes]
           /\ unlinked' = unlinked
           /\ \A n \in Nodes : unreachable'[n] \subseteq unreachable[n]
           /\ \A n \in Nodes : \A f \in pending'[n] : \E g \in pending[n] :
                SameFragment(f, g) /\ (n = p.src => ~IsOf(p, g))
<1> DEFINE mine == { f \in pending[p.src] : IsOf(p, f) }
           first == p.kind \in {"probe", "probe reply"} \/ mine # {}
           Dated(f) == [f EXCEPT !.answered = @ \/ (first /\ f.dst = p.dst)]
           kept == { Dated(f) : f \in pending[p.src] \ mine }
<1>0. p.src \in Nodes /\ p.dst \in Nodes BY DEF Packets
<1>1. pending' = [pending EXCEPT ![p.src] = kept]
  BY DEF Acknowledge
<1>2. \A f \in Trackeds : Dated(f) \in Trackeds /\ SameFragment(Dated(f), f)
  <2> TAKE f \in Trackeds
  <2>1. (f.answered \/ (first /\ f.dst = p.dst)) \in BOOLEAN
    BY Zenon
  <2>2. \A b \in BOOLEAN : /\ [f EXCEPT !.answered = b] \in Trackeds
                           /\ SameFragment([f EXCEPT !.answered = b], f)
    BY DEF Trackeds, SameFragment
  <2> QED BY <2>1, <2>2, Zenon
<1>3. pending[p.src] \subseteq Trackeds
  BY <1>0 DEF TypeOK
<1>4. kept \in SUBSET Trackeds
  BY <1>2, <1>3, Zenon
<1>5. \A f \in kept : \E g \in pending[p.src] : SameFragment(f, g) /\ ~IsOf(p, g)
  <2> TAKE f \in kept
  <2>1. PICK g \in pending[p.src] \ mine : f = Dated(g)
    OBVIOUS
  <2> QED BY <1>2, <1>3, <2>1, Zenon
<1>6. \A n \in Nodes : \A f \in pending'[n] : \E g \in pending[n] :
         SameFragment(f, g) /\ (n = p.src => ~IsOf(p, g))
  <2> TAKE n \in Nodes
  <2> TAKE f \in pending'[n]
  <2>1. CASE n = p.src
    <3>1. f \in kept BY <1>0, <1>1, <2>1 DEF TypeOK
    <3> QED BY <1>5, <2>1, <3>1
  <2>2. CASE n # p.src
    <3>1. f \in pending[n] BY <1>0, <1>1, <2>2 DEF TypeOK
    <3> QED BY <2>2, <3>1 DEF SameFragment
  <2> QED BY <2>1, <2>2
<1>7. pending' \in [Nodes -> SUBSET Trackeds]
  <2> HIDE DEF kept
  <2> QED BY <1>0, <1>1, <1>4 DEF TypeOK
<1>8. \/ unreachable' = [unreachable EXCEPT ![p.src] = @ \ {p.dst}]
      \/ unreachable' = unreachable
  <2>1. PICK revives \in BOOLEAN :
           unreachable' = [unreachable EXCEPT ![p.src] =
                             IF revives THEN @ \ {p.dst} ELSE @]
    BY Zenon DEF Acknowledge
  <2>2. CASE revives BY <2>1, <2>2
  <2>3. CASE ~revives
    <3>1. unreachable' = [unreachable EXCEPT ![p.src] = @] BY <2>1, <2>3
    <3> QED BY <1>0, <3>1 DEF TypeOK
  <2> QED BY <2>2, <2>3
<1>9. /\ unreachable' \in [Nodes -> SUBSET Nodes]
      /\ \A n \in Nodes : unreachable'[n] \subseteq unreachable[n]
  BY <1>0, <1>8 DEF TypeOK
<1>10. unlinked' = unlinked BY DEF Acknowledge
<1> QED BY <1>6, <1>7, <1>9, <1>10

\* The three ways an answer goes: back at once, late, or never.
LEMMA AnswerEffect ==
    ASSUME TypeOK, NEW p \in net, AnswerWithSurb(p)
    PROVE  /\ pending' \in [Nodes -> SUBSET Trackeds]
           /\ unreachable' \in [Nodes -> SUBSET Nodes]
           /\ unlinked' = unlinked
           /\ \A n \in Nodes : unreachable'[n] \subseteq unreachable[n]
           /\ \A n \in Nodes : \A f \in pending'[n] : \E g \in pending[n] :
                /\ SameFragment(f, g)
                /\ \/ n = p.src => ~IsOf(p, g)
                   \/ slow' = slow + 1
                   \/ lost' = lost + 1
                   \/ ~Alive(p.src)
           /\ \/ slow' = slow /\ net' = net \ {p}
              \/ slow' = slow + 1 /\ net' = (net \ {p}) \cup {Reply(p)} /\ Alive(p.src)
           /\ lost' = lost \/ (lost' = lost + 1 /\ MayLose)
<1>0. p \in Packets BY DEF TypeOK
<1>1. CASE Alive(p.src) /\ Acknowledge(p) /\ net' = net \ {p} /\ UNCHANGED <<lost, slow>>
  BY <1>0, <1>1, AcknowledgeEffect
<1>2. CASE /\ Alive(p.src) /\ MayBeSlow
           /\ slow' = slow + 1 /\ net' = (net \ {p}) \cup {Reply(p)}
           /\ UNCHANGED <<sessionVars, lost>>
  BY <1>2 DEF TypeOK, sessionVars, SameFragment
<1>3. CASE /\ ~Alive(p.src) \/ MayLose
           /\ lost' = IF Alive(p.src) THEN lost + 1 ELSE lost
           /\ net' = net \ {p}
           /\ UNCHANGED <<sessionVars, slow>>
  BY <1>3 DEF TypeOK, sessionVars, SameFragment
<1> QED BY <1>1, <1>2, <1>3 DEF AnswerWithSurb

-----------------------------------------------------------------------------
(* The initial states and the steps keep the invariant. *)

LEMMA InitIInv == Init => IInv
<1> SUFFICES ASSUME Init PROVE IInv
  OBVIOUS
<1> USE ExchangeAssumption DEF Init
<1>1. TypeOK BY DEF TypeOK, Rounds
<1>2. NetSound /\ BucketsSound /\ SessionsSound /\ LinksSound
  BY DEF NetSound, BucketsSound, SessionsSound, LinksSound, Alive
<1>6. DoneLast BY DEF DoneLast
<1>3. FaultsApart
  <2>1. Dead = {} BY DEF Dead, Alive
  <2> QED BY <2>1, FS_EmptySet, SMT DEF FaultsApart
<1>4. CopiesCounted /\ LivePeerKept /\ SeenKept
  BY DEF CopiesCounted, LivePeerKept, SeenKept
<1>5. MissingOnlyLost
  <2>1. \A n, d \in Nodes, r \in Rounds, c \in Parts : ~Lacks(n, d, r, c)
    BY DEF Lacks, Sent, Rounds
  <2> QED BY <2>1 DEF MissingOnlyLost
<1> QED BY <1>1, <1>2, <1>3, <1>4, <1>5, <1>6 DEF IInv

LEMMA TypeStep == IInv /\ [Next]_vars => TypeOK'
<1> SUFFICES ASSUME IInv, [Next]_vars PROVE TypeOK'
  OBVIOUS
<1> USE ExchangeAssumption DEF nodeVars, storeVars, sessionVars
<1>0. TypeOK /\ NetSound BY DEF IInv
<1>1. ASSUME NEW n \in Nodes, SendModel(n) PROVE TypeOK'
  <2> DEFINE to == Peers(n) \ unreachable[n]
             probes == { Probe(n, d) : d \in unreachable[n] }
             model == { Fragment(n, d, round[n], c, 1) : d \in to, c \in Parts }
             Track(d, c) == Tracked(d, round[n], c, Dispatched(n, d))
             tracks == { Track(d, c) : d \in to, c \in Parts }
  <2>1. to \subseteq Nodes /\ unreachable[n] \subseteq Nodes /\ round[n] \in Rounds
    BY <1>0 DEF TypeOK, Peers
  <2>2. probes \cup model \subseteq Packets
    BY <1>0, <2>1, FragmentType, ProbeType
  <2>3. tracks \subseteq Trackeds
    <3>1. \A d \in to, c \in Parts : Track(d, c) \in Trackeds
      BY <2>1, TrackedType, DispatchedType, Zenon
    <3> HIDE DEF Track
    <3> QED BY <3>1
  <2>4. /\ stage' = [stage EXCEPT ![n] = "await"]
        /\ pending' = [pending EXCEPT ![n] = @ \cup tracks]
        /\ net' = net \cup Deliverable(probes \cup model)
        /\ UNCHANGED <<round, storeVars, unreachable, unlinked, lost, slow>>
    BY <1>1 DEF SendModel
  <2> HIDE DEF probes, model, tracks
  <2>5. net' \in SUBSET Packets
    BY <1>0, <2>2, <2>4 DEF TypeOK, Deliverable
  <2>6. pending' \in [Nodes -> SUBSET Trackeds]
    BY <1>0, <2>3, <2>4 DEF TypeOK
  <2> QED BY <1>0, <2>4, <2>5, <2>6 DEF TypeOK
<1>2. ASSUME NEW n \in Nodes, EndFull(n) \/ EndStall(n) PROVE TypeOK'
  <2>1. NextRound(n) /\ slow' \in Nat
    BY <1>0, <1>2 DEF EndFull, EndStall, TimedOut, TypeOK
  <2>2. bucket' \in [Nodes -> SUBSET Packets]
    BY <1>0, <2>1 DEF NextRound, TypeOK
  <2>3. /\ round' \in [Nodes -> Rounds]
        /\ stage' \in [Nodes -> {"train", "await", "done", "dead"}]
    BY <1>0, <2>1 DEF NextRound, TypeOK, Rounds
  <2> QED BY <1>0, <2>1, <2>2, <2>3 DEF NextRound, TypeOK
<1>3. ASSUME NEW n \in Nodes, Crash(n) PROVE TypeOK'
  <2>1. net' \in SUBSET Packets /\ round' \in [Nodes -> Rounds]
    BY <1>0, <1>3 DEF Crash, TypeOK, Rounds
  <2> QED BY <1>0, <1>3, <2>1 DEF Crash, TypeOK
<1>4. ASSUME NEW n \in Nodes, NEW d \in Nodes, LinkLost(n, d) \/ DialFails(n, d) PROVE TypeOK'
  <2>1. unlinked' \in [Nodes -> SUBSET Nodes] /\ unreachable' \in [Nodes -> SUBSET Nodes]
    BY <1>0, <1>4 DEF LinkLost, DialFails, TypeOK
  <2> QED BY <1>0, <1>4, <2>1 DEF LinkLost, DialFails, TypeOK
<1>5. ASSUME NEW n \in Nodes, NEW f \in pending[n], Resend(n, f) PROVE TypeOK'
  <2>1. f \in Trackeds BY <1>0 DEF TypeOK
  <2>2. /\ f.dst \in Nodes /\ f.round \in Rounds /\ f.part \in Parts
        /\ f.copies + 1 \in Nat
    BY <2>1 DEF Trackeds
  <2> DEFINE copy == [f EXCEPT !.copies = @ + 1, !.sent = Dispatched(n, f.dst)]
  <2>7. copy \in Trackeds BY <2>1, DispatchedType, CopyType
  <2>3. Fragment(n, f.dst, f.round, f.part, f.copies + 1) \in Packets
    BY <2>2, FragmentType
  <2>4. slow' \in Nat
    BY <1>0, <1>5 DEF Resend, Stale, TimedOut, TypeOK
  <2>5. net' \in SUBSET Packets
    BY <1>0, <1>5, <2>3 DEF Resend, Deliverable, TypeOK
  <2>6. pending' \in [Nodes -> SUBSET Trackeds]
    <3>1. pending' = [pending EXCEPT ![n] = (@ \ {f}) \cup {copy}] BY <1>5 DEF Resend
    <3> HIDE DEF copy
    <3> QED BY <1>0, <2>7, <3>1 DEF TypeOK
  <2> QED BY <1>0, <1>5, <2>4, <2>5, <2>6 DEF Resend, TypeOK
<1>6. ASSUME NEW n \in Nodes, NEW f \in pending[n], GiveUp(n, f) PROVE TypeOK'
  <2>1. f.dst \in Nodes /\ slow' \in Nat
    BY <1>0, <1>6 DEF TypeOK, Trackeds, GiveUp, Stale, TimedOut
  <2> QED BY <1>0, <1>6, <2>1 DEF GiveUp, TypeOK
<1>7. ASSUME NEW p \in net, Receive(p) PROVE TypeOK'
  <2>0. p \in Packets BY <1>0 DEF TypeOK
  <2>1. AnswerWithSurb(p) /\ UNCHANGED nodeVars
    BY <1>7 DEF Receive, HandleFragment
  <2>2. net' \in SUBSET Packets /\ lost' \in Nat /\ slow' \in Nat
    <3>1. \/ slow' = slow /\ net' = net \ {p}
          \/ slow' = slow + 1 /\ net' = (net \ {p}) \cup {Reply(p)}
      BY <1>0, <2>1, AnswerEffect
    <3>2. lost' = lost \/ lost' = lost + 1
      BY <1>0, <2>1, AnswerEffect
    <3>3. Reply(p) \in Packets BY <2>0, ReplyType
    <3> QED BY <1>0, <2>0, <3>1, <3>2, <3>3 DEF TypeOK
  <2>3. /\ bucket' \in [Nodes -> SUBSET Packets]
        /\ seen' \in [Nodes -> SUBSET (Nodes \X Rounds \X Parts)]
        /\ intake' \in [Nodes -> SUBSET Rounds]
    <3>1. CASE p.kind = "fragment" /\ Store(p)
      <4>1. /\ p.src \in Nodes /\ p.dst \in Nodes /\ p.round \in Rounds /\ p.part \in Parts
        BY <1>0, <2>0, <3>1 DEF Packets, NetSound
      <4>2. seen' \in [Nodes -> SUBSET (Nodes \X Rounds \X Parts)]
        BY <1>0, <3>1, <4>1 DEF Store, TypeOK
      <4>3. bucket' \in [Nodes -> SUBSET Packets]
        BY <1>0, <2>0, <3>1, <4>1 DEF Store, TypeOK
      <4>4. intake' \in [Nodes -> SUBSET Rounds]
        BY <1>0, <3>1, <4>1 DEF Store, TypeOK
      <4> QED BY <4>2, <4>3, <4>4
    <3>2. CASE UNCHANGED storeVars
      BY <1>0, <3>2 DEF TypeOK
    <3> QED BY <1>7, <3>1, <3>2 DEF Receive, HandleFragment
  <2> QED BY <1>0, <2>1, <2>2, <2>3, AnswerEffect DEF TypeOK
<1>8. ASSUME NEW p \in net, LateReply(p) PROVE TypeOK'
  <2>0. p \in Packets BY <1>0 DEF TypeOK
  <2> QED BY <1>0, <1>8, <2>0, AcknowledgeEffect DEF LateReply, TypeOK
<1>9. ASSUME NEW p \in net, Lose(p) PROVE TypeOK'
  BY <1>0, <1>9 DEF Lose, TypeOK
<1>10. CASE UNCHANGED vars
  BY <1>0, <1>10 DEF vars, TypeOK
<1> QED
  BY <1>1, <1>2, <1>3, <1>4, <1>5, <1>6, <1>7, <1>8, <1>9, <1>10 DEF Next, Peers

\* Only a crash changes who lives.
LEMMA LivingStep ==
    ASSUME IInv, [Next]_vars
    PROVE  \/ Dead' = Dead /\ (\A n \in Nodes : Alive(n)' <=> Alive(n))
           \/ \E n \in Nodes : Crash(n)
<1> USE DEF nodeVars, storeVars, sessionVars
<1>0. TypeOK BY DEF IInv
<1>1. ASSUME \A n \in Nodes : Alive(n)' <=> Alive(n) PROVE Dead' = Dead
  BY <1>1 DEF Dead
<1>2. CASE \E n \in Nodes : SendModel(n)
  <2>1. \A n \in Nodes : Alive(n)' <=> Alive(n)
    BY <1>0, <1>2 DEF SendModel, Alive, TypeOK
  <2> QED BY <1>1, <2>1
<1>3. CASE \E n \in Nodes : EndFull(n) \/ EndStall(n)
  <2>1. PICK n \in Nodes : EndFull(n) \/ EndStall(n) BY <1>3
  <2>2. NextRound(n) BY <2>1 DEF EndFull, EndStall
  <2>3. /\ stage[n] = "await"
        /\ \/ stage' = [stage EXCEPT ![n] = "done"]
           \/ stage' = [stage EXCEPT ![n] = "train"]
    BY <2>2 DEF NextRound
  <2>4. stage \in [Nodes -> {"train", "await", "done", "dead"}] BY <1>0 DEF TypeOK
  <2>5. \A m \in Nodes : Alive(m)' <=> Alive(m) BY <2>3, <2>4 DEF Alive
  <2> QED BY <1>1, <2>5
<1>4. CASE stage' = stage
  BY <1>1, <1>4 DEF Alive
<1>5. \/ \E n \in Nodes : SendModel(n) \/ EndFull(n) \/ EndStall(n) \/ Crash(n)
      \/ stage' = stage
  BY DEF Next, vars, LinkLost, DialFails, Resend, GiveUp, Receive, LateReply, Lose
<1> QED BY <1>2, <1>3, <1>4, <1>5

LEMMA CrashEffect ==
    ASSUME IInv, NEW n \in Nodes, Crash(n)
    PROVE  /\ Dead' = Dead \cup {n} /\ ~Alive(n)'
           /\ \A m \in Nodes \ {n} : Alive(m)' <=> Alive(m)
BY DEF IInv, TypeOK, Crash, Dead, Alive

LEMMA FaultsStep == IInv /\ [Next]_vars => FaultsApart'
<1> SUFFICES ASSUME IInv, [Next]_vars PROVE FaultsApart'
  OBVIOUS
<1> USE ExchangeAssumption DEF nodeVars, storeVars, sessionVars
<1>0. TypeOK /\ FaultsApart BY DEF IInv
<1>1. ASSUME NEW n \in Nodes, Crash(n) PROVE FaultsApart'
  <2>1. IsFiniteSet(Dead)
    BY FS_Subset DEF Dead
  <2>2. Cardinality(Dead \cup {n}) \in 0..Cardinality(Dead) + 1 /\ Cardinality(Dead) \in Nat
    <3>1. Cardinality(Dead \cup {n}) =
             IF n \in Dead THEN Cardinality(Dead) ELSE Cardinality(Dead) + 1
      BY <2>1, FS_AddElement
    <3>2. Cardinality(Dead) \in Nat
      BY <2>1, FS_CardinalityType
    <3> QED BY <3>1, <3>2, SMT
  <2>3. Dead' = Dead \cup {n}
    BY <1>1, CrashEffect
  <2>4. Cardinality(Dead) < MaxCrashes /\ lost = 0 /\ lost' = lost
    BY <1>1 DEF Crash, MayCrash
  <2> HIDE DEF Dead
  <2> QED BY <2>2, <2>3, <2>4 DEF FaultsApart
<1>2. CASE Dead' = Dead
  <2>1. lost' = lost \/ (lost' = lost + 1 /\ Dead = {})
    <3>1. ASSUME NEW p \in net, Receive(p) PROVE lost' = lost \/ (lost' = lost + 1 /\ Dead = {})
      BY <1>0, <3>1, AnswerEffect DEF Receive, HandleFragment, MayLose
    <3>2. ASSUME NEW p \in net, Lose(p) PROVE lost' = lost + 1 /\ Dead = {}
      BY <3>2 DEF Lose, MayLose
    <3>3. ASSUME NEW n \in Nodes, SendModel(n) PROVE lost' = lost
      BY <3>3 DEF SendModel
    <3>4. \/ lost' = lost
          \/ \E p \in net : Receive(p) \/ Lose(p)
      BY <3>3 DEF Next, vars, EndFull, EndStall, NextRound, Crash, LinkLost, DialFails,
                  Resend, GiveUp, LateReply
    <3> QED BY <3>1, <3>2, <3>4
  <2> QED BY <1>0, <1>2, <2>1 DEF FaultsApart, TypeOK
<1> QED BY <1>1, <1>2, LivingStep

\* A broadcast sends and tracks one copy of each fragment for each peer not
\* given up, and leaves the other nodes' sessions alone.
LEMMA SendEffect ==
    ASSUME TypeOK, NEW n \in Nodes, SendModel(n)
    PROVE  /\ \A m \in Nodes \ {n} : pending'[m] = pending[m]
           /\ \A f \in pending'[n] :
                \/ f \in pending[n]
                \/ /\ f.dst \in Peers(n) \ unreachable[n] /\ f.part \in Parts
                   /\ f.round = round[n] /\ f.copies = 1
                   /\ Alive(f.dst) =>
                        Fragment(n, f.dst, f.round, f.part, 1) \in net'
           /\ net \subseteq net'
           /\ \A d \in Peers(n) \ unreachable[n], c \in Parts :
                Alive(d) => Fragment(n, d, round[n], c, 1) \in net'
<1> DEFINE to == Peers(n) \ unreachable[n]
           Track(d, c) == Tracked(d, round[n], c, Dispatched(n, d))
           tracks == { Track(d, c) : d \in to, c \in Parts }
           Sends(d, c) == Fragment(n, d, round[n], c, 1)
           probes == { Probe(n, d) : d \in unreachable[n] }
           model == { Sends(d, c) : d \in to, c \in Parts }
<1>1. /\ pending' = [pending EXCEPT ![n] = @ \cup tracks]
      /\ net' = net \cup Deliverable(probes \cup model)
  BY DEF SendModel
<1>2. \A d \in to, c \in Parts :
         /\ Track(d, c).dst = d /\ Track(d, c).round = round[n]
         /\ Track(d, c).part = c /\ Track(d, c).copies = 1
  BY Zenon DEF Tracked
<1>3. \A d \in to, c \in Parts : Receiver(Sends(d, c)) = d
  BY DEF Fragment, Receiver
<1>4. \A d \in to, c \in Parts : Alive(d) => Sends(d, c) \in net'
  <2> HIDE DEF Sends, probes
  <2> QED BY <1>1, <1>3 DEF Deliverable
<1>5. ASSUME NEW f \in pending'[n], f \notin pending[n]
      PROVE  \E d \in to, c \in Parts : f = Track(d, c)
  <2> HIDE DEF Track
  <2> QED BY <1>1, <1>5 DEF TypeOK
<1>6. ASSUME NEW f \in pending'[n], f \notin pending[n]
      PROVE  /\ f.dst \in to /\ f.part \in Parts
             /\ f.round = round[n] /\ f.copies = 1
             /\ Alive(f.dst) => Fragment(n, f.dst, f.round, f.part, 1) \in net'
  <2>1. PICK d \in to, c \in Parts : f = Track(d, c) BY <1>5, <1>6
  <2>2. f.dst = d /\ f.part = c /\ f.round = round[n] /\ f.copies = 1
    BY <1>2, <2>1, Zenon
  <2> QED BY <1>4, <2>2
<1>7. \A m \in Nodes \ {n} : pending'[m] = pending[m]
  <2> HIDE DEF tracks
  <2> QED BY <1>1 DEF TypeOK
<1>8. net \subseteq net'
  <2> HIDE DEF probes, model
  <2> QED BY <1>1
<1> HIDE DEF to, Track, tracks, Sends, probes, model
<1> QED BY <1>4, <1>6, <1>7, <1>8 DEF to, Sends

LEMMA NetStep == IInv /\ [Next]_vars => NetSound'
<1> SUFFICES ASSUME IInv, [Next]_vars PROVE NetSound'
  OBVIOUS
<1> USE DEF nodeVars, storeVars, sessionVars
<1>0. TypeOK /\ NetSound /\ SessionsSound BY DEF IInv
<1> DEFINE Sound(p) == /\ p.src # p.dst
                       /\ p.kind \in {"fragment", "reply"} => p.part \in Parts
                       /\ Alive(Receiver(p))
<1>1. ASSUME NEW n \in Nodes, Crash(n) PROVE NetSound'
  <2> SUFFICES ASSUME NEW p \in net, Receiver(p) # n PROVE Sound(p)'
    BY <1>1 DEF Crash, NetSound
  <2>1. p \in Packets /\ Sound(p) BY <1>0 DEF TypeOK, NetSound
  <2>2. Receiver(p) \in Nodes \ {n} BY <2>1 DEF Receiver, Packets
  <2> QED BY <1>1, <2>1, <2>2, CrashEffect
<1>2. CASE ~\E n \in Nodes : Crash(n)
  <2>0. \A n \in Nodes : Alive(n) => Alive(n)'
    BY <1>2, LivingStep
  <2>1. ASSUME NEW p \in net PROVE Sound(p)'
    <3>1. p \in Packets /\ Sound(p) BY <1>0 DEF TypeOK, NetSound
    <3>2. Receiver(p) \in Nodes BY <3>1 DEF Receiver, Packets
    <3> QED BY <2>0, <3>1, <3>2
  <2>2. ASSUME NEW n \in Nodes, SendModel(n), NEW p \in net' PROVE Sound(p)'
    <3> DEFINE to == Peers(n) \ unreachable[n]
               probes == { Probe(n, d) : d \in unreachable[n] }
               model == { Fragment(n, d, round[n], c, 1) : d \in to, c \in Parts }
    <3>1. p \in net \/ (p \in probes \cup model /\ Alive(Receiver(p)))
      BY <2>2 DEF SendModel, Deliverable
    <3>2. CASE p \in probes /\ Alive(Receiver(p))
      <4>1. PICK d \in unreachable[n] : p = Probe(n, d) BY <3>2
      <4>2. d \in Nodes /\ d # n BY <1>0 DEF TypeOK, SessionsSound
      <4>3. /\ p.kind = "probe" /\ p.src = n /\ p.dst = d
        BY <4>1 DEF Probe
      <4>4. Receiver(p) = d BY <4>3 DEF Receiver
      <4> QED BY <2>0, <3>2, <4>2, <4>3, <4>4
    <3>3. CASE p \in model /\ Alive(Receiver(p))
      <4>1. PICK d \in to, c \in Parts : p = Fragment(n, d, round[n], c, 1) BY <3>3
      <4>2. d \in Nodes /\ d # n BY DEF Peers
      <4>3. /\ p.kind = "fragment" /\ p.src = n /\ p.dst = d /\ p.part = c
        BY <4>1 DEF Fragment
      <4>4. Receiver(p) = d BY <4>3 DEF Receiver
      <4> QED BY <2>0, <3>3, <4>2, <4>3, <4>4
    <3> QED BY <2>1, <3>1, <3>2, <3>3
  <2>3. ASSUME NEW n \in Nodes, NEW f \in pending[n], Resend(n, f), NEW p \in net'
        PROVE Sound(p)'
    <3> DEFINE q == Fragment(n, f.dst, f.round, f.part, f.copies + 1)
    <3>1. p \in net \/ (p = q /\ Alive(Receiver(p)))
      BY <2>3 DEF Resend, Deliverable
    <3>2. f \in Trackeds BY <1>0 DEF TypeOK
    <3>3. f.dst \in Nodes /\ f.part \in Parts BY <3>2 DEF Trackeds
    <3>4. CASE p = q /\ Alive(Receiver(p)) /\ f.dst # n
      <4>1. /\ p.kind = "fragment" /\ p.src = n /\ p.dst = f.dst /\ p.part = f.part
        BY <3>4 DEF Fragment
      <4>2. Receiver(p) = f.dst BY <4>1 DEF Receiver
      <4> QED BY <2>0, <3>3, <3>4, <4>1, <4>2
    <3> QED BY <1>0, <2>1, <3>1, <3>4 DEF SessionsSound
  <2>4. ASSUME NEW q \in net, q.kind \in {"fragment", "probe"}, AnswerWithSurb(q),
               NEW p \in net'
        PROVE  Sound(p)'
    <3>1. p \in net \/ (p = Reply(q) /\ Alive(q.src))
      BY <1>0, <2>4, AnswerEffect
    <3>2. q \in Packets /\ Sound(q) BY <1>0 DEF TypeOK, NetSound
    <3>3. CASE p = Reply(q) /\ Alive(q.src)
      <4>1. /\ p.src = q.src /\ p.dst = q.dst /\ p.part = q.part
            /\ p.kind \in {"reply", "probe reply"}
            /\ p.kind = "reply" => q.kind = "fragment"
        <5>1. CASE q.kind = "probe"
          BY <2>4, <3>2, <3>3, <5>1 DEF Reply, Packets
        <5>2. CASE q.kind # "probe"
          BY <2>4, <3>2, <3>3, <5>2 DEF Reply, Packets
        <5> QED BY <5>1, <5>2
      <4>2. Receiver(p) = q.src /\ q.src \in Nodes
        BY <3>2, <4>1 DEF Receiver, Packets
      <4> QED BY <2>0, <3>2, <3>3, <4>1, <4>2
    <3> QED BY <2>1, <3>1, <3>3
  <2>5. ASSUME net' \subseteq net PROVE NetSound'
    BY <2>1, <2>5 DEF NetSound
  <2>6. \/ net' \subseteq net
        \/ \E n \in Nodes : SendModel(n) \/ \E f \in pending[n] : Resend(n, f)
        \/ \E q \in net : q.kind \in {"fragment", "probe"} /\ AnswerWithSurb(q)
    BY <1>2 DEF Next, vars, EndFull, EndStall, NextRound, LinkLost, DialFails, GiveUp, Receive,
                HandleFragment, LateReply, Lose
  <2> QED BY <2>2, <2>3, <2>4, <2>5, <2>6 DEF NetSound
<1> QED BY <1>1, <1>2

LEMMA SessionsStep == IInv /\ [Next]_vars => SessionsSound'
<1> SUFFICES ASSUME IInv, [Next]_vars PROVE SessionsSound'
  OBVIOUS
<1> USE DEF nodeVars, storeVars, sessionVars
<1>0. TypeOK /\ SessionsSound /\ NetSound BY DEF IInv
<1>1. ASSUME NEW n \in Nodes, Crash(n) PROVE SessionsSound'
  <2>1. \A m \in Nodes \ {n} : Alive(m)' <=> Alive(m) BY <1>1, CrashEffect
  <2> QED BY <1>0, <1>1, <2>1 DEF Crash, SessionsSound, TypeOK
<1>2. ASSUME NEW n \in Nodes, SendModel(n) PROVE SessionsSound'
  <2>1. unreachable' = unreachable
    BY <1>2 DEF SendModel
  <2>2. /\ \A m \in Nodes : Alive(m)' <=> Alive(m)
        /\ Alive(n)
    BY <1>0, <1>2 DEF SendModel, Alive, TypeOK
  <2>3. ASSUME NEW m \in Nodes, NEW f \in pending'[m]
        PROVE  f.dst # m /\ (f \notin pending[m] => m = n)
    <3>1. CASE f \in pending[m]
      BY <1>0, <3>1 DEF SessionsSound
    <3>2. CASE f \notin pending[m]
      <4>1. m = n BY <1>0, <1>2, <3>2, SendEffect
      <4>2. f.dst \in Peers(n) BY <1>0, <1>2, <3>2, <4>1, SendEffect
      <4> QED BY <4>1, <4>2 DEF Peers
    <3> QED BY <3>1, <3>2
  <2> QED BY <1>0, <2>1, <2>2, <2>3 DEF SessionsSound
<1>3. ASSUME ~\E n \in Nodes : Crash(n),
             \A n \in Nodes : unreachable'[n] \subseteq unreachable[n],
             \A n \in Nodes : \A f \in pending'[n] : \E g \in pending[n] : f.dst = g.dst
      PROVE  SessionsSound'
  <2>1. \A m \in Nodes : Alive(m)' <=> Alive(m) BY <1>3, LivingStep
  <2> QED BY <1>0, <1>3, <2>1 DEF SessionsSound
<1>4. ASSUME NEW n \in Nodes, NEW d \in Nodes \ {n}, LinkLost(n, d) \/ DialFails(n, d)
      PROVE  SessionsSound'
  <2>1. /\ \A m \in Nodes \ {n} : unreachable'[m] = unreachable[m]
        /\ unreachable'[n] \subseteq unreachable[n] \cup {d}
        /\ Alive(n) /\ UNCHANGED <<stage, pending>>
    BY <1>0, <1>4 DEF LinkLost, DialFails, TypeOK
  <2> QED BY <1>0, <2>1 DEF SessionsSound, Alive
<1>5. ASSUME NEW n \in Nodes, NEW f \in pending[n], GiveUp(n, f) PROVE SessionsSound'
  <2>1. f.dst # n BY <1>0 DEF SessionsSound
  <2> QED BY <1>0, <1>5, <2>1 DEF GiveUp, SessionsSound, TypeOK, Alive
<1>6. ASSUME ~\E m \in Nodes : Crash(m), NEW n \in Nodes, NEW f \in pending[n], Resend(n, f)
      PROVE  SessionsSound'
  <2>1. f \in Trackeds BY <1>0 DEF TypeOK
  <2> DEFINE copy == [f EXCEPT !.copies = @ + 1, !.sent = Dispatched(n, f.dst)]
  <2>2. copy.dst = f.dst BY <2>1, DispatchedType, CopyType
  <2>3. \A m \in Nodes : \A h \in pending'[m] : \E g \in pending[m] : h.dst = g.dst
    <3>1. pending' = [pending EXCEPT ![n] = (@ \ {f}) \cup {copy}] BY <1>6 DEF Resend
    <3> HIDE DEF copy
    <3> QED BY <1>0, <2>2, <3>1 DEF TypeOK
  <2> QED BY <1>3, <1>6, <2>3 DEF Resend
<1>7. ASSUME ~\E n \in Nodes : Crash(n), NEW p \in net, Receive(p) PROVE SessionsSound'
  <2>1. AnswerWithSurb(p) BY <1>7 DEF Receive, HandleFragment
  <2> QED BY <1>0, <1>3, <1>7, <2>1, AnswerEffect DEF SameFragment
<1>8. ASSUME ~\E n \in Nodes : Crash(n), NEW p \in net, LateReply(p) PROVE SessionsSound'
  <2>1. p \in Packets /\ Acknowledge(p) BY <1>0, <1>8 DEF LateReply, TypeOK
  <2> QED BY <1>0, <1>3, <1>8, <2>1, AcknowledgeEffect DEF SameFragment
<1>9. ASSUME ~\E n \in Nodes : Crash(n), UNCHANGED sessionVars PROVE SessionsSound'
  BY <1>3, <1>9
<1>10. \/ UNCHANGED sessionVars
       \/ \E n \in Nodes : \/ SendModel(n) \/ Crash(n)
                           \/ \E d \in Peers(n) : LinkLost(n, d) \/ DialFails(n, d)
                           \/ \E f \in pending[n] : Resend(n, f) \/ GiveUp(n, f)
       \/ \E p \in net : Receive(p) \/ LateReply(p)
  <2>1. ASSUME NEW n \in Nodes, EndFull(n) \/ EndStall(n) PROVE UNCHANGED sessionVars
    BY <2>1 DEF EndFull, EndStall, NextRound
  <2>2. ASSUME NEW p \in net, Lose(p) PROVE UNCHANGED sessionVars
    BY <2>2 DEF Lose
  <2>3. CASE UNCHANGED vars
    BY <2>3 DEF vars
  <2> HIDE DEF sessionVars
  <2> QED BY <2>1, <2>2, <2>3 DEF Next
<1> QED
  BY <1>1, <1>2, <1>4, <1>5, <1>6, <1>7, <1>8, <1>9, <1>10 DEF Peers

LEMMA LinksStep == IInv /\ [Next]_vars => LinksSound'
<1> SUFFICES ASSUME IInv, [Next]_vars, NEW n \in Nodes, NEW d \in unlinked'[n]
             PROVE  ~Alive(d)'
  BY DEF LinksSound
<1> USE DEF sessionVars
<1>0. TypeOK /\ LinksSound BY DEF IInv
<1>1. \A m \in Nodes : Alive(m)' => Alive(m)
  BY LivingStep, CrashEffect
<1>2. CASE d \in unlinked[n]
  <2>1. d \in Nodes /\ ~Alive(d) BY <1>0, <1>2 DEF LinksSound, TypeOK
  <2> QED BY <1>1, <2>1
<1>3. ASSUME NEW m \in Nodes, NEW e \in Peers(m), LinkLost(m, e) PROVE ~Alive(d)'
  <2>1. (d \in unlinked[n] \/ d = e) /\ ~Alive(e) BY <1>0, <1>3 DEF LinkLost, TypeOK
  <2> QED BY <1>1, <1>2, <2>1 DEF Peers
<1>4. ASSUME NEW m \in Nodes, Crash(m) PROVE d \in unlinked[n]
  BY <1>0, <1>4 DEF Crash, TypeOK
<1>5. ASSUME NEW p \in net, Receive(p) \/ LateReply(p) PROVE unlinked' = unlinked
  <2>0. p \in Packets BY <1>0 DEF TypeOK
  <2>1. AnswerWithSurb(p) \/ Acknowledge(p)
    BY <1>5 DEF Receive, HandleFragment, LateReply
  <2> QED BY <1>0, <2>0, <2>1, AnswerEffect, AcknowledgeEffect
<1>6. ASSUME NEW m \in Nodes, SendModel(m) \/ EndFull(m) \/ EndStall(m)
      PROVE  unlinked' = unlinked
  <2>1. CASE SendModel(m) BY <2>1 DEF SendModel
  <2>2. CASE EndFull(m) \/ EndStall(m) BY <2>2 DEF EndFull, EndStall, NextRound
  <2> QED BY <1>6, <2>1, <2>2
<1>7. \/ unlinked' = unlinked
      \/ \E m \in Nodes : Crash(m) \/ \E e \in Peers(m) : LinkLost(m, e)
  BY <1>5, <1>6 DEF Next, vars, DialFails, Resend, GiveUp, Lose
<1> QED BY <1>2, <1>3, <1>4, <1>7

LEMMA BucketsStep == IInv /\ [Next]_vars => BucketsSound'
<1> SUFFICES ASSUME IInv, [Next]_vars PROVE BucketsSound'
  OBVIOUS
<1> USE DEF nodeVars, storeVars, sessionVars
<1>0. TypeOK /\ BucketsSound /\ NetSound BY DEF IInv
<1>1. ASSUME \A n \in Nodes : bucket'[n] \subseteq bucket[n],
             \A n \in Nodes : seen[n] \subseteq seen'[n] \/ bucket'[n] = {}
      PROVE  BucketsSound'
  <2> SUFFICES ASSUME NEW n \in Nodes, NEW p \in bucket'[n]
               PROVE  /\ p.src \in Peers(n) /\ p.part \in Parts
                      /\ <<p.src, p.round, p.part>> \in seen'[n]
                      /\ \A q \in bucket'[n] :
                           q.src = p.src /\ q.round = p.round /\ q.part = p.part => q = p
    BY DEF BucketsSound, Peers
  <2> QED BY <1>0, <1>1 DEF BucketsSound
<1>2. ASSUME NEW p \in net, p.kind = "fragment", Store(p) PROVE BucketsSound'
  <2> DEFINE d == p.dst
             id == <<p.src, p.round, p.part>>
  <2>1. /\ p \in Packets /\ d \in Nodes /\ p.src \in Peers(d) /\ p.part \in Parts
    BY <1>0, <1>2 DEF TypeOK, NetSound, Packets, Peers
  <2>2. /\ \A n \in Nodes : seen[n] \subseteq seen'[n]
        /\ id \in seen'[d]
    BY <1>0, <1>2, <2>1 DEF Store, TypeOK
  <2>3. /\ \A n \in Nodes \ {d} : bucket'[n] = bucket[n]
        /\ bucket'[d] = bucket[d] \/ (bucket'[d] = bucket[d] \cup {p} /\ id \notin seen[d])
    BY <1>0, <1>2, <2>1 DEF Store, TypeOK
  <2>4. CASE \A n \in Nodes : bucket'[n] \subseteq bucket[n]
    BY <1>1, <2>2, <2>4
  <2>5. CASE bucket'[d] = bucket[d] \cup {p} /\ id \notin seen[d]
    <3> SUFFICES ASSUME NEW n \in Nodes, NEW q \in bucket'[n]
                 PROVE  /\ q.src \in Peers(n) /\ q.part \in Parts
                        /\ <<q.src, q.round, q.part>> \in seen'[n]
                        /\ \A o \in bucket'[n] :
                             o.src = q.src /\ o.round = q.round /\ o.part = q.part => o = q
      BY DEF BucketsSound, Peers
    <3>1. CASE n # d
      BY <1>0, <2>2, <2>3, <3>1 DEF BucketsSound
    <3>2. CASE n = d
      <4>1. \A o \in bucket[d] : ~(o.src = p.src /\ o.round = p.round /\ o.part = p.part)
        <5> SUFFICES ASSUME NEW o \in bucket[d],
                            o.src = p.src /\ o.round = p.round /\ o.part = p.part
                     PROVE  FALSE
          OBVIOUS
        <5>1. <<o.src, o.round, o.part>> \in seen[d]
          BY <1>0, <2>1 DEF BucketsSound
        <5> QED BY <2>5, <5>1
      <4>2. CASE q = p
        BY <2>1, <2>2, <2>5, <3>2, <4>1, <4>2
      <4>3. CASE q \in bucket[d]
        BY <1>0, <2>1, <2>2, <2>5, <3>2, <4>1, <4>3 DEF BucketsSound
      <4> QED BY <2>5, <3>2, <4>2, <4>3
    <3> QED BY <3>1, <3>2
  <2> QED BY <2>3, <2>4, <2>5
<1>3. ASSUME NEW n \in Nodes, EndFull(n) \/ EndStall(n) PROVE BucketsSound'
  <2>1. \A m \in Nodes : bucket'[m] \subseteq bucket[m] /\ seen' = seen
    <3>1. bucket' = [bucket EXCEPT ![n] = @ \ Received(n)] /\ seen' = seen
      BY <1>3 DEF EndFull, EndStall, NextRound
    <3> QED BY <1>0, <3>1 DEF TypeOK
  <2> QED BY <1>1, <2>1
<1>4. ASSUME NEW n \in Nodes, Crash(n) PROVE BucketsSound'
  <2>1. \A m \in Nodes : /\ bucket'[m] \subseteq bucket[m]
                         /\ seen[m] \subseteq seen'[m] \/ bucket'[m] = {}
    BY <1>0, <1>4 DEF Crash, TypeOK
  <2> QED BY <1>1, <2>1
<1>5. CASE UNCHANGED storeVars
  BY <1>1, <1>5
<1>6. ASSUME NEW n \in Nodes, SendModel(n) PROVE UNCHANGED storeVars
  BY <1>6 DEF SendModel
<1>7. \/ UNCHANGED storeVars
      \/ \E n \in Nodes : EndFull(n) \/ EndStall(n) \/ Crash(n)
      \/ \E p \in net : p.kind = "fragment" /\ Store(p)
  BY <1>6 DEF Next, vars, LinkLost, DialFails, Resend, GiveUp, Receive, HandleFragment, LateReply, Lose
<1> QED BY <1>2, <1>3, <1>4, <1>5, <1>7

\* Losses and late timers are only ever counted up, one at a time.
LEMMA CountersStep ==
    ASSUME IInv, [Next]_vars
    PROVE  /\ lost' \in {lost, lost + 1} /\ slow' \in {slow, slow + 1}
           /\ lost \in Nat /\ slow \in Nat
<1>0. TypeOK BY DEF IInv
<1>1. ASSUME NEW n \in Nodes, SendModel(n) PROVE UNCHANGED <<lost, slow>>
  BY <1>1 DEF SendModel
<1>2. ASSUME NEW n \in Nodes, EndFull(n) \/ EndStall(n)
      PROVE  lost' = lost /\ slow' \in {slow, slow + 1}
  BY <1>2 DEF EndFull, EndStall, NextRound, TimedOut
<1>3. ASSUME NEW n \in Nodes, NEW f \in pending[n], Resend(n, f) \/ GiveUp(n, f)
      PROVE  lost' = lost /\ slow' \in {slow, slow + 1}
  BY <1>3 DEF Resend, GiveUp, Stale, TimedOut
<1>4. ASSUME NEW p \in net, Receive(p) \/ LateReply(p) \/ Lose(p)
      PROVE  lost' \in {lost, lost + 1} /\ slow' \in {slow, slow + 1}
  <2>1. CASE Receive(p)
    <3>1. AnswerWithSurb(p) BY <2>1 DEF Receive, HandleFragment
    <3> QED BY <1>0, <3>1, AnswerEffect
  <2> QED BY <1>4, <2>1 DEF LateReply, Lose
<1>5. ASSUME NEW n \in Nodes, Crash(n) \/ \E d \in Peers(n) : LinkLost(n, d) \/ DialFails(n, d)
      PROVE  UNCHANGED <<lost, slow>>
  BY <1>5 DEF Crash, LinkLost, DialFails
<1>6. ASSUME UNCHANGED vars PROVE UNCHANGED <<lost, slow>>
  BY <1>6 DEF vars
<1>7. lost' \in {lost, lost + 1} /\ slow' \in {slow, slow + 1}
  BY <1>1, <1>2, <1>3, <1>4, <1>5, <1>6 DEF Next
<1> QED BY <1>0, <1>7 DEF TypeOK

LEMMA CopiesStep == IInv /\ [Next]_vars => CopiesCounted'
<1> SUFFICES ASSUME IInv, [Next]_vars, slow' = 0,
                    NEW n \in Nodes, NEW f \in pending'[n], Alive(f.dst)'
             PROVE  f.copies <= IF UnderWay(n, f)' THEN lost' + 1 ELSE lost'
  BY DEF CopiesCounted
<1> DEFINE Counted == f.copies <= IF UnderWay(n, f)' THEN lost' + 1 ELSE lost'
<1> USE DEF nodeVars, storeVars, sessionVars
<1>0. /\ TypeOK /\ NetSound /\ SessionsSound
      /\ slow = 0 /\ lost \in Nat /\ lost' \in {lost, lost + 1}
  BY CountersStep DEF IInv
<1>1. \A g \in pending[n] :
         /\ g \in Trackeds /\ g.dst \in Nodes /\ g.copies \in Nat
         /\ Alive(g.dst) => g.copies <= IF UnderWay(n, g) THEN lost + 1 ELSE lost
  <2> TAKE g \in pending[n]
  <2>1. g \in Trackeds BY <1>0 DEF TypeOK
  <2> QED BY <1>0, <2>1 DEF Trackeds, IInv, CopiesCounted
<1>2. \A m \in Nodes : Alive(m)' => Alive(m)
  BY LivingStep, CrashEffect
\* What is of a fragment stays of it, whatever is noted about it.
<1>3. \A q, g : SameFragment(f, g) => (IsOf(q, f) <=> IsOf(q, g))
  BY DEF SameFragment, IsOf
<1>4. ASSUME NEW g \in pending[n], SameFragment(f, g),
             \/ lost' = lost + 1
             \/ UnderWay(n, g) => UnderWay(n, f)'
      PROVE  Counted
  <2>1. f.copies = g.copies /\ f.dst = g.dst BY <1>4 DEF SameFragment
  <2>2. g.copies <= (IF UnderWay(n, g) THEN lost + 1 ELSE lost) /\ g.copies \in Nat
    BY <1>1, <1>2, <2>1
  <2> HIDE DEF UnderWay
  <2> QED BY <1>0, <1>4, <2>1, <2>2
<1>5. ASSUME net \subseteq net', f \in pending[n] PROVE Counted
  BY <1>4, <1>5 DEF SameFragment, UnderWay
<1>6. ASSUME NEW m \in Nodes, SendModel(m) PROVE Counted
  <2>1. net \subseteq net' BY <1>0, <1>6, SendEffect
  <2>2. CASE f \in pending[n] BY <1>5, <2>1, <2>2
  <2>3. CASE f \notin pending[n]
    <3>1. /\ m = n /\ f.copies = 1 /\ f.dst \in Nodes
          /\ Alive(f.dst) => Fragment(n, f.dst, f.round, f.part, 1) \in net'
      BY <1>0, <1>6, <2>3, SendEffect DEF Peers
    <3> DEFINE q == Fragment(n, f.dst, f.round, f.part, 1)
    <3>2. q \in net' BY <1>2, <3>1
    <3>3. q.src = n /\ IsOf(q, f) BY DEF Fragment, IsOf
    <3>4. UnderWay(n, f)'
      <4> HIDE DEF q
      <4> QED BY <3>2, <3>3 DEF UnderWay, IsOf
    <3> QED BY <1>0, <3>1, <3>4
  <2> QED BY <2>2, <2>3
<1>7. ASSUME NEW m \in Nodes, NEW g \in pending[m], Resend(m, g) PROVE Counted
  <2>1. net \subseteq net' /\ lost' = lost /\ stage' = stage
    BY <1>7 DEF Resend
  <2>2. CASE f \in pending[n] BY <1>5, <2>1, <2>2
  <2>3. CASE f \notin pending[n]
    <3>1. m = n /\ f = [g EXCEPT !.copies = @ + 1, !.sent = Dispatched(m, g.dst)]
      BY <1>0, <1>7, <2>3 DEF Resend, TypeOK
    <3>2. g \in Trackeds /\ g.copies \in Nat BY <1>1, <3>1
    <3>3. /\ f.dst = g.dst /\ f.round = g.round /\ f.part = g.part
          /\ f.copies = g.copies + 1
      BY <3>1, <3>2, DispatchedType, CopyType
    <3>4. ~UnderWay(m, g)
      BY <1>0, <1>7 DEF Resend, Stale, TimedOut
    <3>5. g.copies <= lost
      BY <1>1, <1>2, <3>1, <3>3, <3>4 DEF Resend
    <3> DEFINE q == Fragment(n, f.dst, f.round, f.part, f.copies)
    <3>6. q.src = n /\ IsOf(q, f) /\ Receiver(q) = f.dst
      BY DEF Fragment, IsOf, Receiver
    <3>7. net' = net \cup Deliverable({q})
      BY <1>7, <3>1, <3>3 DEF Resend
    <3>8. Alive(f.dst) BY <1>1, <1>2, <3>1, <3>3
    <3> HIDE DEF q
    <3>9. q \in net' BY <3>6, <3>7, <3>8 DEF Deliverable
    <3>10. UnderWay(n, f)' BY <3>6, <3>9 DEF UnderWay, IsOf
    <3> QED BY <1>0, <2>1, <3>2, <3>3, <3>5, <3>10
  <2> QED BY <2>2, <2>3
<1>8. ASSUME NEW p \in net, Receive(p) PROVE Counted
  <2>1. AnswerWithSurb(p) BY <1>8 DEF Receive, HandleFragment
  <2>2. PICK g \in pending[n] :
           /\ SameFragment(f, g)
           /\ \/ n = p.src => ~IsOf(p, g)
              \/ slow' = slow + 1
              \/ lost' = lost + 1
              \/ ~Alive(p.src)
    BY <1>0, <2>1, AnswerEffect
  <2>3. net' = net \ {p} BY <1>0, <2>1, AnswerEffect
  <2>4. n = p.src => Alive(p.src)
    BY <1>0, <2>2 DEF SessionsSound
  <2>5. \/ lost' = lost + 1
        \/ UnderWay(n, g) => UnderWay(n, f)'
    BY <1>0, <1>3, <2>2, <2>3, <2>4 DEF UnderWay, IsOf
  <2> QED BY <1>4, <2>2, <2>5
<1>9. ASSUME NEW p \in net, LateReply(p) PROVE Counted
  <2>1. p \in Packets /\ Acknowledge(p) /\ net' = net \ {p}
    BY <1>0, <1>9 DEF LateReply, TypeOK
  <2>2. PICK g \in pending[n] : SameFragment(f, g) /\ (n = p.src => ~IsOf(p, g))
    BY <1>0, <2>1, AcknowledgeEffect
  <2>3. UnderWay(n, g) => UnderWay(n, f)'
    BY <1>3, <2>1, <2>2 DEF UnderWay, IsOf
  <2> QED BY <1>4, <2>2, <2>3
<1>10. ASSUME NEW p \in net, Lose(p) PROVE Counted
  BY <1>4, <1>10 DEF Lose, SameFragment
<1>11. ASSUME NEW m \in Nodes, Crash(m) PROVE Counted
  <2>1. f \in pending[n] /\ n # m
    BY <1>0, <1>11 DEF Crash, TypeOK
  <2>2. f.dst # m BY <1>11, CrashEffect
  <2>3. ASSUME NEW q \in net, q.src = n, IsOf(q, f) PROVE q \in net'
    <3>1. Receiver(q) # m BY <2>1, <2>2, <2>3 DEF Receiver, IsOf
    <3> QED BY <1>11, <3>1 DEF Crash
  <2>4. UnderWay(n, f) => UnderWay(n, f)' BY <2>3 DEF UnderWay, IsOf
  <2> QED BY <1>4, <2>1, <2>4 DEF SameFragment
<1>12. \/ UNCHANGED <<pending, net>>
       \/ \E m \in Nodes : SendModel(m) \/ Crash(m) \/ \E g \in pending[m] : Resend(m, g)
       \/ \E p \in net : Receive(p) \/ LateReply(p) \/ Lose(p)
  <2>1. ASSUME NEW m \in Nodes, EndFull(m) \/ EndStall(m) PROVE UNCHANGED <<pending, net>>
    BY <2>1 DEF EndFull, EndStall, NextRound
  <2> QED BY <2>1 DEF Next, vars, LinkLost, DialFails, GiveUp
<1> QED BY <1>5, <1>6, <1>7, <1>8, <1>9, <1>10, <1>11, <1>12

LEMMA KeptStep == IInv /\ [Next]_vars => LivePeerKept'
<1> SUFFICES ASSUME IInv, [Next]_vars, lost' <= MaxResends, slow' = 0,
                    NEW n \in Nodes, NEW d \in unreachable'[n]
             PROVE  ~Alive(d)'
  BY DEF LivePeerKept
<1> USE DEF nodeVars, storeVars, sessionVars
<1>0. /\ TypeOK /\ slow = 0 /\ lost \in Nat /\ lost' \in {lost, lost + 1}
      /\ lost <= MaxResends
  BY CountersStep, ExchangeAssumption, SMT DEF IInv
<1>1. \A m \in Nodes : Alive(m)' => Alive(m)
  BY LivingStep, CrashEffect
<1>2. CASE d \in unreachable[n]
  <2>1. d \in Nodes /\ ~Alive(d) BY <1>0, <1>2 DEF IInv, LivePeerKept, TypeOK
  <2> QED BY <1>1, <2>1
<1>3. ASSUME NEW m \in Nodes, NEW f \in pending[m], GiveUp(m, f) PROVE ~Alive(d)'
  <2>1. f \in Trackeds /\ f.dst \in Nodes /\ f.copies \in Nat
    BY <1>0 DEF TypeOK, Trackeds
  <2>2. d \in unreachable[n] \/ (m = n /\ d = f.dst)
    BY <1>0, <1>3 DEF GiveUp, TypeOK
  <2>3. CASE m = n /\ d = f.dst
    <3>1. ~UnderWay(m, f) /\ f.copies > MaxResends
      BY <1>0, <1>3 DEF GiveUp, Stale, TimedOut
    <3>2. Alive(f.dst) => f.copies <= lost
      BY <1>0, <3>1 DEF IInv, CopiesCounted
    <3>3. ~Alive(f.dst)
      BY <1>0, <2>1, <3>1, <3>2, ExchangeAssumption
    <3> QED BY <1>1, <2>1, <2>3, <3>3
  <2> QED BY <1>2, <2>2, <2>3
<1>4. ASSUME NEW m \in Nodes, NEW e \in Peers(m), LinkLost(m, e) \/ DialFails(m, e)
      PROVE  ~Alive(d)'
  <2>1. d \in unreachable[n] \/ d = e
    BY <1>0, <1>4 DEF LinkLost, DialFails, TypeOK
  <2>2. ~Alive(e)
    BY <1>4 DEF LinkLost, DialFails, IInv, LinksSound
  <2> QED BY <1>1, <1>2, <2>1, <2>2 DEF Peers
<1>5. ASSUME NEW p \in net, Receive(p) \/ LateReply(p) PROVE d \in unreachable[n]
  <2>0. p \in Packets BY <1>0 DEF TypeOK
  <2>1. AnswerWithSurb(p) \/ Acknowledge(p)
    BY <1>5 DEF Receive, HandleFragment, LateReply
  <2> QED BY <1>0, <2>0, <2>1, AnswerEffect, AcknowledgeEffect
<1>6. ASSUME NEW m \in Nodes, Crash(m) PROVE d \in unreachable[n]
  BY <1>0, <1>6 DEF Crash, TypeOK
<1>7. \/ unreachable' = unreachable
      \/ \E m \in Nodes : \/ Crash(m)
                          \/ \E e \in Peers(m) : LinkLost(m, e) \/ DialFails(m, e)
                          \/ \E f \in pending[m] : GiveUp(m, f)
      \/ \E p \in net : Receive(p) \/ LateReply(p)
  <2>1. ASSUME NEW m \in Nodes, SendModel(m) \/ EndFull(m) \/ EndStall(m)
        PROVE  unreachable' = unreachable
    <3>1. CASE SendModel(m) BY <3>1 DEF SendModel
    <3>2. CASE EndFull(m) \/ EndStall(m) BY <3>2 DEF EndFull, EndStall, NextRound
    <3> QED BY <2>1, <3>1, <3>2
  <2>2. ASSUME NEW m \in Nodes, NEW f \in pending[m], Resend(m, f)
        PROVE  unreachable' = unreachable
    BY <2>2 DEF Resend
  <2>3. ASSUME NEW p \in net, Lose(p) PROVE unreachable' = unreachable
    BY <2>3 DEF Lose
  <2>4. CASE UNCHANGED vars BY <2>4 DEF vars
  <2> QED BY <2>1, <2>2, <2>3, <2>4 DEF Next
<1> QED BY <1>2, <1>3, <1>4, <1>5, <1>6, <1>7

\* What a node closes a round, or storing a fragment, does to the buckets.
LEMMA EndEffect ==
    ASSUME IInv, NEW n \in Nodes, EndFull(n) \/ EndStall(n)
    PROVE  /\ \A m \in Nodes, r \in Rounds : Needs(m, r)' =>
                /\ Needs(m, r)
                /\ \A d, c : Has(m, d, r, c) => Has(m, d, r, c)'
           /\ \A d \in Nodes, r \in Rounds : Sent(d, r)' => Sent(d, r)
           /\ UNCHANGED <<seen, net, lost>>
<1>0. TypeOK BY DEF IInv
<1>1. NextRound(n) BY DEF EndFull, EndStall
<1>2. \A m \in Nodes \ {n} : /\ round'[m] = round[m] /\ stage'[m] = stage[m]
                             /\ bucket'[m] = bucket[m]
  BY <1>0, <1>1 DEF NextRound, TypeOK
<1>3. /\ stage[n] = "await"
      /\ \/ stage'[n] = "done" /\ round'[n] = round[n]
         \/ stage'[n] = "train" /\ round'[n] = round[n] + 1
      /\ bucket'[n] = bucket[n] \ Received(n)
      /\ UNCHANGED <<seen, net, lost>>
  BY <1>0, <1>1 DEF NextRound, TypeOK
<1>4. \A m \in Nodes : round[m] \in Nat
  BY <1>0 DEF TypeOK, Rounds
<1>5. ASSUME NEW m \in Nodes, NEW r \in Rounds, Needs(m, r)'
      PROVE  Needs(m, r) /\ \A d, c : Has(m, d, r, c) => Has(m, d, r, c)'
  <2>1. CASE m # n BY <1>2, <1>5, <2>1 DEF Needs, Has
  <2>2. CASE m = n
    <3>1. r \in Nat /\ r >= round[n] + 1
      BY <1>3, <1>5, <2>2 DEF Needs, Rounds
    <3>2. \A q \in bucket[n] : q.round = r => q \in bucket'[n]
      BY <1>3, <1>4, <3>1 DEF Received
    <3> QED BY <1>3, <1>4, <2>2, <3>1, <3>2 DEF Needs, Has
  <2> QED BY <2>1, <2>2
<1>6. ASSUME NEW d \in Nodes, NEW r \in Rounds, Sent(d, r)' PROVE Sent(d, r)
  <2>1. CASE d # n BY <1>2, <1>6, <2>1 DEF Sent, Alive
  <2>2. CASE d = n BY <1>3, <1>4, <1>6, <2>2 DEF Sent, Alive, Rounds
  <2> QED BY <2>1, <2>2
<1> QED BY <1>3, <1>5, <1>6

LEMMA StoreEffect ==
    ASSUME IInv, NEW p \in net, p.kind = "fragment", Store(p), UNCHANGED nodeVars
    PROVE  /\ p.src \in Nodes /\ p.dst \in Nodes /\ p.round \in Rounds /\ p.part \in Parts
           /\ \A n \in Nodes : bucket[n] \subseteq bucket'[n]
           /\ \A n \in Nodes : \A i \in seen'[n] :
                i \in seen[n] \/ (n = p.dst /\ i = <<p.src, p.round, p.part>>)
           /\ Needs(p.dst, p.round) => Has(p.dst, p.src, p.round, p.part)'
<1>0. TypeOK /\ NetSound BY DEF IInv
<1>1. /\ p.src \in Nodes /\ p.dst \in Nodes /\ p.round \in Rounds /\ p.part \in Parts
  BY <1>0 DEF TypeOK, NetSound, Packets
<1>2. \A n \in Nodes : bucket[n] \subseteq bucket'[n]
  BY <1>0, <1>1 DEF Store, TypeOK
<1>3. \A n \in Nodes : \A i \in seen'[n] :
         i \in seen[n] \/ (n = p.dst /\ i = <<p.src, p.round, p.part>>)
  BY <1>0, <1>1 DEF Store, TypeOK
<1>4. ASSUME Needs(p.dst, p.round) PROVE Has(p.dst, p.src, p.round, p.part)'
  <2>1. CASE <<p.src, p.round, p.part>> \in seen[p.dst]
    <3>1. Has(p.dst, p.src, p.round, p.part)
      BY <1>1, <1>4, <2>1 DEF IInv, SeenKept
    <3> QED BY <1>1, <1>2, <3>1 DEF Has
  <2>2. CASE <<p.src, p.round, p.part>> \notin seen[p.dst]
    <3>1. p \in bucket'[p.dst]
      BY <1>0, <1>1, <1>4, <2>2 DEF Store, TypeOK, Needs
    <3> QED BY <3>1 DEF Has
  <2> QED BY <2>1, <2>2
<1> QED BY <1>1, <1>2, <1>3, <1>4

LEMMA SeenStep == IInv /\ [Next]_vars => SeenKept'
<1> SUFFICES ASSUME IInv, [Next]_vars,
                    NEW n \in Nodes, NEW d \in Nodes, NEW r \in Rounds, NEW c \in Parts,
                    <<d, r, c>> \in seen'[n], Needs(n, r)'
             PROVE  Has(n, d, r, c)'
  BY DEF SeenKept
<1> USE DEF nodeVars, storeVars, sessionVars
<1>0. TypeOK /\ SeenKept BY DEF IInv
<1>1. ASSUME UNCHANGED storeVars, Needs(n, r) PROVE Has(n, d, r, c)'
  BY <1>0, <1>1 DEF SeenKept, Has
<1>2. CASE UNCHANGED <<storeVars, nodeVars>>
  BY <1>1, <1>2 DEF Needs
<1>3. ASSUME NEW m \in Nodes, SendModel(m) PROVE Has(n, d, r, c)'
  <2>1. UNCHANGED storeVars /\ round' = round BY <1>3 DEF SendModel
  <2>2. Needs(n, r) BY <1>0, <1>3, <2>1 DEF SendModel, Needs, TypeOK
  <2> QED BY <1>1, <2>1, <2>2
<1>4. ASSUME NEW m \in Nodes, EndFull(m) \/ EndStall(m) PROVE Has(n, d, r, c)'
  BY <1>0, <1>4, EndEffect DEF SeenKept
<1>5. ASSUME NEW m \in Nodes, Crash(m) PROVE Has(n, d, r, c)'
  <2>1. n # m BY <1>0, <1>5 DEF Crash, TypeOK
  <2>2. /\ bucket'[n] = bucket[n] /\ seen'[n] = seen[n]
        /\ round'[n] = round[n] /\ stage'[n] = stage[n]
    BY <1>0, <1>5, <2>1 DEF Crash, TypeOK
  <2> QED BY <1>0, <2>2 DEF SeenKept, Needs, Has
<1>6. ASSUME NEW p \in net, p.kind = "fragment", Store(p), UNCHANGED nodeVars
      PROVE  Has(n, d, r, c)'
  <2>1. Needs(n, r) BY <1>6 DEF Needs
  <2>2. CASE <<d, r, c>> \in seen[n]
    <3>1. Has(n, d, r, c) BY <1>0, <2>1, <2>2 DEF SeenKept
    <3> QED BY <1>6, <3>1, StoreEffect DEF Has
  <2>3. CASE <<d, r, c>> \notin seen[n]
    <3>1. n = p.dst /\ <<d, r, c>> = <<p.src, p.round, p.part>>
      BY <1>6, <2>3, StoreEffect
    <3>2. d = p.src /\ r = p.round /\ c = p.part BY <3>1
    <3> QED BY <1>6, <2>1, <3>1, <3>2, StoreEffect
  <2> QED BY <2>2, <2>3
<1>7. \/ UNCHANGED <<storeVars, nodeVars>>
      \/ \E m \in Nodes : SendModel(m) \/ EndFull(m) \/ EndStall(m) \/ Crash(m)
      \/ \E p \in net : p.kind = "fragment" /\ Store(p) /\ UNCHANGED nodeVars
  BY DEF Next, vars, LinkLost, DialFails, Resend, GiveUp, Receive, HandleFragment, LateReply, Lose
<1> QED BY <1>2, <1>3, <1>4, <1>5, <1>6, <1>7

LEMMA MissingStep == IInv /\ [Next]_vars => MissingOnlyLost'
<1> SUFFICES ASSUME IInv, [Next]_vars, slow' = 0, lost' <= 1, MaxResends >= 1
             PROVE  \A n, d, m, e \in Nodes, r, s \in Rounds, b, c \in Parts :
                      Lacks(n, d, r, b)' /\ Lacks(m, e, s, c)' =>
                        lost' = 1 /\ n = m /\ d = e /\ r = s /\ b = c
  BY DEF MissingOnlyLost
<1> DEFINE Goal == \A n, d, m, e \in Nodes, r, s \in Rounds, b, c \in Parts :
                      Lacks(n, d, r, b)' /\ Lacks(m, e, s, c)' =>
                        lost' = 1 /\ n = m /\ d = e /\ r = s /\ b = c
<1> USE DEF nodeVars, storeVars, sessionVars
<1>0. TypeOK /\ NetSound BY DEF IInv
<1>1. slow = 0 /\ lost \in Nat /\ lost' \in {lost, lost + 1} /\ lost <= 1
  BY CountersStep, SMT
<1>2. \A n, d, m, e \in Nodes, r, s \in Rounds, b, c \in Parts :
         Lacks(n, d, r, b) /\ Lacks(m, e, s, c) =>
           lost = 1 /\ n = m /\ d = e /\ r = s /\ b = c
  <2>1. MissingOnlyLost BY DEF IInv
  <2> QED BY <1>1, <2>1 DEF MissingOnlyLost
<1>3. ASSUME \A n, d \in Nodes, r \in Rounds, c \in Parts :
                Lacks(n, d, r, c)' => Lacks(n, d, r, c)
      PROVE  Goal
  <2>1. lost = 1 => lost' = 1 BY <1>1
  <2> QED BY <1>2, <1>3, <2>1
<1>4. ASSUME /\ bucket' = bucket /\ net \subseteq net'
             /\ UNCHANGED nodeVars
      PROVE  Goal
  <2> SUFFICES ASSUME NEW n \in Nodes, NEW d \in Nodes, NEW r \in Rounds, NEW c \in Parts,
                      Lacks(n, d, r, c)'
               PROVE  Lacks(n, d, r, c)
    BY <1>3
  <2>1. Needs(n, r) /\ Sent(d, r)
    BY <1>4 DEF Lacks, Needs, Sent, Alive
  <2>2. ~Has(n, d, r, c) BY <1>4 DEF Lacks, Has
  <2>3. ~OnItsWay(n, d, r, c) BY <1>4 DEF Lacks, OnItsWay
  <2> QED BY <2>1, <2>2, <2>3 DEF Lacks
<1>5. ASSUME NEW k \in Nodes, SendModel(k) PROVE Goal
  <2> SUFFICES ASSUME NEW n \in Nodes, NEW d \in Nodes, NEW r \in Rounds, NEW c \in Parts,
                      Lacks(n, d, r, c)'
               PROVE  Lacks(n, d, r, c)
    BY <1>3
  <2>1. /\ bucket' = bucket /\ round' = round
        /\ stage' = [stage EXCEPT ![k] = "await"] /\ stage[k] = "train"
    BY <1>5 DEF SendModel
  <2>2. net \subseteq net' BY <1>0, <1>5, SendEffect
  <2>3. n # d /\ Needs(n, r) /\ ~Has(n, d, r, c) /\ ~OnItsWay(n, d, r, c)
    BY <1>0, <2>1, <2>2 DEF Lacks, Needs, Has, OnItsWay, TypeOK
  <2>4. CASE d = k /\ r = round[k]
    <3>1. Alive(n) BY <2>3 DEF Needs, Alive
    <3>2. n \in Peers(k) \ unreachable[k]
      BY <1>1, <2>3, <2>4, <3>1, ExchangeAssumption DEF IInv, LivePeerKept, Peers
    <3>3. Fragment(k, n, round[k], c, 1) \in net'
      BY <1>0, <1>5, <3>1, <3>2, SendEffect
    <3>4. OnItsWay(n, d, r, c)'
      <4> DEFINE q == Fragment(k, n, round[k], c, 1)
      <4>1. q.kind = "fragment" /\ q.src = k /\ q.dst = n /\ q.round = round[k] /\ q.part = c
        BY DEF Fragment
      <4> HIDE DEF q
      <4>2. q \in net' BY <3>3 DEF q
      <4> QED BY <2>4, <4>1, <4>2 DEF OnItsWay
    <3> QED BY <3>4 DEF Lacks
  <2>5. CASE ~(d = k /\ r = round[k])
    <3>1. Sent(d, r) BY <1>0, <2>1, <2>5 DEF Lacks, Sent, Alive, TypeOK
    <3> QED BY <2>3, <3>1 DEF Lacks
  <2> QED BY <2>4, <2>5
<1>6. ASSUME NEW k \in Nodes, EndFull(k) \/ EndStall(k) PROVE Goal
  <2>1. \A n, d \in Nodes, r \in Rounds, c \in Parts :
           OnItsWay(n, d, r, c) => OnItsWay(n, d, r, c)'
    BY <1>6, EndEffect DEF OnItsWay
  <2> QED BY <1>3, <1>6, <2>1, EndEffect DEF Lacks
<1>7. ASSUME NEW k \in Nodes, Crash(k) PROVE Goal
  <2> SUFFICES ASSUME NEW n \in Nodes, NEW d \in Nodes, NEW r \in Rounds, NEW c \in Parts,
                      Lacks(n, d, r, c)'
               PROVE  Lacks(n, d, r, c)
    BY <1>3
  <2>1. n # k /\ d # k
    BY <1>0, <1>7, CrashEffect DEF Crash, Lacks, Needs, Sent, TypeOK
  <2>2. \A m \in {n, d} : round'[m] = round[m] /\ stage'[m] = stage[m] /\ bucket'[m] = bucket[m]
    BY <1>0, <1>7, <2>1 DEF Crash, TypeOK
  <2>3. OnItsWay(n, d, r, c) => OnItsWay(n, d, r, c)'
    BY <1>7, <2>1 DEF Crash, OnItsWay, Receiver
  <2> QED BY <2>2, <2>3 DEF Lacks, Needs, Sent, Alive, Has
<1>8. ASSUME NEW p \in net, net \ {p} \subseteq net', UNCHANGED nodeVars,
             \A n \in Nodes : bucket[n] \subseteq bucket'[n],
             NEW n \in Nodes, NEW d \in Nodes, NEW r \in Rounds, NEW c \in Parts,
             Lacks(n, d, r, c)'
      PROVE  /\ Needs(n, r)
             /\ \/ Lacks(n, d, r, c)
                \/ /\ p.kind = "fragment" /\ p.src = d /\ p.dst = n
                   /\ p.round = r /\ p.part = c
  BY <1>8 DEF Lacks, Needs, Sent, Alive, Has, OnItsWay
<1>9. ASSUME NEW p \in net, net \ {p} \subseteq net', UNCHANGED nodeVars,
             p.kind = "fragment", Store(p)
      PROVE  Goal
  <2> SUFFICES ASSUME NEW n \in Nodes, NEW d \in Nodes, NEW r \in Rounds, NEW c \in Parts,
                      Lacks(n, d, r, c)'
               PROVE  Lacks(n, d, r, c)
    BY <1>3
  <2>1. /\ \A m \in Nodes : bucket[m] \subseteq bucket'[m]
        /\ Needs(p.dst, p.round) => Has(p.dst, p.src, p.round, p.part)'
    BY <1>9, StoreEffect
  <2>2. ~Has(n, d, r, c)' BY DEF Lacks
  <2> QED BY <1>8, <1>9, <2>1, <2>2
<1>10. ASSUME NEW p \in net, p.kind # "fragment", net \ {p} \subseteq net',
              UNCHANGED <<nodeVars, storeVars>>
       PROVE  Goal
  BY <1>3, <1>8, <1>10
<1>11. ASSUME NEW p \in net, Lose(p) PROVE Goal
  <2>1. net' = net \ {p} /\ lost' = lost + 1 /\ UNCHANGED <<nodeVars, storeVars>>
    BY <1>11 DEF Lose
  <2>2. lost = 0 /\ lost' = 1 BY <1>1, <2>1
  <2>3. \A n, d \in Nodes, r \in Rounds, c \in Parts :
           ~Lacks(n, d, r, c)
    BY <1>2, <2>2
  <2>4. \A n, d \in Nodes, r \in Rounds, c \in Parts :
           Lacks(n, d, r, c)' => p.src = d /\ p.dst = n /\ p.round = r /\ p.part = c
    BY <1>8, <2>1, <2>3
  <2> QED BY <2>2, <2>4
<1>12. ASSUME NEW p \in net, Receive(p) PROVE Goal
  <2>1. AnswerWithSurb(p) /\ UNCHANGED nodeVars BY <1>12 DEF Receive, HandleFragment
  <2>2. net \ {p} \subseteq net' BY <1>0, <2>1, AnswerEffect
  <2>3. CASE p.kind = "fragment" /\ Store(p) BY <1>9, <2>1, <2>2, <2>3
  <2>4. CASE p.kind = "probe" /\ UNCHANGED storeVars BY <1>10, <2>1, <2>2, <2>4
  <2> QED BY <1>12, <2>3, <2>4 DEF Receive, HandleFragment
<1>13. ASSUME NEW p \in net, LateReply(p) PROVE Goal
  BY <1>10, <1>13 DEF LateReply
<1>14. \/ bucket' = bucket /\ net \subseteq net' /\ UNCHANGED nodeVars
       \/ \E k \in Nodes : SendModel(k) \/ EndFull(k) \/ EndStall(k) \/ Crash(k)
       \/ \E p \in net : Receive(p) \/ LateReply(p) \/ Lose(p)
  BY DEF Next, vars, LinkLost, DialFails, Resend, GiveUp
<1> QED BY <1>4, <1>5, <1>6, <1>7, <1>11, <1>12, <1>13, <1>14

LEMMA DoneStep == IInv /\ [Next]_vars => DoneLast'
<1> SUFFICES ASSUME IInv, [Next]_vars PROVE DoneLast'
  OBVIOUS
<1> USE DEF nodeVars
<1>0. TypeOK /\ DoneLast BY DEF IInv
<1>1. ASSUME NEW n \in Nodes, SendModel(n) PROVE DoneLast'
  <2>1. round' = round /\ stage' = [stage EXCEPT ![n] = "await"]
    BY <1>1 DEF SendModel
  <2> QED BY <1>0, <2>1 DEF DoneLast, TypeOK
<1>2. ASSUME NEW n \in Nodes, EndFull(n) \/ EndStall(n) PROVE DoneLast'
  <2>1. NextRound(n) BY <1>2 DEF EndFull, EndStall
  <2> QED BY <1>0, <2>1 DEF NextRound, DoneLast, TypeOK
<1>3. ASSUME NEW n \in Nodes, Crash(n) PROVE DoneLast'
  BY <1>0, <1>3 DEF Crash, DoneLast, TypeOK
<1>4. CASE UNCHANGED nodeVars
  BY <1>0, <1>4 DEF DoneLast
<1>5. \/ UNCHANGED nodeVars
      \/ \E n \in Nodes : SendModel(n) \/ EndFull(n) \/ EndStall(n) \/ Crash(n)
  BY DEF Next, vars, LinkLost, DialFails, Resend, GiveUp, Receive, LateReply, Lose
<1> QED BY <1>1, <1>2, <1>3, <1>4, <1>5

LEMMA AlwaysIInv == Spec => []IInv
<1>1. IInv /\ [Next]_vars => IInv'
  BY TypeStep, NetStep, BucketsStep, SessionsStep, LinksStep, FaultsStep,
     CopiesStep, KeptStep,
     SeenStep, MissingStep, DoneStep DEF IInv
<1> QED BY InitIInv, <1>1, PTL DEF Spec

-----------------------------------------------------------------------------
(* What the count of fragments says. *)

\* The fragments of the round are told apart by sender and part.
LEMMA ReceivedInjects ==
    ASSUME IInv, NEW n \in Nodes
    PROVE  /\ [p \in Received(n) |-> <<p.src, p.part>>]
                \in Injection(Received(n), Peers(n) \X Parts)
           /\ IsFiniteSet(Peers(n)) /\ IsFiniteSet(Peers(n) \X Parts)
           /\ Cardinality(Peers(n) \X Parts) = Cardinality(Peers(n)) * Cardinality(Parts)
           /\ IsFiniteSet(Received(n))
           /\ Cardinality(Peers(n)) \in Nat /\ Cardinality(Parts) \in Nat
<1> DEFINE f == [p \in Received(n) |-> <<p.src, p.part>>]
<1>1. \A p \in Received(n) : p.src \in Peers(n) /\ p.part \in Parts
  BY DEF IInv, BucketsSound, Received
<1>2. \A p, q \in Received(n) : p.src = q.src /\ p.part = q.part => p = q
  BY DEF IInv, BucketsSound, Received
<1>3. f \in Injection(Received(n), Peers(n) \X Parts)
  <2>1. f \in [Received(n) -> Peers(n) \X Parts] BY <1>1
  <2>2. \A p, q \in Received(n) : f[p] = f[q] => p = q BY <1>2
  <2> HIDE DEF f
  <2> QED BY <2>1, <2>2 DEF Injection, IsInjective
<1>4. IsFiniteSet(Peers(n)) /\ IsFiniteSet(Parts)
  BY ExchangeAssumption, FS_Subset DEF Peers
<1>5. /\ IsFiniteSet(Peers(n) \X Parts)
      /\ Cardinality(Peers(n) \X Parts) = Cardinality(Peers(n)) * Cardinality(Parts)
      /\ Cardinality(Peers(n)) \in Nat /\ Cardinality(Parts) \in Nat
  BY <1>4, FS_Product, FS_CardinalityType
<1>6. IsFiniteSet(Received(n))
  BY <1>3, <1>5, FS_Injection
<1> QED BY <1>3, <1>4, <1>5, <1>6

\* Learners, stores, sessions and the packets between them keep their types.
THEOREM TypeCorrect == Spec => []TypeOK
<1>1. IInv => TypeOK BY DEF IInv
<1> QED BY AlwaysIInv, <1>1, PTL

\* A round that await_fragments ends because everything expected came, at a
\* node that has given nobody up, has every fragment of every peer exactly once:
\* the bare count of message_store.py stands for the set, whatever is resent,
\* late or twice.
THEOREM RoundCompleteAlways == Spec => []RoundComplete
<1>1. ASSUME IInv PROVE RoundComplete
  <2> SUFFICES ASSUME NEW n \in Nodes, ReceivedAll(n), unreachable[n] = {},
                      NEW d \in Peers(n), NEW c \in Parts
               PROVE  Cardinality({ p \in Received(n) : p.src = d /\ p.part = c }) = 1
    BY DEF RoundComplete
  <2> DEFINE f == [p \in Received(n) |-> <<p.src, p.part>>]
             R == Received(n)
             P == Peers(n) \X Parts
  <2>1. /\ f \in Injection(R, P) /\ IsFiniteSet(P) /\ IsFiniteSet(R)
        /\ Cardinality(P) = Cardinality(Peers(n)) * Cardinality(Parts)
        /\ IsFiniteSet(Peers(n)) /\ Cardinality(Peers(n)) \in Nat
    BY <1>1, ReceivedInjects
  <2>2. Cardinality(Peers(n)) # 0
    BY <2>1, FS_EmptySet
  <2>3. Expected(n) = Cardinality(P)
    <3>1. Peers(n) \ unreachable[n] = Peers(n) OBVIOUS
    <3> QED BY <2>1, <2>2, <3>1 DEF Expected
  <2>4. Cardinality(R) <= Cardinality(P) /\ Cardinality(R) \in Nat /\ Cardinality(P) \in Nat
    BY <2>1, FS_Injection, FS_CardinalityType
  <2>5. Cardinality(R) = Cardinality(P)
    BY <2>3, <2>4 DEF ReceivedAll
  <2>6. f \in Surjection(R, P)
    <3> HIDE DEF f, R, P
    <3> QED BY <2>1, <2>5, FS_Injection
  <2>7. PICK q \in R : f[q] = <<d, c>>
    <3> HIDE DEF f, R
    <3> QED BY <2>6 DEF Surjection
  <2>8. q.src = d /\ q.part = c
    BY <2>7
  <2>9. { p \in R : p.src = d /\ p.part = c } = {q}
    BY <1>1, <2>8 DEF IInv, BucketsSound, Received
  <2> QED BY <2>9, FS_Singleton
<1> QED BY AlwaysIInv, <1>1, PTL

\* No node gives up a peer that is alive (resend_manager.py) while no more
\* packets are lost than a fragment is resent and no timer runs out early.
THEOREM LivePeerKeptAlways == Spec => []LivePeerKept
<1>1. IInv => LivePeerKept BY DEF IInv
<1> QED BY AlwaysIInv, <1>1, PTL

-----------------------------------------------------------------------------
(* Nobody waits for ever. *)

LEMMA LeastOf ==
    ASSUME NEW T, T \subseteq Nat, T # {}
    PROVE  \E x \in T : \A y \in T : x <= y
<1>1. PICK x \in T : \A y \in T : ~(<<y, x>> \in OpToRel(<, Nat))
  BY WFMin, NatLessThanWellFounded
<1>2. ASSUME NEW y \in T PROVE x <= y
  <2>1. x \in Nat /\ y \in Nat OBVIOUS
  <2>2. ~(y < x) BY <1>1, <2>1 DEF OpToRel
  <2> QED BY <2>1, <2>2
<1> QED BY <1>2

\* A node that waits in a quiescent state while no live node is in an earlier
\* round has a fragment of each part from each live node, but for what was lost.
LEMMA LastWaits ==
    ASSUME IInv, Quiescent, slow = 0, lost <= 1, MaxResends >= 1,
           NEW n \in Nodes, stage[n] = "await",
           \A m \in Nodes : stage[m] = "await" => round[n] <= round[m]
    PROVE  LET src == (Nodes \ Dead) \ {n}
           IN  /\ IsFiniteSet(src)
               /\ Cardinality(src) * Cardinality(Parts) \in Nat
               /\ Cardinality(Received(n)) \in Nat
               /\ Cardinality(Received(n)) >= Cardinality(src) * Cardinality(Parts) - lost
<1> DEFINE src == (Nodes \ Dead) \ {n}
           due == src \X Parts
           r == round[n]
           Lacking(x) == Lacks(n, x[1], r, x[2])
           lacked == { x \in due : Lacking(x) }
           Fits(x, p) == p.src = x[1] /\ p.part = x[2]
           g == [x \in due \ lacked |-> CHOOSE p \in Received(n) : Fits(x, p)]
<1>0. TypeOK /\ SessionsSound /\ DoneLast /\ MissingOnlyLost BY DEF IInv
<1>1. r \in Rounds /\ Needs(n, r)
  BY <1>0 DEF TypeOK, Rounds, Needs
<1>2. ASSUME NEW d \in src PROVE Sent(d, r)
  <2>1. d \in Nodes /\ Alive(d) /\ stage[d] # "train"
    BY DEF Quiescent, Dead
  <2>2. stage[d] \in {"await", "done"}
    BY <1>0, <2>1 DEF TypeOK, Alive
  <2>3. r <= round[d]
    BY <1>0, <1>1, <2>1, <2>2, ExchangeAssumption DEF DoneLast, Rounds
  <2>4. round[d] \in Nat BY <1>0, <2>1 DEF TypeOK, Rounds
  <2> QED BY <1>1, <2>1, <2>3, <2>4 DEF Sent, Rounds
<1>3. ASSUME NEW x \in due \ lacked PROVE \E p \in Received(n) : Fits(x, p)
  <2>1. x[1] \in src /\ x[2] \in Parts /\ ~Lacks(n, x[1], r, x[2]) OBVIOUS
  <2>2. n # x[1] /\ Sent(x[1], r) BY <1>2, <2>1
  <2>3. ~OnItsWay(n, x[1], r, x[2]) BY DEF Quiescent, OnItsWay
  <2>4. Has(n, x[1], r, x[2]) BY <1>1, <2>1, <2>2, <2>3 DEF Lacks
  <2> QED BY <2>4 DEF Has, Received
<1>4. ASSUME NEW x \in due \ lacked PROVE g[x] \in Received(n) /\ Fits(x, g[x])
  BY <1>3
<1>5. g \in Injection(due \ lacked, Received(n))
  <2>1. g \in [due \ lacked -> Received(n)] BY <1>4
  <2>2. ASSUME NEW x \in due \ lacked, NEW y \in due \ lacked, g[x] = g[y] PROVE x = y
    <3>1. g[x].src = x[1] /\ g[x].part = x[2] BY <1>4
    <3>2. g[y].src = y[1] /\ g[y].part = y[2] BY <1>4
    <3>3. x = <<x[1], x[2]>> /\ y = <<y[1], y[2]>> OBVIOUS
    <3> HIDE DEF g
    <3> QED BY <2>2, <3>1, <3>2, <3>3
  <2> HIDE DEF g
  <2> QED BY <2>1, <2>2 DEF Injection, IsInjective
<1>6. /\ IsFiniteSet(Received(n)) /\ Cardinality(Received(n)) \in Nat
      /\ IsFiniteSet(src) /\ IsFiniteSet(due)
      /\ Cardinality(due) = Cardinality(src) * Cardinality(Parts)
      /\ Cardinality(due) \in Nat
  <2>1. IsFiniteSet(Received(n)) /\ Cardinality(Received(n)) \in Nat
    BY ReceivedInjects, FS_CardinalityType
  <2>2. IsFiniteSet(src) BY ExchangeAssumption, FS_Subset
  <2> QED BY <2>1, <2>2, ExchangeAssumption, FS_Product, FS_CardinalityType
<1>7. Cardinality(due \ lacked) <= Cardinality(Received(n))
  <2> HIDE DEF g, due, lacked
  <2> QED BY <1>5, <1>6, FS_Injection
<1>8. \A x, y \in lacked : lost = 1 /\ x = y
  <2> SUFFICES ASSUME NEW x \in lacked, NEW y \in lacked PROVE lost = 1 /\ x = y
    OBVIOUS
  <2>1. /\ x[1] \in Nodes /\ x[2] \in Parts /\ Lacks(n, x[1], r, x[2])
        /\ y[1] \in Nodes /\ y[2] \in Parts /\ Lacks(n, y[1], r, y[2])
    OBVIOUS
  <2>2. lost = 1 /\ x[1] = y[1] /\ x[2] = y[2]
    BY <1>0, <1>1, <2>1 DEF MissingOnlyLost
  <2>3. x = <<x[1], x[2]>> /\ y = <<y[1], y[2]>> OBVIOUS
  <2> QED BY <2>2, <2>3
<1>9. Cardinality(due \ lacked) \in Nat /\ Cardinality(due \ lacked) >= Cardinality(due) - lost
  <2> HIDE DEF due, src
  <2>0. lost \in Nat BY <1>0 DEF TypeOK
  <2>1. CASE lacked = {}
    <3>1. due \ lacked = due BY <2>1
    <3> QED BY <1>6, <2>0, <3>1
  <2>2. ASSUME NEW x \in lacked 
        PROVE  /\ Cardinality(due \ lacked) \in Nat
               /\ Cardinality(due \ lacked) >= Cardinality(due) - lost
    <3>1. lacked = {x} /\ x \in due /\ lost = 1 BY <1>8, <2>2
    <3>2. due \ lacked = due \ {x} BY <3>1
    <3> HIDE DEF lacked
    <3>3. Cardinality(due \ {x}) = Cardinality(due) - 1
      BY <1>6, <3>1, FS_RemoveElement
    <3>4. Cardinality(due \ {x}) \in Nat
      BY <1>6, FS_RemoveElement, FS_CardinalityType
    <3> QED BY <3>1, <3>2, <3>3, <3>4
  <2> QED BY <2>1, <2>2
<1>10. Cardinality(Received(n)) >= Cardinality(due) - lost
  <2>1. lost \in Nat BY <1>0 DEF TypeOK
  <2> HIDE DEF due, lacked
  <2> QED BY <1>6, <1>7, <1>9, <2>1
<1> QED BY <1>6, <1>10

\* The fragments a model exchange takes when nobody is given up.
AllFragments == (Cardinality(Nodes) - 1) * Cardinality(Parts)

LEMMA ProductMonotone ==
    ASSUME NEW a \in Nat, NEW b \in Nat, NEW c \in Nat, a <= b
    PROVE  a * c <= b * c /\ a * c \in Nat
<1>1. b - a \in Nat /\ b = a + (b - a) OBVIOUS
<1>2. b * c = a * c + (b - a) * c BY <1>1, SMT
<1>3. (b - a) * c \in Nat /\ a * c \in Nat BY <1>1, SMT
<1> QED BY <1>2, <1>3, SMT

\* A floor that holds for the peers holds for the fragments of any part of them.
LEMMA FloorOfPeers ==
    ASSUME NEW S \in Nat, NEW E \in Nat, NEW N \in Nat, NEW C \in Nat,
           NEW Q \in Nat, E <= N, 100 * S >= Q * N
    PROVE  100 * (S * C) >= Q * (E * C)
<1>1. E * Q <= N * Q BY ProductMonotone
<1>2. E * Q \in Nat /\ E * Q <= 100 * S
  <2>1. N * Q = Q * N /\ E * Q \in Nat /\ Q * N \in Nat BY SMT
  <2> QED BY <1>1, <2>1
<1>3. (E * Q) * C <= (100 * S) * C
  <2> DEFINE x == E * Q
             y == 100 * S
  <2>1. x \in Nat /\ y \in Nat /\ x <= y BY <1>2
  <2> HIDE DEF x, y
  <2>2. x * C <= y * C BY <2>1, ProductMonotone
  <2> QED BY <2>2 DEF x, y
<1>4. (E * Q) * C = Q * (E * C) /\ (100 * S) * C = 100 * (S * C)
  BY SMT
<1> QED BY <1>3, <1>4

\* With nothing left to happen no node waits for ever for a round to end: what a
\* lost fragment or the dead peers leave out is within the floor of
\* await_fragments.  A dead peer is expected no longer where its end or the dials
\* in vain were noticed; the node it used to dial may expect it to the end of
\* the run, and the floor alone lets it go on.  This takes what a deployment has
\* to have: somebody else is alive, a fragment is resent before its peer is given
\* up, and the floor leaves out one fragment, or the fragments of the dead.
THEOREM NobodyStuckAlways ==
    ASSUME MaxResends >= 1,
           MaxCrashes + 1 < Cardinality(Nodes),
           100 * (AllFragments - 1) >= FloorPct * AllFragments,
           100 * (Cardinality(Nodes) - 1 - MaxCrashes) >= FloorPct * (Cardinality(Nodes) - 1)
    PROVE  Spec => []NobodyStuck
<1>1. ASSUME IInv PROVE NobodyStuck
  <2> SUFFICES ASSUME Quiescent, lost <= 1, slow = 0,
                      NEW k \in Nodes, stage[k] \notin {"done", "dead"}
               PROVE  FALSE
    BY DEF NobodyStuck
  <2>0. TypeOK /\ FaultsApart /\ LivePeerKept /\ lost \in Nat
    BY <1>1 DEF IInv, TypeOK
  <2>1. \A m \in Nodes : stage[m] \notin {"done", "dead"} => stage[m] = "await"
    BY <2>0 DEF TypeOK, Quiescent, Dead, Alive
  <2>2. PICK n \in Nodes : /\ stage[n] = "await"
                           /\ \A m \in Nodes : stage[m] = "await" => round[n] <= round[m]
    <3> DEFINE waiting == { m \in Nodes : stage[m] = "await" }
               T == { round[m] : m \in waiting }
    <3>1. T \subseteq Nat BY <2>0 DEF TypeOK, Rounds
    <3>2. T # {} BY <2>1
    <3>3. PICK x \in T : \A y \in T : x <= y
      <4> HIDE DEF T
      <4> QED BY <3>1, <3>2, LeastOf
    <3> QED BY <3>3
  <2>3. Alive(n) /\ n \notin Dead /\ n \in Nodes \ Dead
    BY <2>2 DEF Alive, Dead
  <2>4. ~ReceivedAll(n) /\ ~FloorReached(n)
    BY <2>2, <2>3 DEF Quiescent
  <2> DEFINE src == (Nodes \ Dead) \ {n}
             expected == Peers(n) \ unreachable[n]
             R == Cardinality(Received(n))
             S == Cardinality(src)
             E == Cardinality(expected)
             C == Cardinality(Parts)
             N == Cardinality(Nodes) - 1
  <2>5. IsFiniteSet(src) /\ S * C \in Nat /\ R \in Nat /\ R >= S * C - lost /\ C \in Nat
    BY <1>1, <2>2, LastWaits, ReceivedInjects
  \* Only the dead are given up.
  <2>6. /\ src \subseteq expected /\ expected \subseteq Peers(n)
        /\ Dead = {} => src = Peers(n) /\ expected = Peers(n)
    <3>1. \A d \in unreachable[n] : d \in Nodes /\ ~Alive(d)
      BY <2>0, ExchangeAssumption DEF LivePeerKept, TypeOK
    <3> QED BY <3>1 DEF Peers, Dead
  <2>7. S \in Nat /\ S >= 1 /\ S >= N - MaxCrashes /\ N \in Nat
    <3>1. IsFiniteSet(Nodes) /\ IsFiniteSet(Dead)
      BY ExchangeAssumption, FS_Subset DEF Dead
    <3>2. Cardinality(Nodes \ Dead) = Cardinality(Nodes) - Cardinality(Dead)
      <4>1. Nodes \cap Dead = Dead BY DEF Dead
      <4>2. Cardinality(Nodes \ Dead) = Cardinality(Nodes) - Cardinality(Nodes \cap Dead)
        BY <3>1, FS_Difference
      <4> QED BY <4>1, <4>2
    <3>3. IsFiniteSet(Nodes \ Dead) BY <3>1, FS_Difference
    <3>4. S = Cardinality(Nodes \ Dead) - 1
      BY <2>3, <3>3, FS_RemoveElement
    <3>5. Cardinality(Nodes) \in Nat /\ Cardinality(Dead) \in Nat /\ S \in Nat
      BY <2>5, <3>1, FS_CardinalityType
    <3>6. Cardinality(Dead) <= MaxCrashes BY <2>0 DEF FaultsApart
    <3> HIDE DEF S
    <3> QED BY <3>2, <3>4, <3>5, <3>6, ExchangeAssumption
  <2>8. E \in Nat /\ E >= S /\ E <= N /\ Cardinality(Peers(n)) = N
    <3>1. IsFiniteSet(Peers(n)) /\ Cardinality(Peers(n)) = N
      BY ExchangeAssumption, FS_RemoveElement DEF Peers
    <3>2. IsFiniteSet(expected) /\ E <= Cardinality(Peers(n))
      <4> HIDE DEF expected
      <4> QED BY <2>6, <3>1, FS_Subset
    <3>3. S <= E
      <4> HIDE DEF expected, src
      <4> QED BY <2>6, <3>2, FS_Subset
    <3> QED BY <3>1, <3>2, <3>3, FS_CardinalityType
  <2>9. Expected(n) = E * C
    <3> HIDE DEF S
    <3>1. E # 0 BY <2>7, <2>8
    <3> QED BY <3>1 DEF Expected
  <2>10. CASE Dead = {} /\ lost = 0
    <3>1. E = S BY <2>6, <2>10
    <3>2. R >= Expected(n)
      <4> HIDE DEF R, S, C, E
      <4> QED BY <2>5, <2>9, <2>10, <3>1
    <3> QED BY <2>4, <3>2 DEF ReceivedAll
  <2>11. CASE Dead = {} /\ lost = 1
    <3>1. E = N /\ S = N BY <2>6, <2>8, <2>11
    <3>2. Expected(n) = AllFragments BY <2>9, <3>1 DEF AllFragments
    <3>3. R >= AllFragments - 1 /\ AllFragments \in Nat
      <4>1. S * C = AllFragments BY <3>1 DEF AllFragments
      <4> HIDE DEF R, S, C
      <4> QED BY <2>5, <2>11, <4>1
    <3>4. 100 * R >= FloorPct * AllFragments
      <4> DEFINE F == FloorPct * AllFragments
      <4>1. F \in Nat BY <3>3, ExchangeAssumption
      <4>2. 100 * (AllFragments - 1) >= F OBVIOUS
      <4> HIDE DEF F, R
      <4>3. R \in Nat BY <2>5 DEF R
      <4>4. 100 * R >= F BY <3>3, <4>1, <4>2, <4>3
      <4> QED BY <4>4 DEF F
    <3> QED BY <2>4, <3>2, <3>4 DEF FloorReached
  <2>12. CASE Dead # {}
    <3>1. lost = 0 BY <2>0, <2>12 DEF FaultsApart
    <3>2. 100 * S >= FloorPct * N
      <4> DEFINE F == FloorPct * N
      <4>1. F \in Nat /\ MaxCrashes \in Nat BY <2>7, ExchangeAssumption
      <4>2. 100 * (N - MaxCrashes) >= F OBVIOUS
      <4> HIDE DEF F, S, N
      <4>3. 100 * S >= F BY <2>7, <4>1, <4>2
      <4> QED BY <4>3 DEF F
    <3>3. 100 * (S * C) >= FloorPct * (E * C)
      <4>1. FloorPct \in Nat BY ExchangeAssumption
      <4> HIDE DEF S, E, C, N
      <4> QED BY <2>5, <2>7, <2>8, <3>2, <4>1, FloorOfPeers
    <3>4. 100 * R >= 100 * (S * C)
      <4> DEFINE D == S * C
      <4>1. D \in Nat /\ R \in Nat /\ R >= D BY <2>5, <3>1
      <4> HIDE DEF D, R
      <4>2. 100 * R >= 100 * D BY <4>1
      <4> QED BY <4>2 DEF D
    <3>5. 100 * R >= FloorPct * Expected(n)
      <4> DEFINE D == S * C
                 F == FloorPct * (E * C)
      <4>1. D \in Nat /\ R \in Nat BY <2>5
      <4>2. E * C \in Nat
        <5> HIDE DEF E, C
        <5> QED BY <2>5, <2>8
      <4>3. F \in Nat
        <5> DEFINE x == E * C
        <5> HIDE DEF x
        <5> QED BY <4>2, ExchangeAssumption DEF x
      <4>4. 100 * D >= F /\ 100 * R >= 100 * D BY <3>3, <3>4
      <4> HIDE DEF D, F, R
      <4>5. 100 * R >= F BY <4>1, <4>3, <4>4
      <4> QED BY <2>9, <4>5 DEF F, R
    <3> QED BY <2>4, <3>5 DEF FloorReached
  <2> QED BY <2>0, <2>10, <2>11, <2>12
<1> QED BY AlwaysIInv, <1>1, PTL
=============================================================================
