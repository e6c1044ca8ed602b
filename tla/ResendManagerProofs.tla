------------------------- MODULE ResendManagerProofs -------------------------
(***************************************************************************)
(* Proofs about ResendManager, for any peers, payloads, scripts, number of *)
(* resends and faults: the sending side implements Delivery, no fragment   *)
(* the loop waits for is forgotten, UNACKED_MSG never exceeds the open     *)
(* messages, and only an acknowledgement revives a peer.                   *)
(***************************************************************************)
EXTENDS ResendManager, FiniteSetTheorems, TLAPS

Tracks == [tracked : BOOLEAN, sentAt : Nat, acked : BOOLEAN, pendingResend : BOOLEAN]
Sessions == [state : PeerStates, pending : [Surb -> Tracks],
             retries : [Payload -> Nat], lastSurbAt : Nat]
Jobs == [stage : {"crypto", "tracked"}, peer : Peers, surb : Surb]

TypeOK ==
    /\ ExchangePeers \subseteq Peers
    /\ session \in [ExchangePeers -> Sessions]
    /\ unackedMsg \in Nat /\ clock \in Nat /\ currentRound \in Nat
    /\ intake \subseteq 1..NRounds
    /\ script \in Seq(Payload) /\ chunk \in Payload
    /\ sendList \subseteq ExchangePeers
    /\ job \in [Clients -> {NoJob} \cup Jobs]
    /\ \A c \in Clients : job[c] # NoJob => job[c].peer \in ExchangePeers
    /\ outbox \subseteq ExchangePeers \X Surb
    /\ flight \subseteq ExchangePeers \X Surb
    /\ stale \subseteq ExchangePeers \X Surb
    /\ pc \in {"sleep", "scan", "work", "await"}
    /\ todo \subseteq ExchangePeers
    /\ sends \in [Peers -> [Payload -> Nat]]
    /\ answered \subseteq ExchangePeers \X Payload
    /\ exhausted \subseteq ExchangePeers \X Fragments

\* Where the resend loop stands tells what it has in hand, of one peer at a time.
LoopSound ==
    /\ pc \in {"sleep", "scan"} => stale = {}
    /\ pc = "await" <=> job["resend"] # NoJob
    /\ \A o, r \in stale : o[1] = r[1]

\* The learner's chunks are still to be sent, each once.
Fresh ==
    /\ IsInjective(script)
    /\ \A i \in DOMAIN script, p \in Peers : sends[p][script[i]] = 0
    /\ \A p \in sendList : sends[p][chunk] = 0
    /\ sendList # {} => \A i \in DOMAIN script : script[i] # chunk

InJob(c, p, x) == job[c] # NoJob /\ job[c].peer = p /\ job[c].surb = x

\* A copy waiting to leave is the last one of its payload: the learner makes
\* the first, the resend loop the others, while the one before is known.
JobsSound ==
    \A c \in Clients : job[c] # NoJob =>
      LET p == job[c].peer
          x == job[c].surb
      IN  /\ x[2] = sends[p][x[1]]
          /\ session[p].pending[x].sentAt = 0
          /\ job[c].stage = "crypto" => ~session[p].pending[x].tracked
          /\ <<p, x>> \notin outbox \cup flight
          /\ c = "learner" => x[2] = 1 /\ <<p, x[1]>> \notin answered
          /\ c = "resend" =>
               /\ x[1] \in Fragments
               /\ \E y \in Carriers(session[p], x[1]) : y[2] = x[2] - 1

\* A copy in the outbox is the last one and not yet stamped, a copy under way
\* is stamped, as long as it is tracked.
PacketsSound ==
    /\ \A o \in outbox : /\ o[2][2] = sends[o[1]][o[2][1]]
                         /\ session[o[1]].pending[o[2]].sentAt = 0
    /\ \A o \in flight : /\ o[2][2] <= sends[o[1]][o[2][1]]
                         /\ session[o[1]].pending[o[2]].tracked =>
                              session[o[1]].pending[o[2]].sentAt # 0

TrackedSound ==
    \A p \in ExchangePeers, x \in Surb :
      LET f == session[p].pending[x]
      IN  /\ ~f.tracked => f.sentAt = 0
          /\ f.tracked => /\ x[2] <= sends[p][x[1]]
                          /\ f.acked => <<p, x[1]>> \in answered
          /\ f.tracked /\ x[1] \in Fragments /\ x[2] < sends[p][x[1]] =>
               f.pendingResend \/ f.acked

\* What the loop has in hand are last copies that were sent.
StaleSound ==
    \A o \in stale :
      LET f == session[o[1]].pending[o[2]]
      IN  /\ f.tracked /\ f.sentAt # 0 /\ f.pendingResend
          /\ o[2][1] \in Fragments
          /\ o[2][2] = sends[o[1]][o[2][1]]

Resending(p, m) == job["resend"] # NoJob /\ job["resend"].peer = p /\ job["resend"].surb[1] = m

\* retry_count lags behind the copies while one is being made, and is what
\* caps them.
RetriesSound ==
    \A p \in Peers, m \in Fragments :
      /\ sends[p][m] <= 1 + MaxResends
      /\ sends[p][m] = 0 \/ p \in ExchangePeers
      /\ p \in ExchangePeers =>
           session[p].retries[m] =
             IF sends[p][m] = 0 THEN 0
             ELSE IF Resending(p, m) THEN sends[p][m] - 2 ELSE sends[p][m] - 1

AnsweredSent == \A a \in answered : sends[a[1]][a[2]] > 0

CopiesSound == /\ JobsSound /\ PacketsSound /\ TrackedSound /\ StaleSound
               /\ RetriesSound /\ AnsweredSent /\ NoOrphanFlag
               /\ UnackedNotOvercounted

IInv == TypeOK /\ LoopSound /\ Fresh /\ CopiesSound

-----------------------------------------------------------------------------
(* What the methods of a session change. *)

LEMMA TrackType == Untracked \in Tracks
BY DEF Untracked, Tracks

LEMMA NewSessionFields ==
    ASSUME NEW st \in PeerStates
    PROVE  LET t == NewSession(st)
           IN  /\ t \in Sessions
               /\ \A x \in Surb : ~t.pending[x].tracked /\ t.pending[x].sentAt = 0
               /\ \A m \in Payload : t.retries[m] = 0
<1>1. [x \in Surb |-> Untracked] \in [Surb -> Tracks]
  BY TrackType
<1> QED BY <1>1 DEF NewSession, Sessions, Untracked

LEMMA TrackOutboundFields ==
    ASSUME NEW s \in Sessions, NEW b \in Surb
    PROVE  LET t == TrackOutbound(s, b)
           IN  /\ t \in Sessions
               /\ t.state = s.state /\ t.retries = s.retries
               /\ \A x \in Surb \ {b} : t.pending[x] = s.pending[x]
               /\ t.pending[b].tracked /\ t.pending[b].sentAt = 0
               /\ ~t.pending[b].acked /\ ~t.pending[b].pendingResend
<1> DEFINE u == [Untracked EXCEPT !.tracked = TRUE]
           q == [s.pending EXCEPT ![b] = u]
           t == TrackOutbound(s, b)
<1>1. u \in Tracks /\ u.tracked /\ u.sentAt = 0 /\ ~u.acked /\ ~u.pendingResend
  BY DEF Untracked, Tracks
<1>2. t = [s EXCEPT !.pending = q]
  BY DEF TrackOutbound
<1> HIDE DEF u
<1>3. s.pending \in [Surb -> Tracks] BY DEF Sessions
<1>4. q \in [Surb -> Tracks] /\ q[b] = u /\ \A x \in Surb \ {b} : q[x] = s.pending[x]
  BY <1>1, <1>3
<1> HIDE DEF q, t
<1>5. t \in Sessions /\ t.pending = q /\ t.state = s.state /\ t.retries = s.retries
  BY <1>2, <1>4 DEF Sessions
<1> QED BY <1>1, <1>4, <1>5 DEF t

LEMMA MarkSentFields ==
    ASSUME NEW s \in Sessions, NEW b \in Surb, NEW now \in Nat
    PROVE  LET t == MarkSent(s, b, now)
           IN  /\ t \in Sessions
               /\ t.state = s.state /\ t.retries = s.retries
               /\ \A x \in Surb \ {b} : t.pending[x] = s.pending[x]
               /\ t.pending[b].tracked <=> s.pending[b].tracked
               /\ t.pending[b].acked <=> s.pending[b].acked
               /\ t.pending[b].pendingResend <=> s.pending[b].pendingResend
               /\ t.pending[b].sentAt = IF s.pending[b].tracked THEN now
                                        ELSE s.pending[b].sentAt
<1> DEFINE t == MarkSent(s, b, now)
           u == [s.pending[b] EXCEPT !.sentAt = now]
           q == [s.pending EXCEPT ![b] = u]
<1>0. s.pending \in [Surb -> Tracks] /\ s.pending[b] \in Tracks BY DEF Sessions
<1>1. CASE b \notin InFlight(s)
  <2>1. t = s /\ ~s.pending[b].tracked BY <1>1 DEF MarkSent, InFlight
  <2> QED BY <2>1
<1>2. CASE b \in InFlight(s)
  <2>1. t = [s EXCEPT !.pending = q] /\ s.pending[b].tracked
    BY <1>2 DEF MarkSent, InFlight
  <2>2. /\ u \in Tracks /\ u.sentAt = now
        /\ u.tracked = s.pending[b].tracked /\ u.acked = s.pending[b].acked
        /\ u.pendingResend = s.pending[b].pendingResend
    BY <1>0 DEF Tracks
  <2> HIDE DEF u
  <2>3. q \in [Surb -> Tracks] /\ q[b] = u /\ \A x \in Surb \ {b} : q[x] = s.pending[x]
    BY <1>0, <2>2
  <2> HIDE DEF q, t
  <2>4. t \in Sessions /\ t.pending = q /\ t.state = s.state /\ t.retries = s.retries
    BY <2>1, <2>3 DEF Sessions
  <2> QED BY <2>1, <2>2, <2>3, <2>4 DEF t
<1> QED BY <1>1, <1>2

LEMMA RecordSurbAckFields ==
    ASSUME NEW s \in Sessions, NEW b \in Surb, NEW now \in Nat
    PROVE  LET t == RecordSurbAck(s, b, now)
           IN  /\ t \in Sessions /\ t.retries = s.retries
               /\ \A x \in Surb :
                    /\ t.pending[x].tracked <=> s.pending[x].tracked
                    /\ t.pending[x].sentAt = s.pending[x].sentAt
                    /\ t.pending[x].pendingResend <=> s.pending[x].pendingResend
                    /\ t.pending[x].acked <=> \/ s.pending[x].acked
                                              \/ s.pending[x].tracked /\ x[1] = b[1]
<1> DEFINE t == RecordSurbAck(s, b, now)
           Acked(x) == [s.pending[x] EXCEPT !.acked = TRUE]
           q == [x \in Surb |-> IF x \in Carriers(s, b[1]) THEN Acked(x) ELSE s.pending[x]]
           first == ~s.pending[b].acked /\ s.pending[b].sentAt # 0
           at == IF first THEN now ELSE s.lastSurbAt
<1>0. \A x \in Surb : s.pending[x] \in Tracks BY DEF Sessions
<1>1. \A x \in Surb : /\ Acked(x) \in Tracks /\ Acked(x).acked
                      /\ Acked(x).tracked = s.pending[x].tracked
                      /\ Acked(x).sentAt = s.pending[x].sentAt
                      /\ Acked(x).pendingResend = s.pending[x].pendingResend
  BY <1>0 DEF Tracks
<1>2. t = [s EXCEPT !.state = "REACHABLE", !.lastSurbAt = at, !.pending = q]
  BY DEF RecordSurbAck
<1>3. at \in Nat BY DEF Sessions
<1> HIDE DEF Acked, at
<1>4. q \in [Surb -> Tracks] BY <1>0, <1>1
<1>5. \A x \in Surb : q[x] = IF s.pending[x].tracked /\ x[1] = b[1] THEN Acked(x)
                             ELSE s.pending[x]
  BY DEF Carriers, InFlight
<1> HIDE DEF q, t
<1>6. t \in Sessions /\ t.pending = q /\ t.retries = s.retries
  BY <1>2, <1>3, <1>4 DEF Sessions, PeerStates
<1> QED BY <1>1, <1>5, <1>6 DEF t

LEMMA ClearAckedFields ==
    ASSUME NEW s \in Sessions, NEW cut \in Nat
    PROVE  LET t == ClearAcked(s, cut)
           IN  /\ t \in Sessions
               /\ t.state = s.state /\ t.retries = s.retries
               /\ \A x \in Surb :
                    \/ t.pending[x] = s.pending[x]
                    \/ /\ ~t.pending[x].tracked /\ t.pending[x].sentAt = 0
                       /\ s.pending[x].acked \/ x[1] \in Covers
<1> DEFINE t == ClearAcked(s, cut)
           Gone(x) == \/ s.pending[x].acked
                      \/ x[1] \in Covers /\ s.pending[x].sentAt \in 1..cut - 1
           q == [x \in Surb |-> IF Gone(x) THEN Untracked ELSE s.pending[x]]
<1>0. \A x \in Surb : s.pending[x] \in Tracks BY DEF Sessions
<1>1. t = [s EXCEPT !.pending = q] BY DEF ClearAcked
<1>2. q \in [Surb -> Tracks] BY <1>0, TrackType
<1>3. \A x \in Surb : \/ q[x] = s.pending[x]
                      \/ q[x] = Untracked /\ (s.pending[x].acked \/ x[1] \in Covers)
  OBVIOUS
<1>4. ~Untracked.tracked /\ Untracked.sentAt = 0 BY DEF Untracked
<1> HIDE DEF q, t
<1>5. t \in Sessions /\ t.pending = q /\ t.state = s.state /\ t.retries = s.retries
  BY <1>1, <1>2 DEF Sessions
<1> QED BY <1>3, <1>4, <1>5 DEF t

LEMMA FlagFields ==
    ASSUME NEW s \in Sessions, NEW B \in SUBSET Surb
    PROVE  LET t == SetPendingResend(s, B, TRUE)
           IN  /\ t \in Sessions
               /\ t.state = s.state /\ t.retries = s.retries
               /\ \A x \in Surb :
                    /\ t.pending[x].tracked <=> s.pending[x].tracked
                    /\ t.pending[x].sentAt = s.pending[x].sentAt
                    /\ t.pending[x].acked <=> s.pending[x].acked
                    /\ t.pending[x].pendingResend <=> x \in B \/ s.pending[x].pendingResend
<1> DEFINE t == SetPendingResend(s, B, TRUE)
           Set(x) == [s.pending[x] EXCEPT !.pendingResend = TRUE]
           q == [x \in Surb |-> IF x \in B THEN Set(x) ELSE s.pending[x]]
<1>0. \A x \in Surb : s.pending[x] \in Tracks BY DEF Sessions
<1>1. \A x \in Surb : /\ Set(x) \in Tracks /\ Set(x).pendingResend
                      /\ Set(x).tracked = s.pending[x].tracked
                      /\ Set(x).sentAt = s.pending[x].sentAt
                      /\ Set(x).acked = s.pending[x].acked
  BY <1>0 DEF Tracks
<1>2. t = [s EXCEPT !.pending = q] BY DEF SetPendingResend
<1> HIDE DEF Set
<1>3. q \in [Surb -> Tracks] BY <1>0, <1>1
<1>4. \A x \in Surb : q[x] = IF x \in B THEN Set(x) ELSE s.pending[x]
  OBVIOUS
<1> HIDE DEF q, t
<1>5. t \in Sessions /\ t.pending = q /\ t.state = s.state /\ t.retries = s.retries
  BY <1>2, <1>3 DEF Sessions
<1>6. \A x \in Surb : /\ t.pending[x].tracked = s.pending[x].tracked
                      /\ t.pending[x].sentAt = s.pending[x].sentAt
                      /\ t.pending[x].acked = s.pending[x].acked
  BY <1>1, <1>4, <1>5
<1>7. \A x \in Surb : t.pending[x].pendingResend <=> x \in B \/ s.pending[x].pendingResend
  BY <1>1, <1>4, <1>5
<1> QED BY <1>5, <1>6, <1>7 DEF t

LEMMA UnflagFields ==
    ASSUME NEW s \in Sessions, NEW B \in SUBSET Surb
    PROVE  LET t == SetPendingResend(s, B, FALSE)
           IN  /\ t \in Sessions
               /\ t.state = s.state /\ t.retries = s.retries
               /\ \A x \in Surb :
                    /\ t.pending[x].tracked <=> s.pending[x].tracked
                    /\ t.pending[x].sentAt = s.pending[x].sentAt
                    /\ t.pending[x].acked <=> s.pending[x].acked
                    /\ t.pending[x].pendingResend <=> x \notin B /\ s.pending[x].pendingResend
<1> DEFINE t == SetPendingResend(s, B, FALSE)
           Set(x) == [s.pending[x] EXCEPT !.pendingResend = FALSE]
           q == [x \in Surb |-> IF x \in B THEN Set(x) ELSE s.pending[x]]
<1>0. \A x \in Surb : s.pending[x] \in Tracks BY DEF Sessions
<1>1. \A x \in Surb : /\ Set(x) \in Tracks /\ ~Set(x).pendingResend
                      /\ Set(x).tracked = s.pending[x].tracked
                      /\ Set(x).sentAt = s.pending[x].sentAt
                      /\ Set(x).acked = s.pending[x].acked
  BY <1>0 DEF Tracks
<1>2. t = [s EXCEPT !.pending = q] BY DEF SetPendingResend
<1> HIDE DEF Set
<1>3. q \in [Surb -> Tracks] BY <1>0, <1>1
<1>4. \A x \in Surb : q[x] = IF x \in B THEN Set(x) ELSE s.pending[x]
  OBVIOUS
<1> HIDE DEF q, t
<1>5. t \in Sessions /\ t.pending = q /\ t.state = s.state /\ t.retries = s.retries
  BY <1>2, <1>3 DEF Sessions
<1>6. \A x \in Surb : /\ t.pending[x].tracked = s.pending[x].tracked
                      /\ t.pending[x].sentAt = s.pending[x].sentAt
                      /\ t.pending[x].acked = s.pending[x].acked
  BY <1>1, <1>4, <1>5
<1>7. \A x \in Surb : t.pending[x].pendingResend <=> x \notin B /\ s.pending[x].pendingResend
  BY <1>1, <1>4, <1>5
<1> QED BY <1>5, <1>6, <1>7 DEF t

\* A scan clears, then flags what it reports.
LEMMA GetStaleFields ==
    ASSUME NEW s \in Sessions, NEW cutoff \in Nat, NEW cut \in Nat
    PROVE  LET t == GetStale(s, cutoff, cut)
               found == StaleIn(ClearAcked(s, cut), cutoff)
           IN  /\ t \in Sessions
               /\ t.state = s.state /\ t.retries = s.retries
               /\ \A x \in Surb :
                    \/ /\ t.pending[x].tracked <=> s.pending[x].tracked
                       /\ t.pending[x].sentAt = s.pending[x].sentAt
                       /\ t.pending[x].acked <=> s.pending[x].acked
                       /\ t.pending[x].pendingResend <=>
                            s.pending[x].pendingResend \/ x \in found
                    \/ /\ ~t.pending[x].tracked /\ t.pending[x].sentAt = 0
                       /\ s.pending[x].acked \/ x[1] \in Covers
               /\ \A x \in found :
                    /\ x \in Surb /\ x[1] \in Fragments
                    /\ s.pending[x].tracked /\ ~s.pending[x].acked
                    /\ ~s.pending[x].pendingResend
                    /\ s.pending[x].sentAt # 0
                    /\ t.pending[x].tracked /\ t.pending[x].sentAt # 0
<1> DEFINE c == ClearAcked(s, cut)
           found == StaleIn(c, cutoff)
           t == SetPendingResend(c, found, TRUE)
<1>1. t = GetStale(s, cutoff, cut) BY DEF GetStale
<1>2. /\ c \in Sessions /\ c.state = s.state /\ c.retries = s.retries
      /\ \A x \in Surb :
           \/ c.pending[x] = s.pending[x]
           \/ /\ ~c.pending[x].tracked /\ c.pending[x].sentAt = 0
              /\ s.pending[x].acked \/ x[1] \in Covers
  BY ClearAckedFields
<1> HIDE DEF c
<1>3. \A x \in found :
        /\ x \in Surb /\ x[1] \in Payload \ Covers
        /\ c.pending[x].tracked /\ ~c.pending[x].acked /\ ~c.pending[x].pendingResend
        /\ c.pending[x].sentAt # 0
  BY DEF StaleIn, InFlight, Surb
<1>4. found \in SUBSET Surb BY <1>3
<1> HIDE DEF found
<1>5. /\ t \in Sessions /\ t.state = c.state /\ t.retries = c.retries
      /\ \A x \in Surb :
           /\ t.pending[x].tracked <=> c.pending[x].tracked
           /\ t.pending[x].sentAt = c.pending[x].sentAt
           /\ t.pending[x].acked <=> c.pending[x].acked
           /\ t.pending[x].pendingResend <=> x \in found \/ c.pending[x].pendingResend
  BY <1>2, <1>4, FlagFields
<1> HIDE DEF t
<1>6. \A x \in found : /\ s.pending[x].tracked /\ ~s.pending[x].acked
                       /\ ~s.pending[x].pendingResend /\ s.pending[x].sentAt # 0
                       /\ t.pending[x].tracked /\ t.pending[x].sentAt # 0
  BY <1>2, <1>3, <1>5
<1>7. \A x \in Surb :
        \/ /\ t.pending[x].tracked <=> s.pending[x].tracked
           /\ t.pending[x].sentAt = s.pending[x].sentAt
           /\ t.pending[x].acked <=> s.pending[x].acked
           /\ t.pending[x].pendingResend <=> s.pending[x].pendingResend \/ x \in found
        \/ /\ ~t.pending[x].tracked /\ t.pending[x].sentAt = 0
           /\ s.pending[x].acked \/ x[1] \in Covers
  BY <1>2, <1>5
<1> QED BY <1>1, <1>2, <1>3, <1>5, <1>6, <1>7, Zenon DEF found, c, Fragments

LEMMA BumpFields ==
    ASSUME NEW s \in Sessions, NEW m \in Payload
    PROVE  LET t == BumpRetryCount(s, m)
           IN  /\ t \in Sessions /\ t.state = s.state /\ t.pending = s.pending
               /\ t.retries[m] = s.retries[m] + 1
               /\ \A k \in Payload \ {m} : t.retries[k] = s.retries[k]
<1> DEFINE t == BumpRetryCount(s, m)
           q == [s.retries EXCEPT ![m] = @ + 1]
<1>1. t = [s EXCEPT !.retries = q] BY DEF BumpRetryCount
<1>2. /\ q \in [Payload -> Nat] /\ q[m] = s.retries[m] + 1
      /\ \A k \in Payload \ {m} : q[k] = s.retries[k]
  BY DEF Sessions
<1> HIDE DEF q, t
<1>3. t \in Sessions /\ t.retries = q /\ t.state = s.state /\ t.pending = s.pending
  BY <1>1, <1>2 DEF Sessions
<1> QED BY <1>2, <1>3 DEF t

LEMMA StateFields ==
    ASSUME NEW s \in Sessions, NEW st \in PeerStates
    PROVE  LET t == [s EXCEPT !.state = st]
           IN  t \in Sessions /\ t.pending = s.pending /\ t.retries = s.retries
BY DEF Sessions

-----------------------------------------------------------------------------
(* What the actions change. *)

SessionBecomes(p, t) ==
    /\ ExchangePeers' = ExchangePeers
    /\ session' \in [ExchangePeers -> Sessions]
    /\ session'[p] = t
    /\ \A q \in ExchangePeers \ {p} : session'[q] = session[q]

LEMMA OneSession ==
    ASSUME TypeOK, NEW p \in ExchangePeers, NEW t \in Sessions,
           session' = [session EXCEPT ![p] = t]
    PROVE  SessionBecomes(p, t)
<1>1. session \in [ExchangePeers -> Sessions] BY DEF TypeOK
<1> QED BY <1>1 DEF SessionBecomes, ExchangePeers

\* What is awaited is a job of a peer the node exchanges with.
LEMMA JobType ==
    ASSUME TypeOK, NEW c \in Clients, job[c] # NoJob
    PROVE  /\ job[c] \in Jobs
           /\ job[c].stage \in {"crypto", "tracked"}
           /\ job[c].peer \in ExchangePeers /\ job[c].peer \in Peers
           /\ job[c].surb \in Surb
           /\ job[c].surb[1] \in Payload /\ job[c].surb[2] \in 1..MaxSends
<1>1. job[c] \in Jobs /\ job[c].peer \in ExchangePeers
  BY DEF TypeOK
<1> QED BY <1>1 DEF Jobs, Surb

LEMMA StartEffect ==
    ASSUME TypeOK, NEW c \in Clients, NEW p \in ExchangePeers, NEW m \in Payload,
           StartJob(c, p, m)
    PROVE  /\ job' \in [Clients -> {NoJob} \cup Jobs]
           /\ job'[c] # NoJob /\ job'[c].stage = "crypto" /\ job'[c].peer = p
           /\ job'[c].surb = <<m, sends[p][m] + 1>>
           /\ <<m, sends[p][m] + 1>> \in Surb
           /\ \A d \in Clients \ {c} : job'[d] = job[d]
           /\ sends' \in [Peers -> [Payload -> Nat]]
           /\ sends'[p][m] = sends[p][m] + 1
           /\ \A q \in Peers, k \in Payload : <<q, k>> # <<p, m>> => sends'[q][k] = sends[q][k]
<1>1. p \in Peers /\ sends[p][m] \in Nat BY DEF TypeOK
<1>2. sends[p][m] + 1 \in 1..MaxSends BY <1>1, SessionAssumption DEF StartJob
<1>3. <<m, sends[p][m] + 1>> \in Surb BY <1>2 DEF Surb
<1> DEFINE j == [stage |-> "crypto", peer |-> p, surb |-> <<m, sends[p][m] + 1>>]
<1>4. j \in Jobs /\ j # NoJob BY <1>1, <1>3 DEF Jobs, NoJob
<1>5. job' = [job EXCEPT ![c] = j] /\ sends' = [sends EXCEPT ![p][m] = @ + 1]
  BY DEF StartJob
<1>6. j.stage = "crypto" /\ j.peer = p /\ j.surb = <<m, sends[p][m] + 1>> OBVIOUS
<1> HIDE DEF j
<1>7. /\ job' \in [Clients -> {NoJob} \cup Jobs] /\ job'[c] = j
      /\ \A d \in Clients \ {c} : job'[d] = job[d]
  BY <1>4, <1>5 DEF TypeOK
<1>8. /\ sends' \in [Peers -> [Payload -> Nat]] /\ sends'[p][m] = sends[p][m] + 1
      /\ \A q \in Peers, k \in Payload : <<q, k>> # <<p, m>> => sends'[q][k] = sends[q][k]
  BY <1>1, <1>5 DEF TypeOK
<1> QED BY <1>3, <1>4, <1>6, <1>7, <1>8

LEMMA ResumeEffect ==
    ASSUME TypeOK, NEW c \in Clients, job' = [job EXCEPT ![c] = NoJob]
    PROVE  /\ job' \in [Clients -> {NoJob} \cup Jobs]
           /\ job'[c] = NoJob
           /\ \A d \in Clients \ {c} : job'[d] = job[d]
BY DEF TypeOK

LEMMA TrackEffect ==
    ASSUME TypeOK, NEW c \in Clients, Track(c)
    PROVE  /\ job[c] # NoJob
           /\ job' \in [Clients -> {NoJob} \cup Jobs]
           /\ job'[c] # NoJob /\ job'[c].stage = "tracked"
           /\ job'[c].peer = job[c].peer /\ job'[c].surb = job[c].surb
           /\ \A d \in Clients \ {c} : job'[d] = job[d]
           /\ SessionBecomes(job[c].peer, TrackOutbound(session[job[c].peer], job[c].surb))
<1>1. job[c] # NoJob BY DEF Track, NoJob
<1>2. job[c] \in Jobs /\ job[c].peer \in ExchangePeers /\ job[c].surb \in Surb
  BY <1>1, JobType
<1> DEFINE j == [job[c] EXCEPT !.stage = "tracked"]
<1>3. /\ j \in Jobs /\ j # NoJob /\ j.stage = "tracked"
      /\ j.peer = job[c].peer /\ j.surb = job[c].surb
  BY <1>2 DEF Jobs, NoJob
<1>4. job' = [job EXCEPT ![c] = j] BY DEF Track
<1> HIDE DEF j
<1>5. /\ job' \in [Clients -> {NoJob} \cup Jobs] /\ job'[c] = j
      /\ \A d \in Clients \ {c} : job'[d] = job[d]
  BY <1>3, <1>4 DEF TypeOK
<1>6. session[job[c].peer] \in Sessions BY <1>2 DEF TypeOK
<1>7. TrackOutbound(session[job[c].peer], job[c].surb) \in Sessions
  BY <1>2, <1>6, TrackOutboundFields
<1>8. session' = [session EXCEPT ![job[c].peer] =
                    TrackOutbound(session[job[c].peer], job[c].surb)]
  BY DEF Track
<1>9. SessionBecomes(job[c].peer, TrackOutbound(session[job[c].peer], job[c].surb))
  BY <1>2, <1>7, <1>8, OneSession
<1> QED BY <1>1, <1>3, <1>5, <1>9

-----------------------------------------------------------------------------
(* Every action keeps the invariant about copies: one lemma for each kind. *)

PendingKept ==
    /\ ExchangePeers' = ExchangePeers
    /\ \A q \in ExchangePeers : session'[q].pending = session[q].pending

RetriesKept == \A q \in ExchangePeers : session'[q].retries = session[q].retries

LEMMA OpenKept ==
    ASSUME PendingKept, answered' = answered
    PROVE  Open' = Open
<1>1. \A q \in ExchangePeers : InFlight(session'[q]) = InFlight(session[q])
  BY DEF PendingKept, InFlight
<1>2. ExchangePeers' = ExchangePeers BY DEF PendingKept
<1>3. Open' = {pm \in ExchangePeers \X Fragments :
                 /\ pm \notin answered
                 /\ \E x \in InFlight(session'[pm[1]]) : x[1] = pm[2]}
  BY <1>2 DEF Open, InFlight
<1>4. \A pm \in ExchangePeers \X Fragments :
        InFlight(session'[pm[1]]) = InFlight(session[pm[1]])
  BY <1>1
<1> QED BY <1>3, <1>4 DEF Open

\* What JobsSound says of a job j of client d: last counts the copies of its
\* payload, s is the session of its peer.
JobFits(d, j, last, s, out, ans) ==
    /\ j.surb[2] = last
    /\ s.pending[j.surb].sentAt = 0
    /\ j.stage = "crypto" => ~s.pending[j.surb].tracked
    /\ <<j.peer, j.surb>> \notin out
    /\ d = "learner" => j.surb[2] = 1 /\ <<j.peer, j.surb[1]>> \notin ans
    /\ d = "resend" => /\ j.surb[1] \in Fragments
                       /\ \E y \in Carriers(s, j.surb[1]) : y[2] = j.surb[2] - 1

LEMMA JobsFit ==
    ASSUME \A d \in Clients : job'[d] # NoJob =>
             JobFits(d, job'[d], sends'[job'[d].peer][job'[d].surb[1]],
                     session'[job'[d].peer], outbox' \cup flight', answered')
    PROVE  JobsSound'
BY DEF JobsSound, JobFits

LEMMA JobIs ==
    ASSUME CopiesSound, NEW d \in Clients, job[d] # NoJob
    PROVE  JobFits(d, job[d], sends[job[d].peer][job[d].surb[1]],
                   session[job[d].peer], outbox \cup flight, answered)
<1>1. JobsSound BY DEF CopiesSound
<1> QED BY <1>1 DEF JobsSound, JobFits

\* A job still fits when its copy is left as it was.
LEMMA JobKept ==
    ASSUME CopiesSound, NEW d \in Clients, job[d] # NoJob,
           NEW last, NEW s, NEW out, NEW ans,
           last = sends[job[d].peer][job[d].surb[1]],
           s.pending[job[d].surb].sentAt = session[job[d].peer].pending[job[d].surb].sentAt,
           s.pending[job[d].surb].tracked <=>
             session[job[d].peer].pending[job[d].surb].tracked,
           Carriers(session[job[d].peer], job[d].surb[1]) \subseteq Carriers(s, job[d].surb[1]),
           <<job[d].peer, job[d].surb>> \notin out,
           d = "learner" => <<job[d].peer, job[d].surb[1]>> \notin ans
    PROVE  JobFits(d, job[d], last, s, out, ans)
<1>1. JobFits(d, job[d], sends[job[d].peer][job[d].surb[1]],
              session[job[d].peer], outbox \cup flight, answered)
  BY JobIs
<1>2. d = "resend" =>
        \E y \in Carriers(s, job[d].surb[1]) : y[2] = job[d].surb[2] - 1
  BY <1>1 DEF JobFits
<1> QED BY <1>1, <1>2 DEF JobFits

LEMMA TrackedKept ==
    ASSUME TrackedSound, PendingKept, UNCHANGED <<sends, answered>>
    PROVE  TrackedSound'
<1>1. /\ ExchangePeers' = ExchangePeers
      /\ \A q \in ExchangePeers, x \in Surb :
           session'[q].pending[x] = session[q].pending[x]
  BY DEF PendingKept
<1> SUFFICES ASSUME NEW q \in ExchangePeers, NEW x \in Surb
             PROVE  LET f == session'[q].pending[x]
                    IN  /\ ~f.tracked => f.sentAt = 0
                        /\ f.tracked => /\ x[2] <= sends[q][x[1]]
                                        /\ f.acked => <<q, x[1]>> \in answered
                        /\ f.tracked /\ x[1] \in Fragments /\ x[2] < sends[q][x[1]] =>
                             f.pendingResend \/ f.acked
  BY <1>1 DEF TrackedSound
<1>2. session'[q].pending[x] = session[q].pending[x] BY <1>1
<1> QED BY <1>2 DEF TrackedSound

\* Nothing is tracked, queued, sent or answered; the loop forgets what it has
\* in hand of peers it gave up only.
LEMMA FrameSound ==
    ASSUME TypeOK, CopiesSound, PendingKept, RetriesKept,
           UNCHANGED <<unackedMsg, job, outbox, flight, sends, answered>>,
           stale' \subseteq stale, exhausted \subseteq exhausted',
           \A q \in ExchangePeers, x \in Surb : <<q, x>> \in stale \ stale' =>
             \E m \in Payload : <<q, m>> \in exhausted'
    PROVE  CopiesSound'
<1>1. JobsSound'
  <2> SUFFICES ASSUME NEW c \in Clients, job[c] # NoJob
               PROVE  LET p == job[c].peer
                          x == job[c].surb
                      IN  /\ x[2] = sends[p][x[1]]
                          /\ session'[p].pending[x].sentAt = 0
                          /\ job[c].stage = "crypto" => ~session'[p].pending[x].tracked
                          /\ <<p, x>> \notin outbox \cup flight
                          /\ c = "learner" => x[2] = 1 /\ <<p, x[1]>> \notin answered
                          /\ c = "resend" =>
                               /\ x[1] \in Fragments
                               /\ \E y \in Carriers(session'[p], x[1]) : y[2] = x[2] - 1
    BY DEF JobsSound
  <2>1. job[c].peer \in ExchangePeers BY JobType
  <2>2. session'[job[c].peer].pending = session[job[c].peer].pending
    BY <2>1 DEF PendingKept
  <2>3. Carriers(session'[job[c].peer], job[c].surb[1])
          = Carriers(session[job[c].peer], job[c].surb[1])
    BY <2>2 DEF Carriers, InFlight
  <2> QED BY <2>2, <2>3 DEF CopiesSound, JobsSound
<1>2. PacketsSound'
  <2>1. \A o \in outbox \cup flight : session'[o[1]].pending = session[o[1]].pending
    BY DEF PendingKept, TypeOK
  <2> QED BY <2>1 DEF CopiesSound, PacketsSound
<1>3. TrackedSound' BY TrackedKept DEF CopiesSound
<1>4. StaleSound'
  <2>1. \A o \in stale : session'[o[1]].pending = session[o[1]].pending
    BY DEF PendingKept, TypeOK
  <2> QED BY <2>1 DEF CopiesSound, StaleSound
<1>5. RetriesSound' BY DEF CopiesSound, RetriesSound, PendingKept, RetriesKept, Resending
<1>6. AnsweredSent' BY DEF CopiesSound, AnsweredSent
<1>7. NoOrphanFlag' BY DEF CopiesSound, NoOrphanFlag, PendingKept, InFlight
<1>8. UnackedNotOvercounted' BY OpenKept DEF CopiesSound, UnackedNotOvercounted
<1> QED BY <1>1, <1>2, <1>3, <1>4, <1>5, <1>6, <1>7, <1>8 DEF CopiesSound

\* Two clients never wait for the same copy.
LEMMA OneJobPerCopy ==
    ASSUME TypeOK, JobsSound, NEW c \in Clients, NEW d \in Clients \ {c},
           job[c] # NoJob, job[d] # NoJob
    PROVE  <<job[c].peer, job[c].surb>> # <<job[d].peer, job[d].surb>>
<1>1. ASSUME NEW e \in Clients, job[e] # NoJob, e = "resend"
      PROVE  job[e].surb[2] > 1
  <2>1. PICK y \in Carriers(session[job[e].peer], job[e].surb[1]) :
           y[2] = job[e].surb[2] - 1
    BY <1>1 DEF JobsSound
  <2>2. y[2] \in 1..MaxSends BY DEF Carriers, InFlight, Surb
  <2>3. job[e].surb[2] \in 1..MaxSends BY <1>1, JobType
  <2> QED BY <2>1, <2>2, <2>3, SessionAssumption
<1>2. ASSUME NEW e \in Clients, job[e] # NoJob, e = "learner"
      PROVE  job[e].surb[2] = 1
  BY <1>2 DEF JobsSound
<1>3. \/ c = "learner" /\ d = "resend"
      \/ c = "resend" /\ d = "learner"
  BY DEF Clients
<1> QED BY <1>1, <1>2, <1>3

\* A copy in a client's hands or in the outbox was not stamped yet and is the
\* last one; so none of the two is there when the last one was sent or when
\* there is none.
LEMMA NothingQueued ==
    ASSUME TypeOK, JobsSound, PacketsSound,
           NEW p \in ExchangePeers, NEW m \in Payload,
           \/ sends[p][m] = 0
           \/ session[p].pending[<<m, sends[p][m]>>].sentAt # 0
    PROVE  /\ \A c \in Clients : job[c] # NoJob =>
                ~(job[c].peer = p /\ job[c].surb[1] = m)
           /\ \A o \in outbox : ~(o[1] = p /\ o[2][1] = m)
<1>1. ASSUME NEW c \in Clients, job[c] # NoJob, job[c].peer = p, job[c].surb[1] = m
      PROVE  FALSE
  <2>1. job[c].surb \in Surb /\ job[c].surb[2] \in 1..MaxSends BY <1>1, JobType
  <2>2. job[c].surb = <<m, job[c].surb[2]>> BY <1>1, <2>1 DEF Surb
  <2>3. /\ job[c].surb[2] = sends[p][m]
        /\ session[p].pending[job[c].surb].sentAt = 0
    BY <1>1 DEF JobsSound
  <2> QED BY <2>1, <2>2, <2>3, SessionAssumption
<1>2. ASSUME NEW o \in outbox, o[1] = p, o[2][1] = m
      PROVE  FALSE
  <2>1. o[2] \in Surb /\ o[2][2] \in 1..MaxSends BY DEF TypeOK, Surb
  <2>2. o[2] = <<m, o[2][2]>> BY <1>2, <2>1 DEF Surb
  <2>3. o[2][2] = sends[p][m] /\ session[p].pending[o[2]].sentAt = 0
    BY <1>2 DEF PacketsSound
  <2> QED BY <2>1, <2>2, <2>3, SessionAssumption
<1> QED BY <1>1, <1>2

\* The learner makes the first copy of a payload, the loop the next one of
\* what it has in hand.
FirstCopy(c, p, m) ==
    c = "learner" /\ sends[p][m] = 0 /\ stale' = stale

NextCopy(c, p, m) ==
    /\ c = "resend"
    /\ <<p, <<m, sends[p][m]>>>> \in stale
    /\ session[p].retries[m] < MaxResends
    /\ stale' = stale \ {<<p, <<m, sends[p][m]>>>>}

LEMMA StartSound ==
    ASSUME TypeOK, CopiesSound,
           NEW c \in Clients, NEW p \in ExchangePeers, NEW m \in Payload,
           job[c] = NoJob, StartJob(c, p, m), FirstCopy(c, p, m) \/ NextCopy(c, p, m),
           UNCHANGED <<session, unackedMsg, outbox, flight, answered, exhausted>>
    PROVE  CopiesSound'
<1> DEFINE n == sends[p][m]
           b == <<m, n + 1>>
<1>0. p \in Peers /\ n \in Nat /\ ExchangePeers' = ExchangePeers
  BY DEF TypeOK, ExchangePeers
<1>1. /\ job' \in [Clients -> {NoJob} \cup Jobs]
      /\ job'[c] # NoJob /\ job'[c].stage = "crypto" /\ job'[c].peer = p
      /\ job'[c].surb = b
      /\ b \in Surb
      /\ \A d \in Clients \ {c} : job'[d] = job[d]
      /\ sends' \in [Peers -> [Payload -> Nat]]
      /\ sends'[p][m] = n + 1
      /\ \A q \in Peers, k \in Payload : <<q, k>> # <<p, m>> => sends'[q][k] = sends[q][k]
  BY StartEffect
<1>2. \/ n = 0
      \/ /\ <<m, n>> \in Surb /\ m \in Fragments /\ n > 0
         /\ session[p].pending[<<m, n>>].tracked
         /\ session[p].pending[<<m, n>>].sentAt # 0
         /\ session[p].pending[<<m, n>>].pendingResend
  <2>1. CASE FirstCopy(c, p, m) BY <2>1 DEF FirstCopy
  <2>2. CASE NextCopy(c, p, m)
    <3>1. <<p, <<m, n>>>> \in stale BY <2>2 DEF NextCopy
    <3>2. <<m, n>> \in Surb BY <3>1 DEF TypeOK
    <3>3. n \in 1..MaxSends BY <3>2 DEF Surb
    <3> QED BY <3>1, <3>2, <3>3 DEF CopiesSound, StaleSound
  <2> QED BY <2>1, <2>2
<1>3. /\ \A d \in Clients : job[d] # NoJob => ~(job[d].peer = p /\ job[d].surb[1] = m)
      /\ \A o \in outbox : ~(o[1] = p /\ o[2][1] = m)
  BY <1>2, NothingQueued DEF CopiesSound
<1> HIDE DEF n
<1>4. /\ \A x \in Surb : x[1] = m /\ session[p].pending[x].tracked => x[2] <= n
      /\ ~session[p].pending[b].tracked /\ session[p].pending[b].sentAt = 0
  <2>1. \A x \in Surb : x[1] = m /\ session[p].pending[x].tracked => x[2] <= n
    BY DEF CopiesSound, TrackedSound, n
  <2>2. ~session[p].pending[b].tracked BY <1>0, <1>1, <2>1
  <2> QED BY <1>1, <2>1, <2>2 DEF CopiesSound, TrackedSound
<1>5. JobsSound'
  <2> SUFFICES ASSUME NEW d \in Clients, job'[d] # NoJob
               PROVE  JobFits(d, job'[d], sends'[job'[d].peer][job'[d].surb[1]],
                              session'[job'[d].peer], outbox' \cup flight', answered')
    BY JobsFit
  <2>1. CASE d = c
    <3>1. <<p, b>> \notin outbox BY <1>3
    <3>2. <<p, b>> \notin flight BY <1>0 DEF CopiesSound, PacketsSound, n
    <3>3. CASE FirstCopy(c, p, m)
      <4>1. n = 0 /\ c # "resend" BY <3>3 DEF FirstCopy, n
      <4>2. <<p, m>> \notin answered BY <4>1 DEF CopiesSound, AnsweredSent, n
      <4> QED BY <1>1, <1>4, <2>1, <3>1, <3>2, <4>1, <4>2 DEF JobFits
    <3>4. CASE NextCopy(c, p, m)
      <4>1. n # 0 /\ c # "learner" BY <1>1, <3>4, <1>0 DEF NextCopy, n, TypeOK, Surb
      <4>2. <<m, n>> \in Carriers(session[p], m) BY <1>2, <4>1 DEF Carriers, InFlight
      <4>3. <<m, n>>[2] = b[2] - 1 /\ m \in Fragments BY <1>0, <1>2, <4>1
      <4> QED BY <1>1, <1>4, <2>1, <3>1, <3>2, <4>1, <4>2, <4>3 DEF JobFits
    <3> QED BY <3>3, <3>4
  <2>2. CASE d # c
    <3>1. job'[d] = job[d] BY <1>1, <2>2
    <3>2. job[d].peer \in Peers /\ job[d].surb[1] \in Payload BY <3>1, JobType
    <3>3. <<job[d].peer, job[d].surb[1]>> # <<p, m>> BY <1>3, <3>1
    <3>4. sends'[job[d].peer][job[d].surb[1]] = sends[job[d].peer][job[d].surb[1]]
      BY <1>1, <3>2, <3>3
    <3>5. job[d] # NoJob BY <3>1
    <3>6. JobFits(d, job[d], sends[job[d].peer][job[d].surb[1]],
                  session[job[d].peer], outbox \cup flight, answered)
      BY <3>5, JobIs
    <3> QED BY <3>1, <3>4, <3>6
  <2> QED BY <2>1, <2>2
<1>6. PacketsSound'
  <2>1. \A o \in outbox : sends'[o[1]][o[2][1]] = sends[o[1]][o[2][1]]
    <3> TAKE o \in outbox
    <3>1. o[1] \in Peers /\ o[2][1] \in Payload BY DEF TypeOK, Surb
    <3> QED BY <1>1, <1>3, <3>1
  <2>2. \A o \in flight : sends'[o[1]][o[2][1]] >= sends[o[1]][o[2][1]]
    <3> TAKE o \in flight
    <3>1. o[1] \in Peers /\ o[2][1] \in Payload BY DEF TypeOK, Surb
    <3>2. sends[o[1]][o[2][1]] \in Nat BY <3>1 DEF TypeOK
    <3>3. CASE <<o[1], o[2][1]>> = <<p, m>> BY <1>0, <1>1, <3>3 DEF n
    <3>4. CASE <<o[1], o[2][1]>> # <<p, m>> BY <1>1, <3>1, <3>2, <3>4
    <3> QED BY <3>3, <3>4
  <2>3. \A o \in flight : /\ o[2][2] \in Int /\ sends[o[1]][o[2][1]] \in Int
                          /\ sends'[o[1]][o[2][1]] \in Int
    BY <1>1 DEF TypeOK, Surb
  <2>4. PacketsSound BY DEF CopiesSound
  <2>5. outbox' = outbox /\ flight' = flight /\ session' = session BY <1>1
  <2>6. \A o \in flight : o[2][2] <= sends'[o[1]][o[2][1]]
    BY <2>2, <2>3, <2>4 DEF PacketsSound
  <2> QED BY <2>1, <2>4, <2>5, <2>6, Zenon DEF PacketsSound
<1>7. TrackedSound'
  <2> SUFFICES ASSUME NEW q \in ExchangePeers, NEW x \in Surb, session[q].pending[x].tracked
               PROVE  /\ x[2] <= sends'[q][x[1]]
                      /\ x[1] \in Fragments /\ x[2] < sends'[q][x[1]] =>
                           session[q].pending[x].pendingResend \/ session[q].pending[x].acked
    BY <1>0 DEF CopiesSound, TrackedSound
  <2>1. q \in Peers /\ x[1] \in Payload /\ x[2] \in Nat BY DEF TypeOK, Surb
  <2>2. CASE <<q, x[1]>> # <<p, m>>
    <3>1. TrackedSound BY DEF CopiesSound
    <3>2. sends'[q][x[1]] = sends[q][x[1]] BY <1>1, <2>1, <2>2
    <3> QED BY <3>1, <3>2 DEF TrackedSound
  <2>3. CASE <<q, x[1]>> = <<p, m>> /\ x[2] < n
    <3>1. q = p /\ x[1] = m /\ x[2] < sends[q][x[1]] BY <2>3 DEF n
    <3>2. x[1] \in Fragments => session[q].pending[x].pendingResend \/ session[q].pending[x].acked
      BY <3>1 DEF CopiesSound, TrackedSound
    <3> QED BY <1>0, <1>1, <2>1, <2>3, <3>1, <3>2
  <2>4. CASE <<q, x[1]>> = <<p, m>> /\ x[2] = n
    <3>1. x = <<m, n>> /\ n # 0 BY <2>4, SessionAssumption DEF Surb
    <3> QED BY <1>0, <1>1, <1>2, <2>1, <2>4, <3>1
  <2> QED BY <1>0, <1>4, <2>1, <2>2, <2>3, <2>4
<1>8. StaleSound'
  <2> SUFFICES ASSUME NEW o \in stale'
               PROVE  o \in stale /\ sends'[o[1]][o[2][1]] = sends[o[1]][o[2][1]]
    BY DEF CopiesSound, StaleSound
  <2>1. o \in stale BY DEF FirstCopy, NextCopy
  <2>2. o[1] \in Peers /\ o[2] \in Surb /\ o[2][1] \in Payload /\ o[2][2] \in 1..MaxSends
    BY <2>1 DEF TypeOK, Surb
  <2>3. <<o[1], o[2][1]>> # <<p, m>>
    <3>1. SUFFICES ASSUME o[1] = p, o[2][1] = m PROVE FALSE BY Zenon
    <3>2. o[2][2] = n BY <2>1, <3>1 DEF CopiesSound, StaleSound, n
    <3>3. o = <<p, <<m, n>>>> BY <2>1, <2>2, <3>1, <3>2 DEF TypeOK, Surb
    <3>4. n # 0 BY <2>2, <3>2, SessionAssumption
    <3> QED BY <3>3, <3>4 DEF FirstCopy, NextCopy, n
  <2> QED BY <1>1, <2>1, <2>2, <2>3
<1>9. RetriesSound'
  <2> SUFFICES ASSUME NEW q \in Peers, NEW k \in Fragments
               PROVE  /\ sends'[q][k] <= 1 + MaxResends
                      /\ sends'[q][k] = 0 \/ q \in ExchangePeers
                      /\ q \in ExchangePeers =>
                           session[q].retries[k] =
                             IF sends'[q][k] = 0 THEN 0
                             ELSE IF Resending(q, k)' THEN sends'[q][k] - 2
                             ELSE sends'[q][k] - 1
    BY <1>0 DEF RetriesSound
  <2>0. k \in Payload BY DEF Fragments
  <2>1. CASE <<q, k>> # <<p, m>>
    <3>1. Resending(q, k)' <=> Resending(q, k)
      <4>1. CASE c = "learner"
        <5>1. job'["resend"] = job["resend"] BY <1>1, <4>1 DEF Clients
        <5> QED BY <5>1 DEF Resending
      <4>2. CASE c = "resend"
        <5>1. ~Resending(q, k)' BY <1>1, <2>1, <4>2 DEF Resending
        <5> QED BY <4>2, <5>1 DEF Resending
      <4> QED BY <4>1, <4>2 DEF Clients
    <3> QED BY <1>1, <2>0, <2>1, <3>1 DEF CopiesSound, RetriesSound
  <2>2. CASE q = p /\ k = m
    <3>1. ~Resending(p, m) BY <1>3 DEF Resending, Clients
    <3>2. session[p].retries[m] = IF n = 0 THEN 0 ELSE n - 1
      BY <1>0, <2>2, <3>1 DEF CopiesSound, RetriesSound, n
    <3>3. CASE FirstCopy(c, p, m)
      <4>1. c = "learner" /\ n = 0 BY <3>3 DEF FirstCopy, n
      <4>2. job'["resend"] = job["resend"] BY <1>1, <4>1 DEF Clients
      <4>3. ~Resending(p, m)' BY <3>1, <4>2 DEF Resending
      <4> QED BY <1>1, <2>2, <3>2, <4>1, <4>3, ResendAssumption
    <3>4. CASE NextCopy(c, p, m)
      <4>1. c = "resend" /\ n # 0 BY <3>4 DEF NextCopy, n, TypeOK, Surb
      <4>2. Resending(p, m)' BY <1>1, <4>1 DEF Resending
      <4>3. n - 1 < MaxResends BY <3>2, <3>4, <4>1 DEF NextCopy
      <4> QED BY <1>0, <1>1, <2>2, <3>2, <4>1, <4>2, <4>3, ResendAssumption
    <3> QED BY <3>3, <3>4
  <2> QED BY <2>1, <2>2
<1>10. AnsweredSent'
  <2> SUFFICES ASSUME NEW a \in answered PROVE sends'[a[1]][a[2]] > 0
    BY DEF AnsweredSent
  <2>1. a[1] \in Peers /\ a[2] \in Payload BY DEF TypeOK
  <2>2. sends[a[1]][a[2]] > 0 BY DEF CopiesSound, AnsweredSent
  <2>3. CASE <<a[1], a[2]>> = <<p, m>> BY <1>0, <1>1, <2>3
  <2>4. CASE <<a[1], a[2]>> # <<p, m>> BY <1>1, <2>1, <2>2, <2>4
  <2> QED BY <2>3, <2>4
<1>11. NoOrphanFlag'
  <2> SUFFICES ASSUME NEW q \in ExchangePeers, NEW x \in InFlight(session[q]),
                      session[q].pending[x].pendingResend, ~session[q].pending[x].acked,
                      ~ \E k \in Payload : <<q, k>> \in exhausted
               PROVE  <<q, x>> \in stale' \/ sends'[q][x[1]] > x[2]
    BY <1>0 DEF NoOrphanFlag
  <2>1. <<q, x>> \in stale \/ sends[q][x[1]] > x[2]
    BY DEF CopiesSound, NoOrphanFlag
  <2>2. q \in Peers /\ x[1] \in Payload /\ x[2] \in Nat BY DEF TypeOK, Surb, InFlight
  <2>3. sends'[q][x[1]] >= sends[q][x[1]] /\ sends[q][x[1]] \in Nat /\ sends'[q][x[1]] \in Nat
    <3>1. sends[q][x[1]] \in Nat /\ sends'[q][x[1]] \in Nat BY <1>1, <2>2 DEF TypeOK
    <3>2. CASE <<q, x[1]>> = <<p, m>> BY <1>0, <1>1, <3>2 DEF n
    <3>3. CASE <<q, x[1]>> # <<p, m>> BY <1>1, <2>2, <3>1, <3>3
    <3> QED BY <3>1, <3>2, <3>3
  <2>4. CASE sends[q][x[1]] > x[2] BY <2>2, <2>3, <2>4
  <2>5. CASE <<q, x>> \in stale
    <3>1. CASE <<q, x>> \in stale' BY <3>1
    <3>2. CASE <<q, x>> \notin stale'
      <4>1. q = p /\ x = <<m, n>> BY <2>5, <3>2 DEF FirstCopy, NextCopy, n
      <4> QED BY <1>0, <1>1, <4>1
    <3> QED BY <3>1, <3>2
  <2> QED BY <2>1, <2>4, <2>5
<1>12. UnackedNotOvercounted'
  <2>1. Open' = Open BY DEF Open, InFlight, ExchangePeers
  <2> QED BY <2>1 DEF CopiesSound, UnackedNotOvercounted
<1> QED BY <1>5, <1>6, <1>7, <1>8, <1>9, <1>10, <1>11, <1>12 DEF CopiesSound

\* A client queues the copy it waited for; the loop counts its retry.
LEMMA ResumeSound ==
    ASSUME TypeOK, CopiesSound, NEW c \in Clients,
           job[c] # NoJob, job' = [job EXCEPT ![c] = NoJob],
           outbox' = outbox \cup {<<job[c].peer, job[c].surb>>},
           PendingKept,
           c = "learner" => RetriesKept,
           c = "resend" =>
             \A q \in ExchangePeers : \A m \in Payload :
               session'[q].retries[m] =
                 IF q = job[c].peer /\ m = job[c].surb[1]
                 THEN session[q].retries[m] + 1 ELSE session[q].retries[m],
           UNCHANGED <<unackedMsg, flight, stale, sends, answered, exhausted>>
    PROVE  CopiesSound'
<1> DEFINE p == job[c].peer
           b == job[c].surb
<1>0. /\ p \in ExchangePeers /\ p \in Peers /\ b \in Surb
      /\ b[1] \in Payload /\ b[2] \in 1..MaxSends
  BY JobType
<1>1. job'[c] = NoJob /\ \A d \in Clients \ {c} : job'[d] = job[d]
  BY ResumeEffect
<1>2. ExchangePeers' = ExchangePeers
      /\ \A q \in ExchangePeers : session'[q].pending = session[q].pending
  BY DEF PendingKept
<1>3. /\ b[2] = sends[p][b[1]]
      /\ session[p].pending[b].sentAt = 0
  BY DEF CopiesSound, JobsSound
<1>4. JobsSound'
  <2> SUFFICES ASSUME NEW d \in Clients, job'[d] # NoJob
               PROVE  JobFits(d, job'[d], sends'[job'[d].peer][job'[d].surb[1]],
                              session'[job'[d].peer], outbox' \cup flight', answered')
    BY JobsFit
  <2>1. d \in Clients \ {c} /\ job'[d] = job[d] /\ job[d] # NoJob BY <1>1
  <2>2. <<job[d].peer, job[d].surb>> # <<p, b>>
    BY <2>1, OneJobPerCopy DEF CopiesSound
  <2>3. job[d].peer \in ExchangePeers BY <2>1, JobType
  <2>4. session'[job[d].peer].pending = session[job[d].peer].pending BY <1>2, <2>3
  <2>5. Carriers(session'[job[d].peer], job[d].surb[1])
          = Carriers(session[job[d].peer], job[d].surb[1])
    BY <2>4 DEF Carriers, InFlight
  <2>6. JobFits(d, job[d], sends[job[d].peer][job[d].surb[1]],
                session[job[d].peer], outbox \cup flight, answered)
    BY <2>1, JobIs
  <2>7. <<job[d].peer, job[d].surb>> \notin outbox' \cup flight'
    BY <2>2, <2>6 DEF JobFits
  <2>8. d = "learner" => <<job[d].peer, job[d].surb[1]>> \notin answered'
    BY <2>6 DEF JobFits
  <2> HIDE DEF p, b
  <2>9. JobFits(d, job[d], sends[job[d].peer][job[d].surb[1]],
                session'[job[d].peer], outbox' \cup flight', answered')
    BY <2>1, <2>4, <2>5, <2>7, <2>8, JobKept
  <2> QED BY <2>1, <2>9
<1>5. PacketsSound'
  <2>1. \A o \in outbox \cup flight : session'[o[1]].pending = session[o[1]].pending
    BY <1>2 DEF TypeOK
  <2>2. session'[p].pending[b].sentAt = 0 BY <1>0, <1>2, <1>3
  <2>3. \A o \in outbox' : \/ o \in outbox
                           \/ o[1] = p /\ o[2] = b
    OBVIOUS
  <2> HIDE DEF p, b
  <2> QED BY <1>3, <2>1, <2>2, <2>3 DEF CopiesSound, PacketsSound
<1>6. TrackedSound' BY TrackedKept DEF CopiesSound
<1>7. StaleSound'
  <2>1. \A o \in stale : session'[o[1]].pending = session[o[1]].pending
    BY <1>2 DEF TypeOK
  <2> QED BY <2>1 DEF CopiesSound, StaleSound
<1>8. RetriesSound'
  <2> SUFFICES ASSUME NEW q \in Peers, NEW m \in Fragments, q \in ExchangePeers
               PROVE  session'[q].retries[m] =
                        IF sends[q][m] = 0 THEN 0
                        ELSE IF Resending(q, m)' THEN sends[q][m] - 2
                        ELSE sends[q][m] - 1
    BY <1>2 DEF CopiesSound, RetriesSound
  <2>1. session[q].retries[m] =
          IF sends[q][m] = 0 THEN 0
          ELSE IF Resending(q, m) THEN sends[q][m] - 2
          ELSE sends[q][m] - 1
    BY DEF CopiesSound, RetriesSound
  <2>2. m \in Payload BY DEF Fragments
  <2>3. CASE c = "learner"
    <3>1. job'["resend"] = job["resend"] BY <1>1, <2>3 DEF Clients
    <3>2. Resending(q, m)' <=> Resending(q, m) BY <3>1 DEF Resending
    <3> QED BY <2>1, <2>3, <3>2 DEF RetriesKept
  <2>4. CASE c = "resend"
    <3>1. ~Resending(q, m)' BY <1>1, <2>4 DEF Resending
    <3>2. Resending(q, m) <=> q = p /\ m = b[1] BY <2>4 DEF Resending
    <3>3. session'[q].retries[m] = IF q = p /\ m = b[1] THEN session[q].retries[m] + 1
                                   ELSE session[q].retries[m]
      BY <2>2, <2>4
    <3>4. q = p /\ m = b[1] => sends[q][m] # 0 BY <1>0, <1>3, SessionAssumption
    <3>5. sends[q][m] \in Nat BY <2>2 DEF TypeOK
    <3> HIDE DEF p, b
    <3> QED BY <2>1, <3>1, <3>2, <3>3, <3>4, <3>5
  <2> QED BY <2>3, <2>4 DEF Clients
<1>9. AnsweredSent' BY DEF CopiesSound, AnsweredSent
<1>10. NoOrphanFlag' BY <1>2 DEF CopiesSound, NoOrphanFlag, InFlight
<1>11. UnackedNotOvercounted' BY OpenKept DEF CopiesSound, UnackedNotOvercounted
<1> QED BY <1>4, <1>5, <1>6, <1>7, <1>8, <1>9, <1>10, <1>11 DEF CopiesSound

\* UNACKED_MSG is bounded by the open messages when one is added, at most
\* when a first copy is tracked, and lowered when one is closed.
LEMMA OpenFinite ==
    ASSUME TypeOK
    PROVE  IsFiniteSet(Open) /\ Cardinality(Open) \in Nat
<1>1. IsFiniteSet(Fragments) BY ResendAssumption, FS_Subset DEF Fragments
<1>2. IsFiniteSet(ExchangePeers) BY ResendAssumption, FS_Subset DEF TypeOK
<1>3. IsFiniteSet(ExchangePeers \X Fragments) BY <1>1, <1>2, FS_Product
<1>4. Open \subseteq ExchangePeers \X Fragments BY DEF Open
<1> QED BY <1>3, <1>4, FS_Subset, FS_CardinalityType

\* The executor's thread records the copy of client c.
LEMMA TrackSound ==
    ASSUME TypeOK, CopiesSound, NEW c \in Clients, Track(c)
    PROVE  CopiesSound'
<1> DEFINE p == job[c].peer
           b == job[c].surb
           t == TrackOutbound(session[p], b)
<1>0. job[c] # NoJob /\ job[c].stage = "crypto" BY TrackEffect DEF Track
<1>1. /\ p \in ExchangePeers /\ p \in Peers /\ b \in Surb
      /\ b[1] \in Payload /\ b[2] \in 1..MaxSends
  BY <1>0, JobType
<1>2. /\ job'[c] # NoJob /\ job'[c].stage = "tracked"
      /\ job'[c].peer = p /\ job'[c].surb = b
      /\ \A d \in Clients \ {c} : job'[d] = job[d]
      /\ SessionBecomes(p, t)
  BY TrackEffect
<1>3. /\ outbox' = outbox /\ flight' = flight /\ stale' = stale /\ sends' = sends
      /\ answered' = answered /\ exhausted' = exhausted
  BY DEF Track, netVars, history, loopVars
<1>4. /\ b[2] = sends[p][b[1]]
      /\ session[p].pending[b].sentAt = 0
      /\ ~session[p].pending[b].tracked
      /\ <<p, b>> \notin outbox /\ <<p, b>> \notin flight
      /\ c = "learner" => b[2] = 1 /\ <<p, b[1]>> \notin answered
      /\ c = "resend" => /\ b[1] \in Fragments
                         /\ \E y \in Carriers(session[p], b[1]) : y[2] = b[2] - 1
  BY <1>0 DEF CopiesSound, JobsSound
<1> HIDE DEF t
<1>5. /\ t.state = session[p].state /\ t.retries = session[p].retries
      /\ \A x \in Surb \ {b} : t.pending[x] = session[p].pending[x]
      /\ t.pending[b].tracked /\ t.pending[b].sentAt = 0
      /\ ~t.pending[b].acked /\ ~t.pending[b].pendingResend
  <2>1. session[p] \in Sessions BY <1>1 DEF TypeOK
  <2> HIDE DEF p, b
  <2> QED BY <1>1, <2>1, TrackOutboundFields DEF t
<1>6. /\ ExchangePeers' = ExchangePeers
      /\ \A q \in ExchangePeers, x \in Surb :
           <<q, x>> # <<p, b>> => session'[q].pending[x] = session[q].pending[x]
      /\ session'[p].pending[b].tracked /\ session'[p].pending[b].sentAt = 0
      /\ ~session'[p].pending[b].acked /\ ~session'[p].pending[b].pendingResend
      /\ \A q \in ExchangePeers : session'[q].retries = session[q].retries
  BY <1>1, <1>2, <1>5 DEF SessionBecomes
<1> HIDE DEF p, b
<1>7. \A q \in ExchangePeers, x \in Surb :
        session[q].pending[x].tracked => session'[q].pending[x].tracked
  BY <1>4, <1>6
<1>8. JobsSound'
  <2> SUFFICES ASSUME NEW d \in Clients, job'[d] # NoJob
               PROVE  JobFits(d, job'[d], sends'[job'[d].peer][job'[d].surb[1]],
                              session'[job'[d].peer], outbox' \cup flight', answered')
    BY JobsFit
  <2>1. \A q \in ExchangePeers, m \in Payload :
          Carriers(session[q], m) \subseteq Carriers(session'[q], m)
    BY <1>7 DEF Carriers, InFlight
  <2>2. CASE d = c
    BY <1>1, <1>2, <1>3, <1>4, <1>6, <2>1, <2>2 DEF JobFits
  <2>3. CASE d # c
    <3>1. job'[d] = job[d] /\ job[d] # NoJob BY <1>2, <2>3
    <3>2. <<job[d].peer, job[d].surb>> # <<p, b>>
      BY <1>0, <2>3, <3>1, OneJobPerCopy DEF CopiesSound, p, b
    <3>3. job[d].peer \in ExchangePeers /\ job[d].surb \in Surb /\ job[d].surb[1] \in Payload
      BY <3>1, JobType
    <3>4. session'[job[d].peer].pending[job[d].surb]
            = session[job[d].peer].pending[job[d].surb]
      BY <1>6, <3>2, <3>3
    <3>5. Carriers(session[job[d].peer], job[d].surb[1])
            \subseteq Carriers(session'[job[d].peer], job[d].surb[1])
      BY <2>1, <3>3
    <3>6. JobFits(d, job[d], sends[job[d].peer][job[d].surb[1]],
                  session[job[d].peer], outbox \cup flight, answered)
      BY <1>0, <3>1, JobIs
    <3>7. /\ <<job[d].peer, job[d].surb>> \notin outbox' \cup flight'
          /\ d = "learner" => <<job[d].peer, job[d].surb[1]>> \notin answered'
          /\ sends' = sends
      BY <1>3, <3>6 DEF JobFits
    <3>8. JobFits(d, job[d], sends'[job[d].peer][job[d].surb[1]],
                  session'[job[d].peer], outbox' \cup flight', answered')
      BY <1>0, <3>1, <3>4, <3>5, <3>7, JobKept
    <3> QED BY <3>1, <3>8
  <2> QED BY <2>2, <2>3
<1>9. PacketsSound'
  <2>1. \A o \in outbox \cup flight :
          session'[o[1]].pending[o[2]] = session[o[1]].pending[o[2]]
    <3> TAKE o \in outbox \cup flight
    <3>1. o[1] \in ExchangePeers /\ o[2] \in Surb /\ o = <<o[1], o[2]>> BY DEF TypeOK
    <3>2. o # <<p, b>> BY <1>4
    <3> QED BY <1>6, <3>1, <3>2
  <2> QED BY <1>3, <2>1 DEF CopiesSound, PacketsSound
<1>10. TrackedSound'
  <2> SUFFICES ASSUME NEW q \in ExchangePeers, NEW x \in Surb
               PROVE  LET f == session'[q].pending[x]
                      IN  /\ ~f.tracked => f.sentAt = 0
                          /\ f.tracked => /\ x[2] <= sends[q][x[1]]
                                          /\ f.acked => <<q, x[1]>> \in answered
                          /\ f.tracked /\ x[1] \in Fragments /\ x[2] < sends[q][x[1]] =>
                               f.pendingResend \/ f.acked
    BY <1>3, <1>6 DEF TrackedSound
  <2>1. CASE <<q, x>> = <<p, b>> BY <1>1, <1>4, <1>6, <2>1
  <2>2. CASE <<q, x>> # <<p, b>>
    <3>1. session'[q].pending[x] = session[q].pending[x] BY <1>6, <2>2
    <3> QED BY <3>1 DEF CopiesSound, TrackedSound
  <2> QED BY <2>1, <2>2
<1>11. StaleSound'
  <2>1. \A o \in stale :
          session'[o[1]].pending[o[2]] = session[o[1]].pending[o[2]]
    <3> TAKE o \in stale
    <3>1. o[1] \in ExchangePeers /\ o[2] \in Surb BY DEF TypeOK
    <3>2. <<o[1], o[2]>> # <<p, b>> BY <1>4 DEF CopiesSound, StaleSound
    <3> QED BY <1>6, <3>1, <3>2
  <2> QED BY <1>3, <2>1 DEF CopiesSound, StaleSound
<1>12. RetriesSound'
  <2>1. \A q \in Peers, m \in Fragments : Resending(q, m)' <=> Resending(q, m)
    <3>1. CASE c = "resend"
      <4>1. /\ job["resend"] # NoJob /\ job'["resend"] # NoJob
            /\ job'["resend"].peer = job["resend"].peer
            /\ job'["resend"].surb = job["resend"].surb
        BY <1>0, <1>2, <3>1 DEF p, b
      <4> QED BY <4>1 DEF Resending
    <3>2. CASE c # "resend"
      <4>1. job'["resend"] = job["resend"] BY <1>2, <3>2 DEF Clients
      <4> QED BY <4>1 DEF Resending
    <3> QED BY <3>1, <3>2
  <2> QED BY <1>3, <1>6, <2>1 DEF CopiesSound, RetriesSound
<1>13. AnsweredSent' BY <1>3 DEF CopiesSound, AnsweredSent
<1>14. NoOrphanFlag'
  <2> SUFFICES ASSUME NEW q \in ExchangePeers, NEW x \in Surb,
                      session'[q].pending[x].tracked,
                      session'[q].pending[x].pendingResend, ~session'[q].pending[x].acked
               PROVE  \/ <<q, x>> \in stale
                      \/ sends[q][x[1]] > x[2]
                      \/ \E m \in Payload : <<q, m>> \in exhausted
    BY <1>3, <1>6 DEF NoOrphanFlag, InFlight
  <2>1. session'[q].pending[x] = session[q].pending[x] BY <1>6
  <2> QED BY <2>1 DEF CopiesSound, NoOrphanFlag, InFlight
<1>15. UnackedNotOvercounted'
  <2>0. IsFiniteSet(Open) /\ Cardinality(Open) \in Nat /\ unackedMsg \in 0..Cardinality(Open)
    BY OpenFinite DEF CopiesSound, UnackedNotOvercounted
  <2>1. \A pm \in ExchangePeers \X Fragments : pm # <<p, b[1]>> =>
          (pm \in Open' <=> pm \in Open)
    <3> TAKE pm \in ExchangePeers \X Fragments
    <3>1. ASSUME pm # <<p, b[1]>>
          PROVE  \A x \in Surb : x[1] = pm[2] =>
                   session'[pm[1]].pending[x] = session[pm[1]].pending[x]
      <4>1. pm = <<pm[1], pm[2]>> OBVIOUS
      <4> QED BY <1>6, <3>1, <4>1
    <3> QED BY <1>3, <1>6, <3>1 DEF Open, InFlight
  <2>2. Open \subseteq Open'
    <3> SUFFICES ASSUME NEW pm \in Open PROVE pm \in Open' OBVIOUS
    <3>1. PICK x \in InFlight(session[pm[1]]) : x[1] = pm[2] BY DEF Open
    <3>2. x \in Surb /\ session'[pm[1]].pending[x].tracked BY <1>7 DEF InFlight, Open
    <3> QED BY <1>3, <1>6, <3>1, <3>2 DEF Open, InFlight
  <2>3. Open' \subseteq Open \cup {<<p, b[1]>>} BY <1>6, <2>1 DEF Open
  <2>4. CASE ~TrackCounts(session[p], b)
    <3>1. unackedMsg' = unackedMsg BY <2>4 DEF Track, p, b
    <3>2. Open' = Open
      <4>1. SUFFICES <<p, b[1]>> \in Open' => <<p, b[1]>> \in Open BY <2>2, <2>3
      <4>2. ASSUME b[1] \in Fragments, <<p, b[1]>> \notin answered
            PROVE  <<p, b[1]>> \in Open
        <5>1. PICK x \in Carriers(session[p], b[1]) : x # b
          BY <1>1, <2>4, <4>2 DEF TrackCounts, Fragments
        <5> QED BY <1>1, <4>2, <5>1 DEF Open, Carriers
      <4> QED BY <1>3, <1>6, <4>2 DEF Open
    <3> QED BY <2>0, <3>1, <3>2 DEF UnackedNotOvercounted
  <2>5. CASE TrackCounts(session[p], b)
    <3>1. unackedMsg' = unackedMsg + 1 BY <2>5 DEF Track, p, b
    <3>2. b[1] \in Fragments /\ Carriers(session[p], b[1]) = {}
      BY <1>1, <1>4, <2>5 DEF TrackCounts, Fragments, Carriers, InFlight
    <3>3. <<p, b[1]>> \notin answered BY <1>4, <3>2 DEF Clients
    <3>4. <<p, b[1]>> \in Open' BY <1>1, <1>3, <1>6, <3>2, <3>3 DEF Open, InFlight
    <3>5. <<p, b[1]>> \notin Open BY <3>2 DEF Open, Carriers
    <3>6. Open' = Open \cup {<<p, b[1]>>} BY <2>2, <2>3, <3>4
    <3>7. Cardinality(Open') = Cardinality(Open) + 1 BY <2>0, <3>5, <3>6, FS_AddElement
    <3> QED BY <2>0, <3>1, <3>7 DEF UnackedNotOvercounted
  <2> QED BY <2>4, <2>5
<1> QED BY <1>8, <1>9, <1>10, <1>11, <1>12, <1>13, <1>14, <1>15 DEF CopiesSound

\* The mixer dispatches a copy: stamped and sent, or dropped.
LEMMA DispatchSendEffect ==
    ASSUME TypeOK, NEW p \in ExchangePeers, NEW b \in Surb, DispatchSend(p, b)
    PROVE  /\ ExchangePeers' = ExchangePeers
           /\ session' \in [ExchangePeers -> Sessions]
           /\ \A q \in ExchangePeers : session'[q].retries = session[q].retries
           /\ \A q \in ExchangePeers : session'[q].state = session[q].state
           /\ \A q \in ExchangePeers, x \in Surb :
                /\ session'[q].pending[x].tracked <=> session[q].pending[x].tracked
                /\ session'[q].pending[x].acked <=> session[q].pending[x].acked
                /\ session'[q].pending[x].pendingResend <=> session[q].pending[x].pendingResend
                /\ <<q, x>> # <<p, b>> =>
                     session'[q].pending[x].sentAt = session[q].pending[x].sentAt
           /\ session[p].pending[b].tracked => session'[p].pending[b].sentAt # 0
           /\ ~session[p].pending[b].tracked =>
                session'[p].pending[b].sentAt = session[p].pending[b].sentAt
<1> DEFINE t == MarkSent(session[p], b, clock + 1)
<1>1. session[p] \in Sessions /\ clock + 1 \in Nat /\ clock + 1 # 0 BY DEF TypeOK
<1>2. /\ t \in Sessions
      /\ t.state = session[p].state /\ t.retries = session[p].retries
      /\ \A x \in Surb \ {b} : t.pending[x] = session[p].pending[x]
      /\ t.pending[b].tracked <=> session[p].pending[b].tracked
      /\ t.pending[b].acked <=> session[p].pending[b].acked
      /\ t.pending[b].pendingResend <=> session[p].pending[b].pendingResend
      /\ t.pending[b].sentAt = IF session[p].pending[b].tracked THEN clock + 1
                               ELSE session[p].pending[b].sentAt
  BY <1>1, MarkSentFields
<1>3. session' = [session EXCEPT ![p] = t] BY DEF DispatchSend
<1> HIDE DEF t
<1>4. SessionBecomes(p, t) BY <1>2, <1>3, OneSession
<1>5. /\ ExchangePeers' = ExchangePeers /\ session' \in [ExchangePeers -> Sessions]
      /\ session'[p] = t
      /\ \A q \in ExchangePeers \ {p} : session'[q] = session[q]
  BY <1>4 DEF SessionBecomes
<1>6. \A q \in ExchangePeers, x \in Surb : \/ session'[q].pending[x] = session[q].pending[x]
                                           \/ q = p /\ x = b
  BY <1>2, <1>5
<1>7. \A q \in ExchangePeers, x \in Surb :
        /\ session'[q].pending[x].tracked <=> session[q].pending[x].tracked
        /\ session'[q].pending[x].acked <=> session[q].pending[x].acked
        /\ session'[q].pending[x].pendingResend <=> session[q].pending[x].pendingResend
        /\ <<q, x>> # <<p, b>> =>
             session'[q].pending[x].sentAt = session[q].pending[x].sentAt
  BY <1>2, <1>5, <1>6, Zenon
<1> QED BY <1>1, <1>2, <1>5, <1>7

LEMMA DispatchSendSound ==
    ASSUME TypeOK, CopiesSound, NEW p \in ExchangePeers, NEW b \in Surb,
           DispatchSend(p, b)
    PROVE  CopiesSound'
<1>1. /\ ExchangePeers' = ExchangePeers
      /\ \A q \in ExchangePeers : session'[q].retries = session[q].retries
      /\ \A q \in ExchangePeers, x \in Surb :
           /\ session'[q].pending[x].tracked <=> session[q].pending[x].tracked
           /\ session'[q].pending[x].acked <=> session[q].pending[x].acked
           /\ session'[q].pending[x].pendingResend <=> session[q].pending[x].pendingResend
           /\ <<q, x>> # <<p, b>> =>
                session'[q].pending[x].sentAt = session[q].pending[x].sentAt
      /\ session[p].pending[b].tracked => session'[p].pending[b].sentAt # 0
      /\ ~session[p].pending[b].tracked =>
           session'[p].pending[b].sentAt = session[p].pending[b].sentAt
  BY DispatchSendEffect
<1>2. /\ <<p, b>> \in outbox
      /\ outbox' = outbox \ {<<p, b>>} /\ flight' = flight \cup {<<p, b>>}
      /\ job' = job /\ stale' = stale /\ sends' = sends /\ answered' = answered
      /\ exhausted' = exhausted /\ unackedMsg' = unackedMsg
  BY DEF DispatchSend, history, loopVars
<1>3. b[2] = sends[p][b[1]] /\ session[p].pending[b].sentAt = 0
      /\ p \in Peers /\ b[1] \in Payload /\ b[2] \in 1..MaxSends
  BY <1>2 DEF CopiesSound, PacketsSound, TypeOK, Surb
<1>4. \A q \in ExchangePeers : InFlight(session'[q]) = InFlight(session[q])
  BY <1>1 DEF InFlight
<1>5. JobsSound'
  <2> SUFFICES ASSUME NEW d \in Clients, job[d] # NoJob
               PROVE  JobFits(d, job[d], sends[job[d].peer][job[d].surb[1]],
                              session'[job[d].peer], outbox' \cup flight', answered')
    <3>1. job' = job /\ sends' = sends BY <1>2
    <3> QED BY <3>1, JobsFit
  <2>1. job[d].peer \in ExchangePeers /\ job[d].surb \in Surb BY JobType
  <2>0. JobFits(d, job[d], sends[job[d].peer][job[d].surb[1]],
                session[job[d].peer], outbox \cup flight, answered)
    BY JobIs
  <2>2. <<job[d].peer, job[d].surb>> \notin outbox \cup flight BY <2>0 DEF JobFits
  <2>3. <<job[d].peer, job[d].surb>> # <<p, b>> BY <1>2, <2>2
  <2>4. <<job[d].peer, job[d].surb>> \notin outbox' \cup flight' BY <1>2, <2>2, <2>3
  <2>5. Carriers(session'[job[d].peer], job[d].surb[1])
          = Carriers(session[job[d].peer], job[d].surb[1])
    BY <1>4, <2>1 DEF Carriers
  <2>6. /\ session'[job[d].peer].pending[job[d].surb].sentAt
             = session[job[d].peer].pending[job[d].surb].sentAt
        /\ session'[job[d].peer].pending[job[d].surb].tracked
             <=> session[job[d].peer].pending[job[d].surb].tracked
    BY <1>1, <2>1, <2>3
  <2>7. d = "learner" => <<job[d].peer, job[d].surb[1]>> \notin answered'
    BY <1>2, <2>0 DEF JobFits
  <2> QED BY <2>4, <2>5, <2>6, <2>7, JobKept
<1>6. PacketsSound'
  <2>1. ASSUME NEW o \in outbox'
        PROVE  o[2][2] = sends[o[1]][o[2][1]] /\ session'[o[1]].pending[o[2]].sentAt = 0
    <3>1. o \in outbox /\ o # <<p, b>> BY <1>2
    <3>2. o[1] \in ExchangePeers /\ o[2] \in Surb /\ o = <<o[1], o[2]>> BY <3>1 DEF TypeOK
    <3>3. session'[o[1]].pending[o[2]].sentAt = session[o[1]].pending[o[2]].sentAt
      BY <1>1, <3>1, <3>2
    <3> QED BY <3>1, <3>3 DEF CopiesSound, PacketsSound
  <2>2. ASSUME NEW o \in flight'
        PROVE  /\ o[2][2] <= sends[o[1]][o[2][1]]
               /\ session'[o[1]].pending[o[2]].tracked =>
                    session'[o[1]].pending[o[2]].sentAt # 0
    <3>1. CASE o = <<p, b>> BY <1>1, <1>3, <3>1
    <3>2. CASE o # <<p, b>>
      <4>1. o \in flight BY <1>2, <3>2
      <4>2. o[1] \in ExchangePeers /\ o[2] \in Surb /\ o = <<o[1], o[2]>> BY <4>1 DEF TypeOK
      <4>3. /\ session'[o[1]].pending[o[2]].sentAt = session[o[1]].pending[o[2]].sentAt
            /\ session'[o[1]].pending[o[2]].tracked <=> session[o[1]].pending[o[2]].tracked
        BY <1>1, <3>2, <4>2
      <4> QED BY <4>1, <4>3 DEF CopiesSound, PacketsSound
    <3> QED BY <3>1, <3>2
  <2> QED BY <1>2, <2>1, <2>2 DEF PacketsSound
<1>7. TrackedSound'
  <2> SUFFICES ASSUME NEW q \in ExchangePeers, NEW x \in Surb
               PROVE  LET f == session'[q].pending[x]
                      IN  /\ ~f.tracked => f.sentAt = 0
                          /\ f.tracked => /\ x[2] <= sends[q][x[1]]
                                          /\ f.acked => <<q, x[1]>> \in answered
                          /\ f.tracked /\ x[1] \in Fragments /\ x[2] < sends[q][x[1]] =>
                               f.pendingResend \/ f.acked
    <3>1. ExchangePeers' = ExchangePeers /\ sends' = sends /\ answered' = answered
      BY <1>1, <1>2
    <3> QED BY <3>1 DEF TrackedSound
  <2>1. ~session'[q].pending[x].tracked => session'[q].pending[x].sentAt = 0
    BY <1>1 DEF CopiesSound, TrackedSound
  <2> QED BY <1>1, <2>1 DEF CopiesSound, TrackedSound
<1>8. StaleSound'
  <2> SUFFICES ASSUME NEW o \in stale
               PROVE  /\ session'[o[1]].pending[o[2]].tracked
                      /\ session'[o[1]].pending[o[2]].sentAt # 0
                      /\ session'[o[1]].pending[o[2]].pendingResend
    BY <1>2 DEF CopiesSound, StaleSound
  <2>1. o[1] \in ExchangePeers /\ o[2] \in Surb BY DEF TypeOK
  <2>2. <<o[1], o[2]>> # <<p, b>> BY <1>3 DEF CopiesSound, StaleSound
  <2> QED BY <1>1, <2>1, <2>2 DEF CopiesSound, StaleSound
<1>9. RetriesSound' BY <1>1, <1>2 DEF CopiesSound, RetriesSound, Resending
<1>10. AnsweredSent' BY <1>2 DEF CopiesSound, AnsweredSent
<1>11. NoOrphanFlag' BY <1>1, <1>2, <1>4 DEF CopiesSound, NoOrphanFlag, InFlight
<1>12. UnackedNotOvercounted'
  <2>1. Open' = Open BY <1>1, <1>2, <1>4 DEF Open
  <2> QED BY <1>2, <2>1 DEF CopiesSound, UnackedNotOvercounted
<1> QED BY <1>5, <1>6, <1>7, <1>8, <1>9, <1>10, <1>11, <1>12 DEF CopiesSound

\* A copy leaves the outbox or the network, nothing else changes.
LEMMA DropSound ==
    ASSUME TypeOK, CopiesSound,
           outbox' \subseteq outbox, flight' \subseteq flight,
           UNCHANGED <<session, unackedMsg, job, stale, sends, answered, exhausted>>
    PROVE  CopiesSound'
<1>0. ExchangePeers' = ExchangePeers BY DEF ExchangePeers
<1>1. JobsSound'
  <2>1. \A d \in Clients : \A o : o \notin outbox \cup flight => o \notin outbox' \cup flight'
    OBVIOUS
  <2>2. JobsSound BY DEF CopiesSound
  <2> QED BY <2>1, <2>2 DEF JobsSound
<1>2. PacketsSound' BY DEF CopiesSound, PacketsSound
<1>3. TrackedSound' /\ StaleSound' /\ RetriesSound' /\ AnsweredSent'
  <2>1. TrackedSound' BY <1>0 DEF CopiesSound, TrackedSound
  <2>2. StaleSound' BY <1>0 DEF CopiesSound, StaleSound
  <2>3. RetriesSound' BY <1>0 DEF CopiesSound, RetriesSound, Resending
  <2>4. AnsweredSent' BY <1>0 DEF CopiesSound, AnsweredSent
  <2> QED BY <2>1, <2>2, <2>3, <2>4
<1>4. NoOrphanFlag' BY <1>0 DEF CopiesSound, NoOrphanFlag, InFlight
<1>5. PendingKept BY <1>0 DEF PendingKept
<1>6. UnackedNotOvercounted' BY <1>5, OpenKept DEF CopiesSound, UnackedNotOvercounted
<1> QED BY <1>1, <1>2, <1>3, <1>4, <1>6 DEF CopiesSound

\* An acknowledgement comes back.
LEMMA HandleSurbEffect ==
    ASSUME TypeOK, NEW p \in ExchangePeers, NEW b \in Surb, HandleSurb(p, b),
           HasSurb(p, b)
    PROVE  /\ ExchangePeers' = ExchangePeers
           /\ session' \in [ExchangePeers -> Sessions]
           /\ \A q \in ExchangePeers : session'[q].retries = session[q].retries
           /\ \A q \in ExchangePeers \ {p} : session'[q] = session[q]
           /\ \A q \in ExchangePeers, x \in Surb :
                /\ session'[q].pending[x].tracked <=> session[q].pending[x].tracked
                /\ session'[q].pending[x].sentAt = session[q].pending[x].sentAt
                /\ session'[q].pending[x].pendingResend <=> session[q].pending[x].pendingResend
                /\ session'[q].pending[x].acked <=>
                     \/ session[q].pending[x].acked
                     \/ q = p /\ session[q].pending[x].tracked /\ x[1] = b[1]
<1> DEFINE t == RecordSurbAck(session[p], b, clock + 1)
<1>1. session[p] \in Sessions /\ clock + 1 \in Nat BY DEF TypeOK
<1>2. /\ t \in Sessions /\ t.retries = session[p].retries
      /\ \A x \in Surb :
           /\ t.pending[x].tracked <=> session[p].pending[x].tracked
           /\ t.pending[x].sentAt = session[p].pending[x].sentAt
           /\ t.pending[x].pendingResend <=> session[p].pending[x].pendingResend
           /\ t.pending[x].acked <=> \/ session[p].pending[x].acked
                                     \/ session[p].pending[x].tracked /\ x[1] = b[1]
  BY <1>1, RecordSurbAckFields
<1>3. session' = [session EXCEPT ![p] = t] BY DEF HandleSurb
<1> HIDE DEF t
<1>4. SessionBecomes(p, t) BY <1>2, <1>3, OneSession
<1>5. /\ ExchangePeers' = ExchangePeers /\ session' \in [ExchangePeers -> Sessions]
      /\ session'[p] = t
      /\ \A q \in ExchangePeers \ {p} : session'[q] = session[q]
  BY <1>4 DEF SessionBecomes
<1>6. \A q \in ExchangePeers : session'[q].retries = session[q].retries
  BY <1>2, <1>5
<1>7. ASSUME NEW q \in ExchangePeers, NEW x \in Surb
      PROVE  /\ session'[q].pending[x].tracked <=> session[q].pending[x].tracked
             /\ session'[q].pending[x].sentAt = session[q].pending[x].sentAt
             /\ session'[q].pending[x].pendingResend <=> session[q].pending[x].pendingResend
             /\ session'[q].pending[x].acked <=>
                  \/ session[q].pending[x].acked
                  \/ q = p /\ session[q].pending[x].tracked /\ x[1] = b[1]
  <2>1. CASE q = p BY <1>2, <1>5, <2>1, Zenon
  <2>2. CASE q # p BY <1>5, <2>2, Zenon
  <2> QED BY <2>1, <2>2
<1> QED BY <1>5, <1>6, <1>7

LEMMA HandleSurbSound ==
    ASSUME TypeOK, CopiesSound, NEW p \in ExchangePeers, NEW b \in Surb,
           HandleSurb(p, b), HasSurb(p, b)
    PROVE  CopiesSound'
<1>1. /\ ExchangePeers' = ExchangePeers
      /\ \A q \in ExchangePeers : session'[q].retries = session[q].retries
      /\ \A q \in ExchangePeers, x \in Surb :
           /\ session'[q].pending[x].tracked <=> session[q].pending[x].tracked
           /\ session'[q].pending[x].sentAt = session[q].pending[x].sentAt
           /\ session'[q].pending[x].pendingResend <=> session[q].pending[x].pendingResend
           /\ session'[q].pending[x].acked <=>
                \/ session[q].pending[x].acked
                \/ q = p /\ session[q].pending[x].tracked /\ x[1] = b[1]
  BY HandleSurbEffect
<1>2. /\ <<p, b>> \in flight
      /\ flight' = flight \ {<<p, b>>}
      /\ answered' = answered \cup {<<p, b[1]>>}
      /\ outbox' = outbox /\ job' = job /\ stale' = stale /\ sends' = sends
      /\ exhausted' = exhausted
      /\ unackedMsg' = IF AckCounts(session[p], b) THEN Decrement(unackedMsg) ELSE unackedMsg
  BY DEF HandleSurb, loopVars
<1>3. /\ session[p].pending[b].tracked /\ session[p].pending[b].sentAt # 0
      /\ b[2] <= sends[p][b[1]]
      /\ b[1] \in Payload /\ b[2] \in 1..MaxSends /\ p \in Peers
  BY <1>2 DEF CopiesSound, PacketsSound, HasSurb, InFlight, Surb, TypeOK
<1>4. \A q \in ExchangePeers : InFlight(session'[q]) = InFlight(session[q])
  BY <1>1 DEF InFlight
<1>5. JobsSound'
  <2> SUFFICES ASSUME NEW d \in Clients, job[d] # NoJob
               PROVE  JobFits(d, job[d], sends[job[d].peer][job[d].surb[1]],
                              session'[job[d].peer], outbox' \cup flight', answered')
    <3>1. job' = job /\ sends' = sends BY <1>2
    <3> QED BY <3>1, JobsFit
  <2>1. job[d].peer \in ExchangePeers /\ job[d].surb \in Surb BY JobType
  <2>0. JobFits(d, job[d], sends[job[d].peer][job[d].surb[1]],
                session[job[d].peer], outbox \cup flight, answered)
    BY JobIs
  <2>2. /\ job[d].surb[2] = sends[job[d].peer][job[d].surb[1]]
        /\ session[job[d].peer].pending[job[d].surb].sentAt = 0
        /\ d = "learner" => /\ job[d].surb[2] = 1
                            /\ <<job[d].peer, job[d].surb[1]>> \notin answered
    BY <2>0 DEF JobFits
  <2>3. d = "learner" => <<job[d].peer, job[d].surb[1]>> # <<p, b[1]>>
    <3> SUFFICES ASSUME d = "learner", job[d].peer = p, job[d].surb[1] = b[1]
                 PROVE  FALSE
      BY Zenon
    <3>1. b[2] = 1 BY <1>3, <2>2
    <3>2. job[d].surb = b BY <2>1, <2>2, <3>1 DEF Surb
    <3> QED BY <1>3, <2>2, <3>2
  <2>4. d = "learner" => <<job[d].peer, job[d].surb[1]>> \notin answered'
    BY <1>2, <2>2, <2>3
  <2>5. Carriers(session'[job[d].peer], job[d].surb[1])
          = Carriers(session[job[d].peer], job[d].surb[1])
    BY <1>4, <2>1 DEF Carriers
  <2>6. /\ session'[job[d].peer].pending[job[d].surb].sentAt
             = session[job[d].peer].pending[job[d].surb].sentAt
        /\ session'[job[d].peer].pending[job[d].surb].tracked
             <=> session[job[d].peer].pending[job[d].surb].tracked
    BY <1>1, <2>1
  <2>7. <<job[d].peer, job[d].surb>> \notin outbox' \cup flight'
    BY <1>2, <2>0 DEF JobFits
  <2> QED BY <2>4, <2>5, <2>6, <2>7, JobKept
<1>6. PacketsSound'
  <2>1. \A o \in outbox \cup flight' :
          /\ session'[o[1]].pending[o[2]].sentAt = session[o[1]].pending[o[2]].sentAt
          /\ session'[o[1]].pending[o[2]].tracked <=> session[o[1]].pending[o[2]].tracked
    BY <1>1, <1>2 DEF TypeOK
  <2>2. PacketsSound BY DEF CopiesSound
  <2>3. outbox' = outbox /\ flight' \subseteq flight /\ sends' = sends BY <1>2
  <2> QED BY <2>1, <2>2, <2>3 DEF PacketsSound
<1>7. TrackedSound'
  <2> SUFFICES ASSUME NEW q \in ExchangePeers, NEW x \in Surb
               PROVE  LET f == session'[q].pending[x]
                      IN  /\ ~f.tracked => f.sentAt = 0
                          /\ f.tracked => /\ x[2] <= sends[q][x[1]]
                                          /\ f.acked => <<q, x[1]>> \in answered'
                          /\ f.tracked /\ x[1] \in Fragments /\ x[2] < sends[q][x[1]] =>
                               f.pendingResend \/ f.acked
    <3>1. ExchangePeers' = ExchangePeers /\ sends' = sends BY <1>1, <1>2
    <3> QED BY <3>1 DEF TrackedSound
  <2>1. CASE ~session[q].pending[x].tracked
    BY <1>1, <2>1 DEF CopiesSound, TrackedSound
  <2>2. CASE session[q].pending[x].tracked
    <3>1. session'[q].pending[x].acked => <<q, x[1]>> \in answered'
      BY <1>1, <1>2, <2>2 DEF CopiesSound, TrackedSound
    <3> QED BY <1>1, <2>2, <3>1 DEF CopiesSound, TrackedSound
  <2> QED BY <2>1, <2>2
<1>8. StaleSound'
  <2> SUFFICES ASSUME NEW o \in stale
               PROVE  /\ session'[o[1]].pending[o[2]].tracked
                      /\ session'[o[1]].pending[o[2]].sentAt # 0
                      /\ session'[o[1]].pending[o[2]].pendingResend
    BY <1>2 DEF CopiesSound, StaleSound
  <2>1. o[1] \in ExchangePeers /\ o[2] \in Surb BY DEF TypeOK
  <2> QED BY <1>1, <2>1 DEF CopiesSound, StaleSound
<1>9. RetriesSound' BY <1>1, <1>2 DEF CopiesSound, RetriesSound, Resending
<1>10. AnsweredSent'
  <2>1. sends[p][b[1]] > 0
    <3>1. sends[p][b[1]] \in Nat BY <1>3 DEF TypeOK
    <3> QED BY <1>3, <3>1, SessionAssumption
  <2> QED BY <1>2, <2>1 DEF CopiesSound, AnsweredSent
<1>11. NoOrphanFlag'
  <2> SUFFICES ASSUME NEW q \in ExchangePeers, NEW x \in InFlight(session'[q]),
                      session'[q].pending[x].pendingResend, ~session'[q].pending[x].acked
               PROVE  \/ <<q, x>> \in stale
                      \/ sends[q][x[1]] > x[2]
                      \/ \E m \in Payload : <<q, m>> \in exhausted
    BY <1>1, <1>2 DEF NoOrphanFlag
  <2>1. x \in InFlight(session[q]) BY <1>4
  <2>2. session[q].pending[x].pendingResend /\ ~session[q].pending[x].acked
    BY <1>1 DEF InFlight
  <2> QED BY <2>1, <2>2 DEF CopiesSound, NoOrphanFlag
<1>12. UnackedNotOvercounted'
  <2>0. IsFiniteSet(Open) /\ Cardinality(Open) \in Nat /\ unackedMsg \in 0..Cardinality(Open)
    BY OpenFinite DEF CopiesSound, UnackedNotOvercounted
  <2>1. Open' = Open \ {<<p, b[1]>>}
    <3>1. \A pm : pm \in Open' <=>
                    /\ pm \in ExchangePeers \X Fragments /\ pm \notin answered'
                    /\ \E x \in InFlight(session'[pm[1]]) : x[1] = pm[2]
      BY <1>1 DEF Open
    <3>2. \A pm \in ExchangePeers \X Fragments :
            InFlight(session'[pm[1]]) = InFlight(session[pm[1]])
      BY <1>4
    <3>3. \A pm : pm \in Open' <=> pm \in Open /\ pm # <<p, b[1]>>
      BY <1>2, <3>1, <3>2 DEF Open
    <3> QED BY <3>3
  <2>2. CASE <<p, b[1]>> \in Open
    <3>1. Cardinality(Open') = Cardinality(Open) - 1
      BY <2>0, <2>1, <2>2, FS_RemoveElement
    <3>2. b[1] \in Fragments /\ <<p, b[1]>> \notin answered BY <2>2 DEF Open
    <3>3. ~session[p].pending[b].acked BY <1>3, <3>2 DEF CopiesSound, TrackedSound
    <3>4. AckCounts(session[p], b) BY <3>2, <3>3 DEF AckCounts, Fragments
    <3>5. unackedMsg' = Decrement(unackedMsg) BY <1>2, <3>4
    <3>6. Cardinality(Open) # 0 BY <2>0, <2>2, FS_EmptySet
    <3>7. Decrement(unackedMsg) \in 0..Cardinality(Open) - 1
      BY <2>0, <3>6 DEF Decrement
    <3> QED BY <3>1, <3>5, <3>7 DEF UnackedNotOvercounted
  <2>3. CASE <<p, b[1]>> \notin Open
    <3>1. Open' = Open BY <2>1, <2>3
    <3>2. unackedMsg' \in 0..Cardinality(Open) BY <1>2, <2>0 DEF Decrement
    <3> QED BY <3>1, <3>2 DEF UnackedNotOvercounted
  <2> QED BY <2>2, <2>3
<1> QED BY <1>5, <1>6, <1>7, <1>8, <1>9, <1>10, <1>11, <1>12 DEF CopiesSound

\* A scan clears what needs no answer and takes the stale fragments in hand.
LEMMA ScanEffect ==
    ASSUME TypeOK, NEW p \in ExchangePeers, NEW t \in Nat, NEW u \in Nat,
           ScanPeer(p, t, u), session[p].state # "UNREACHABLE",
           pc = "scan" => stale = {}
    PROVE  /\ ExchangePeers' = ExchangePeers
           /\ session' \in [ExchangePeers -> Sessions]
           /\ stale = {}
           /\ stale' \subseteq ExchangePeers \X Surb
           /\ \A q \in ExchangePeers : session'[q].retries = session[q].retries
           /\ \A q \in ExchangePeers : session'[q].state = session[q].state
           /\ \A q \in ExchangePeers, x \in Surb :
                \/ /\ session'[q].pending[x].tracked <=> session[q].pending[x].tracked
                   /\ session'[q].pending[x].sentAt = session[q].pending[x].sentAt
                   /\ session'[q].pending[x].acked <=> session[q].pending[x].acked
                   /\ session'[q].pending[x].pendingResend <=>
                        session[q].pending[x].pendingResend \/ <<q, x>> \in stale'
                \/ /\ ~session'[q].pending[x].tracked /\ session'[q].pending[x].sentAt = 0
                   /\ session[q].pending[x].acked \/ x[1] \in Covers
           /\ \A o \in stale' :
                /\ o[1] = p /\ o[2] \in Surb /\ o = <<p, o[2]>> /\ o[2][1] \in Fragments
                /\ session[p].pending[o[2]].tracked /\ ~session[p].pending[o[2]].acked
                /\ ~session[p].pending[o[2]].pendingResend
                /\ session'[p].pending[o[2]].tracked
                /\ session'[p].pending[o[2]].sentAt # 0
<1> DEFINE s == session[p]
           r == GetStale(s, t, u)
           found == StaleIn(ClearAcked(s, u), t)
<1>1. s \in Sessions BY DEF TypeOK
<1>2. /\ r \in Sessions
      /\ r.state = s.state /\ r.retries = s.retries
      /\ \A x \in Surb :
           \/ /\ r.pending[x].tracked <=> s.pending[x].tracked
              /\ r.pending[x].sentAt = s.pending[x].sentAt
              /\ r.pending[x].acked <=> s.pending[x].acked
              /\ r.pending[x].pendingResend <=>
                   s.pending[x].pendingResend \/ x \in found
           \/ /\ ~r.pending[x].tracked /\ r.pending[x].sentAt = 0
              /\ s.pending[x].acked \/ x[1] \in Covers
      /\ \A x \in found :
           /\ x \in Surb /\ x[1] \in Fragments
           /\ s.pending[x].tracked /\ ~s.pending[x].acked
           /\ ~s.pending[x].pendingResend
           /\ s.pending[x].sentAt # 0
           /\ r.pending[x].tracked /\ r.pending[x].sentAt # 0
  BY <1>1, GetStaleFields
<1>3. /\ session' = [session EXCEPT ![p] = r]
      /\ stale' = {<<p, x>> : x \in found}
      /\ pc = "scan"
  BY DEF ScanPeer
<1> HIDE DEF r, found
<1>4. SessionBecomes(p, r) BY <1>2, <1>3, OneSession
<1>5. /\ ExchangePeers' = ExchangePeers /\ session' \in [ExchangePeers -> Sessions]
      /\ session'[p] = r
      /\ \A q \in ExchangePeers \ {p} : session'[q] = session[q]
  BY <1>4 DEF SessionBecomes
<1>6. \A q, x : <<q, x>> \in stale' <=> q = p /\ x \in found
  BY <1>3
<1>7. \A o \in stale' : o[1] = p /\ o = <<p, o[2]>> /\ o[2] \in found
  BY <1>3
<1>8. stale' \subseteq ExchangePeers \X Surb BY <1>2, <1>3
<1>9. ASSUME NEW q \in ExchangePeers
      PROVE  /\ session'[q].retries = session[q].retries
             /\ session'[q].state = session[q].state
  BY <1>2, <1>5
<1>10. ASSUME NEW q \in ExchangePeers, NEW x \in Surb
       PROVE  \/ /\ session'[q].pending[x].tracked <=> session[q].pending[x].tracked
                 /\ session'[q].pending[x].sentAt = session[q].pending[x].sentAt
                 /\ session'[q].pending[x].acked <=> session[q].pending[x].acked
                 /\ session'[q].pending[x].pendingResend <=>
                      session[q].pending[x].pendingResend \/ <<q, x>> \in stale'
              \/ /\ ~session'[q].pending[x].tracked /\ session'[q].pending[x].sentAt = 0
                 /\ session[q].pending[x].acked \/ x[1] \in Covers
  <2>1. CASE q = p
    <3>1. session'[q] = r /\ session[q] = s BY <1>5, <2>1
    <3>2. <<q, x>> \in stale' <=> x \in found BY <1>6, <2>1
    <3> HIDE DEF s
    <3> QED BY <1>2, <3>1, <3>2
  <2>2. CASE q # p
    <3>1. session'[q] = session[q] /\ <<q, x>> \notin stale' BY <1>5, <1>6, <2>2
    <3> QED BY <3>1
  <2> QED BY <2>1, <2>2
<1>11. \A o \in stale' :
         /\ o[1] = p /\ o[2] \in Surb /\ o = <<p, o[2]>> /\ o[2][1] \in Fragments
         /\ s.pending[o[2]].tracked /\ ~s.pending[o[2]].acked
         /\ ~s.pending[o[2]].pendingResend
         /\ session'[p].pending[o[2]].tracked
         /\ session'[p].pending[o[2]].sentAt # 0
  BY <1>2, <1>5, <1>7
<1> QED BY <1>3, <1>5, <1>8, <1>9, <1>10, <1>11

LEMMA ScanSound ==
    ASSUME TypeOK, LoopSound, CopiesSound, NEW p \in ExchangePeers,
           NEW t \in Nat, NEW u \in Nat, ScanPeer(p, t, u)
    PROVE  CopiesSound'
<1>0. /\ outbox' = outbox /\ flight' = flight /\ job' = job /\ sends' = sends
      /\ answered' = answered /\ exhausted' = exhausted /\ unackedMsg' = unackedMsg
  BY DEF ScanPeer, netVars, history
<1>a. stale = {} /\ job["resend"] = NoJob BY DEF ScanPeer, LoopSound
<1>b. CASE session[p].state = "UNREACHABLE"
  <2>1. session' = session /\ stale' = stale BY <1>b DEF ScanPeer
  <2>2. PendingKept /\ RetriesKept BY <2>1 DEF PendingKept, RetriesKept, ExchangePeers
  <2> QED BY <1>0, <2>1, <2>2, FrameSound
<1>c. CASE session[p].state # "UNREACHABLE"
  <2>1. /\ ExchangePeers' = ExchangePeers
        /\ \A q \in ExchangePeers : session'[q].retries = session[q].retries
        /\ \A q \in ExchangePeers, x \in Surb :
             \/ /\ session'[q].pending[x].tracked <=> session[q].pending[x].tracked
                /\ session'[q].pending[x].sentAt = session[q].pending[x].sentAt
                /\ session'[q].pending[x].acked <=> session[q].pending[x].acked
                /\ session'[q].pending[x].pendingResend <=>
                     session[q].pending[x].pendingResend \/ <<q, x>> \in stale'
             \/ /\ ~session'[q].pending[x].tracked /\ session'[q].pending[x].sentAt = 0
                /\ session[q].pending[x].acked \/ x[1] \in Covers
        /\ \A o \in stale' :
             /\ o[1] = p /\ o[2] \in Surb /\ o = <<p, o[2]>> /\ o[2][1] \in Fragments
             /\ session[p].pending[o[2]].tracked /\ ~session[p].pending[o[2]].acked
             /\ ~session[p].pending[o[2]].pendingResend
             /\ session'[p].pending[o[2]].tracked
             /\ session'[p].pending[o[2]].sentAt # 0
    BY <1>a, <1>c, ScanEffect
  <2>2. \A q \in ExchangePeers, x \in Surb :
          /\ session'[q].pending[x].tracked => session[q].pending[x].tracked
          /\ session[q].pending[x].sentAt = 0 => session'[q].pending[x].sentAt = 0
    BY <2>1
  <2>3. JobsSound'
    <3> SUFFICES ASSUME NEW d \in Clients, job[d] # NoJob
                 PROVE  LET q == job[d].peer
                            x == job[d].surb
                        IN  /\ x[2] = sends[q][x[1]]
                            /\ session'[q].pending[x].sentAt = 0
                            /\ job[d].stage = "crypto" => ~session'[q].pending[x].tracked
                            /\ <<q, x>> \notin outbox \cup flight
                            /\ d = "learner" => x[2] = 1 /\ <<q, x[1]>> \notin answered
                            /\ d # "resend"
      BY <1>0 DEF JobsSound
    <3>1. job[d].peer \in ExchangePeers /\ job[d].surb \in Surb BY JobType
    <3> QED BY <1>a, <2>2, <3>1 DEF CopiesSound, JobsSound
  <2>4. PacketsSound'
    <3> SUFFICES ASSUME NEW o \in outbox \cup flight
                 PROVE  /\ session[o[1]].pending[o[2]].sentAt = 0 =>
                             session'[o[1]].pending[o[2]].sentAt = 0
                        /\ session'[o[1]].pending[o[2]].tracked =>
                             /\ session[o[1]].pending[o[2]].tracked
                             /\ session'[o[1]].pending[o[2]].sentAt
                                  = session[o[1]].pending[o[2]].sentAt
      BY <1>0 DEF CopiesSound, PacketsSound
    <3>1. o[1] \in ExchangePeers /\ o[2] \in Surb BY DEF TypeOK
    <3> QED BY <2>1, <3>1
  <2>5. TrackedSound'
    <3> SUFFICES ASSUME NEW q \in ExchangePeers, NEW x \in Surb
                 PROVE  LET f == session'[q].pending[x]
                        IN  /\ ~f.tracked => f.sentAt = 0
                            /\ f.tracked => /\ x[2] <= sends[q][x[1]]
                                            /\ f.acked => <<q, x[1]>> \in answered
                            /\ f.tracked /\ x[1] \in Fragments /\ x[2] < sends[q][x[1]] =>
                                 f.pendingResend \/ f.acked
      <4>1. ExchangePeers' = ExchangePeers BY <2>1
      <4> QED BY <1>0, <4>1 DEF TrackedSound
    <3>1. CASE ~session'[q].pending[x].tracked
      <4>1. ~session[q].pending[x].tracked => session[q].pending[x].sentAt = 0
        BY DEF CopiesSound, TrackedSound
      <4>2. session'[q].pending[x].sentAt = 0 BY <2>1, <3>1, <4>1
      <4> QED BY <3>1, <4>2
    <3>2. CASE session'[q].pending[x].tracked
      <4>1. /\ session[q].pending[x].tracked
            /\ session'[q].pending[x].acked <=> session[q].pending[x].acked
            /\ session[q].pending[x].pendingResend => session'[q].pending[x].pendingResend
        BY <2>1, <3>2
      <4> QED BY <3>2, <4>1 DEF CopiesSound, TrackedSound
    <3> QED BY <3>1, <3>2
  <2>6. StaleSound'
    <3> SUFFICES ASSUME NEW o \in stale'
                 PROVE  LET f == session'[o[1]].pending[o[2]]
                        IN  /\ f.tracked /\ f.sentAt # 0 /\ f.pendingResend
                            /\ o[2][1] \in Fragments
                            /\ o[2][2] = sends[o[1]][o[2][1]]
      BY <1>0 DEF StaleSound
    <3>1. /\ o[1] = p /\ o[2] \in Surb /\ o = <<p, o[2]>> /\ o[2][1] \in Fragments
          /\ session[p].pending[o[2]].tracked /\ ~session[p].pending[o[2]].acked
          /\ ~session[p].pending[o[2]].pendingResend
          /\ session'[p].pending[o[2]].tracked
          /\ session'[p].pending[o[2]].sentAt # 0
      BY <2>1
    <3>2. session'[p].pending[o[2]].pendingResend BY <2>1, <3>1
    <3>3. o[2][2] = sends[p][o[2][1]]
      <4>1. /\ o[2][2] <= sends[p][o[2][1]] /\ ~(o[2][2] < sends[p][o[2][1]])
        BY <3>1 DEF CopiesSound, TrackedSound
      <4>2. o[2][2] \in Nat /\ sends[p][o[2][1]] \in Nat BY <3>1 DEF TypeOK, Surb
      <4> QED BY <4>1, <4>2
    <3> QED BY <3>1, <3>2, <3>3
  <2>7. RetriesSound' BY <1>0, <2>1 DEF CopiesSound, RetriesSound, Resending
  <2>8. AnsweredSent' BY <1>0 DEF CopiesSound, AnsweredSent
  <2>9. NoOrphanFlag'
    <3> SUFFICES ASSUME NEW q \in ExchangePeers, NEW x \in Surb,
                        session'[q].pending[x].tracked,
                        session'[q].pending[x].pendingResend, ~session'[q].pending[x].acked
                 PROVE  \/ <<q, x>> \in stale'
                        \/ sends[q][x[1]] > x[2]
                        \/ \E m \in Payload : <<q, m>> \in exhausted
      BY <1>0, <2>1 DEF NoOrphanFlag, InFlight
    <3>1. CASE <<q, x>> \in stale' BY <3>1
    <3>2. CASE <<q, x>> \notin stale'
      <4>1. /\ session[q].pending[x].tracked /\ session[q].pending[x].pendingResend
            /\ ~session[q].pending[x].acked
        BY <2>1, <3>2
      <4> QED BY <1>a, <4>1 DEF CopiesSound, NoOrphanFlag, InFlight
    <3> QED BY <3>1, <3>2
  <2>10. UnackedNotOvercounted'
    <3>1. ASSUME NEW q \in ExchangePeers, NEW m \in Fragments, <<q, m>> \notin answered,
                 NEW x \in Surb, x[1] = m
          PROVE  session'[q].pending[x].tracked <=> session[q].pending[x].tracked
      <4>1. m \notin Covers BY DEF Fragments
      <4>2. session[q].pending[x].tracked => ~session[q].pending[x].acked
        BY <3>1 DEF CopiesSound, TrackedSound
      <4> QED BY <2>1, <3>1, <4>1, <4>2
    <3>2. Open' = Open
      <4>1. \A pm \in ExchangePeers \X Fragments : pm \notin answered =>
              ((\E x \in InFlight(session'[pm[1]]) : x[1] = pm[2])
                 <=> (\E x \in InFlight(session[pm[1]]) : x[1] = pm[2]))
        BY <3>1 DEF InFlight
      <4> QED BY <1>0, <2>1, <4>1 DEF Open
    <3> QED BY <1>0, <3>2 DEF CopiesSound, UnackedNotOvercounted
  <2> QED BY <2>3, <2>4, <2>5, <2>6, <2>7, <2>8, <2>9, <2>10 DEF CopiesSound
<1> QED BY <1>b, <1>c

\* The loop puts one fragment of what it has in hand back to wait.
LEMMA WaitEffect ==
    ASSUME TypeOK, NEW p \in ExchangePeers, NEW b \in Surb, WaitForFragment(p, b)
    PROVE  /\ ExchangePeers' = ExchangePeers
           /\ session' \in [ExchangePeers -> Sessions]
           /\ \A q \in ExchangePeers : session'[q].retries = session[q].retries
           /\ \A q \in ExchangePeers : session'[q].state = session[q].state
           /\ \A q \in ExchangePeers, x \in Surb :
                /\ session'[q].pending[x].tracked <=> session[q].pending[x].tracked
                /\ session'[q].pending[x].sentAt = session[q].pending[x].sentAt
                /\ session'[q].pending[x].acked <=> session[q].pending[x].acked
                /\ session'[q].pending[x].pendingResend <=>
                     <<q, x>> # <<p, b>> /\ session[q].pending[x].pendingResend
<1> DEFINE t == SetPendingResend(session[p], {b}, FALSE)
<1>1. session[p] \in Sessions BY DEF TypeOK
<1>2. /\ t \in Sessions
      /\ t.state = session[p].state /\ t.retries = session[p].retries
      /\ \A x \in Surb :
           /\ t.pending[x].tracked <=> session[p].pending[x].tracked
           /\ t.pending[x].sentAt = session[p].pending[x].sentAt
           /\ t.pending[x].acked <=> session[p].pending[x].acked
           /\ t.pending[x].pendingResend <=>
                x \notin {b} /\ session[p].pending[x].pendingResend
  <2>1. {b} \in SUBSET Surb OBVIOUS
  <2> QED BY <1>1, <2>1, UnflagFields
<1>3. session' = [session EXCEPT ![p] = t] BY DEF WaitForFragment
<1> HIDE DEF t
<1>4. SessionBecomes(p, t) BY <1>2, <1>3, OneSession
<1>5. /\ ExchangePeers' = ExchangePeers /\ session' \in [ExchangePeers -> Sessions]
      /\ session'[p] = t
      /\ \A q \in ExchangePeers \ {p} : session'[q] = session[q]
  BY <1>4 DEF SessionBecomes
<1>6. ASSUME NEW q \in ExchangePeers
      PROVE  /\ session'[q].retries = session[q].retries
             /\ session'[q].state = session[q].state
  BY <1>2, <1>5
<1>7. ASSUME NEW q \in ExchangePeers, NEW x \in Surb
      PROVE  /\ session'[q].pending[x].tracked <=> session[q].pending[x].tracked
             /\ session'[q].pending[x].sentAt = session[q].pending[x].sentAt
             /\ session'[q].pending[x].acked <=> session[q].pending[x].acked
             /\ session'[q].pending[x].pendingResend <=>
                  <<q, x>> # <<p, b>> /\ session[q].pending[x].pendingResend
  <2>1. CASE q = p BY <1>2, <1>5, <2>1
  <2>2. CASE q # p BY <1>5, <2>2
  <2> QED BY <2>1, <2>2
<1> QED BY <1>5, <1>6, <1>7

LEMMA WaitSound ==
    ASSUME TypeOK, CopiesSound, NEW p \in ExchangePeers, NEW b \in Surb,
           WaitForFragment(p, b)
    PROVE  CopiesSound'
<1>1. /\ ExchangePeers' = ExchangePeers
      /\ \A q \in ExchangePeers : session'[q].retries = session[q].retries
      /\ \A q \in ExchangePeers, x \in Surb :
           /\ session'[q].pending[x].tracked <=> session[q].pending[x].tracked
           /\ session'[q].pending[x].sentAt = session[q].pending[x].sentAt
           /\ session'[q].pending[x].acked <=> session[q].pending[x].acked
           /\ session'[q].pending[x].pendingResend <=>
                <<q, x>> # <<p, b>> /\ session[q].pending[x].pendingResend
  BY WaitEffect
<1>2. /\ <<p, b>> \in stale /\ stale' = stale \ {<<p, b>>}
      /\ outbox' = outbox /\ flight' = flight /\ job' = job /\ sends' = sends
      /\ answered' = answered /\ exhausted' = exhausted /\ unackedMsg' = unackedMsg
  BY DEF WaitForFragment, AfterFragment, netVars, history
<1>3. \A q \in ExchangePeers : InFlight(session'[q]) = InFlight(session[q])
  BY <1>1 DEF InFlight
<1>4. b[2] = sends[p][b[1]] BY <1>2 DEF CopiesSound, StaleSound
<1>5. JobsSound'
  <2> SUFFICES ASSUME NEW d \in Clients, job[d] # NoJob
               PROVE  JobFits(d, job[d], sends[job[d].peer][job[d].surb[1]],
                              session'[job[d].peer], outbox' \cup flight', answered')
    <3>1. job' = job /\ sends' = sends BY <1>2
    <3> QED BY <3>1, JobsFit
  <2>1. job[d].peer \in ExchangePeers /\ job[d].surb \in Surb BY JobType
  <2>2. Carriers(session'[job[d].peer], job[d].surb[1])
          = Carriers(session[job[d].peer], job[d].surb[1])
    BY <1>3, <2>1 DEF Carriers
  <2>3. /\ session'[job[d].peer].pending[job[d].surb].sentAt
             = session[job[d].peer].pending[job[d].surb].sentAt
        /\ session'[job[d].peer].pending[job[d].surb].tracked
             <=> session[job[d].peer].pending[job[d].surb].tracked
    BY <1>1, <2>1
  <2>4. JobFits(d, job[d], sends[job[d].peer][job[d].surb[1]],
                session[job[d].peer], outbox \cup flight, answered)
    BY JobIs
  <2>5. /\ <<job[d].peer, job[d].surb>> \notin outbox' \cup flight'
        /\ d = "learner" => <<job[d].peer, job[d].surb[1]>> \notin answered'
    BY <1>2, <2>4 DEF JobFits
  <2> QED BY <2>2, <2>3, <2>5, JobKept
<1>6. PacketsSound'
  <2>1. \A o \in outbox \cup flight :
          /\ session'[o[1]].pending[o[2]].sentAt = session[o[1]].pending[o[2]].sentAt
          /\ session'[o[1]].pending[o[2]].tracked <=> session[o[1]].pending[o[2]].tracked
    BY <1>1 DEF TypeOK
  <2> QED BY <1>2, <2>1 DEF CopiesSound, PacketsSound
<1>7. TrackedSound'
  <2> SUFFICES ASSUME NEW q \in ExchangePeers, NEW x \in Surb
               PROVE  LET f == session'[q].pending[x]
                      IN  /\ ~f.tracked => f.sentAt = 0
                          /\ f.tracked => /\ x[2] <= sends[q][x[1]]
                                          /\ f.acked => <<q, x[1]>> \in answered
                          /\ f.tracked /\ x[1] \in Fragments /\ x[2] < sends[q][x[1]] =>
                               f.pendingResend \/ f.acked
    <3>1. ExchangePeers' = ExchangePeers /\ sends' = sends /\ answered' = answered
      BY <1>1, <1>2
    <3> QED BY <3>1 DEF TrackedSound
  <2>1. /\ session'[q].pending[x].tracked <=> session[q].pending[x].tracked
        /\ session'[q].pending[x].sentAt = session[q].pending[x].sentAt
        /\ session'[q].pending[x].acked <=> session[q].pending[x].acked
    BY <1>1
  <2>2. x[2] < sends[q][x[1]] =>
          (session'[q].pending[x].pendingResend <=> session[q].pending[x].pendingResend)
    <3>1. x[2] < sends[q][x[1]] => <<q, x>> # <<p, b>>
      <4>1. SUFFICES ASSUME <<q, x>> = <<p, b>>, x[2] < sends[q][x[1]] PROVE FALSE OBVIOUS
      <4>2. x[2] = sends[q][x[1]] BY <1>4, <4>1
      <4>3. x[2] \in Nat BY DEF Surb
      <4> QED BY <4>1, <4>2, <4>3
    <3> QED BY <1>1, <3>1
  <2>3. ~session[q].pending[x].tracked => session[q].pending[x].sentAt = 0
    BY DEF CopiesSound, TrackedSound
  <2> QED BY <2>1, <2>2, <2>3 DEF CopiesSound, TrackedSound
<1>8. StaleSound'
  <2> SUFFICES ASSUME NEW o \in stale'
               PROVE  LET f == session'[o[1]].pending[o[2]]
                      IN  /\ f.tracked /\ f.sentAt # 0 /\ f.pendingResend
                          /\ o[2][1] \in Fragments
                          /\ o[2][2] = sends[o[1]][o[2][1]]
    BY <1>2 DEF StaleSound
  <2>1. o \in stale /\ o # <<p, b>> BY <1>2
  <2>2. o[1] \in ExchangePeers /\ o[2] \in Surb /\ o = <<o[1], o[2]>> BY <2>1 DEF TypeOK
  <2>3. /\ session[o[1]].pending[o[2]].tracked /\ session[o[1]].pending[o[2]].sentAt # 0
        /\ session[o[1]].pending[o[2]].pendingResend
        /\ o[2][1] \in Fragments /\ o[2][2] = sends[o[1]][o[2][1]]
    BY <2>1 DEF CopiesSound, StaleSound
  <2>4. <<o[1], o[2]>> # <<p, b>> BY <2>1, <2>2
  <2> QED BY <1>1, <2>2, <2>3, <2>4
<1>9. RetriesSound' BY <1>1, <1>2 DEF CopiesSound, RetriesSound, Resending
<1>10. AnsweredSent' BY <1>2 DEF CopiesSound, AnsweredSent
<1>11. NoOrphanFlag'
  <2> SUFFICES ASSUME NEW q \in ExchangePeers, NEW x \in Surb,
                      session'[q].pending[x].tracked,
                      session'[q].pending[x].pendingResend, ~session'[q].pending[x].acked
               PROVE  \/ <<q, x>> \in stale'
                      \/ sends[q][x[1]] > x[2]
                      \/ \E m \in Payload : <<q, m>> \in exhausted
    BY <1>1, <1>2 DEF NoOrphanFlag, InFlight
  <2>1. /\ <<q, x>> # <<p, b>> /\ session[q].pending[x].tracked
        /\ session[q].pending[x].pendingResend /\ ~session[q].pending[x].acked
    BY <1>1
  <2>2. <<q, x>> \in stale => <<q, x>> \in stale' BY <1>2, <2>1
  <2> QED BY <2>1, <2>2 DEF CopiesSound, NoOrphanFlag, InFlight
<1>12. UnackedNotOvercounted'
  <2>1. Open' = Open BY <1>1, <1>2, <1>3 DEF Open
  <2> QED BY <1>2, <2>1 DEF CopiesSound, UnackedNotOvercounted
<1> QED BY <1>5, <1>6, <1>7, <1>8, <1>9, <1>10, <1>11, <1>12 DEF CopiesSound

\* A session whose state changes, and nothing else of it.
LEMMA StateEffect ==
    ASSUME TypeOK, NEW p \in ExchangePeers, NEW st \in PeerStates,
           session' = [session EXCEPT ![p].state = st]
    PROVE  PendingKept /\ RetriesKept /\ session' \in [ExchangePeers -> Sessions]
<1>1. session[p] \in Sessions BY DEF TypeOK
<1> DEFINE t == [session[p] EXCEPT !.state = st]
<1>2. t \in Sessions /\ t.pending = session[p].pending /\ t.retries = session[p].retries
  BY <1>1, StateFields
<1>3. session' = [session EXCEPT ![p] = t] OBVIOUS
<1> HIDE DEF t
<1>4. SessionBecomes(p, t) BY <1>2, <1>3, OneSession
<1> QED BY <1>2, <1>4 DEF SessionBecomes, PendingKept, RetriesKept

\* Resends to a peer are given up: what the loop had in hand is left flagged.
LEMMA GiveUpSound ==
    ASSUME TypeOK, LoopSound, CopiesSound, NEW p \in ExchangePeers, NEW b \in Surb,
           GiveUp(p, b)
    PROVE  CopiesSound'
<1>1. session' = [session EXCEPT ![p].state = "UNREACHABLE"]
  BY DEF GiveUp, RecordResendExhausted
<1>2. PendingKept /\ RetriesKept BY <1>1, StateEffect DEF PeerStates
<1>3. /\ <<p, b>> \in stale /\ stale' = {}
      /\ outbox' = outbox /\ flight' = flight /\ job' = job /\ sends' = sends
      /\ answered' = answered /\ unackedMsg' = unackedMsg
      /\ exhausted' = exhausted \cup {<<p, b[1]>>}
  BY DEF GiveUp, AfterFragment, netVars
<1>4. \A q \in ExchangePeers, x \in Surb : <<q, x>> \in stale => q = p
  BY <1>3 DEF LoopSound
<1>5. b[1] \in Payload BY DEF Surb
<1> QED BY <1>2, <1>3, <1>4, <1>5, FrameSound

-----------------------------------------------------------------------------
(* The invariant, action by action. *)

LEMMA InitSound == Init => IInv
<1> SUFFICES ASSUME Init PROVE IInv OBVIOUS
<1>1. PICK start \in Starts :
        /\ session = [p \in start.peers |->
                        NewSession(IF p \in JoinLater THEN "PENDING" ELSE "REACHABLE")]
        /\ script = start.script
        /\ chunk = Head(start.script)
  BY DEF Init
<1>2. /\ start.peers \subseteq Peers /\ script \in Seq(Payload) /\ script # <<>>
      /\ IsInjective(script)
  BY <1>1, ResendAssumption
<1>3. ExchangePeers = start.peers BY <1>1 DEF ExchangePeers
<1>4. /\ session \in [ExchangePeers -> Sessions]
      /\ \A p \in ExchangePeers :
           /\ \A x \in Surb : ~session[p].pending[x].tracked /\ session[p].pending[x].sentAt = 0
           /\ \A m \in Payload : session[p].retries[m] = 0
  <2>1. ASSUME NEW p \in start.peers
        PROVE  /\ session[p] \in Sessions
               /\ \A x \in Surb : ~session[p].pending[x].tracked /\ session[p].pending[x].sentAt = 0
               /\ \A m \in Payload : session[p].retries[m] = 0
    <3>1. PICK st \in PeerStates : session[p] = NewSession(st)
      BY <1>1 DEF PeerStates
    <3> QED BY <3>1, NewSessionFields
  <2> QED BY <1>1, <1>3, <2>1
<1>5. TypeOK
  <2>1. chunk \in Payload BY <1>1, <1>2
  <2>2. job \in [Clients -> {NoJob}] BY DEF Init
  <2> QED BY <1>2, <1>3, <1>4, <2>1, <2>2 DEF Init, TypeOK
<1>6. LoopSound BY DEF Init, LoopSound, Clients
<1>7. Fresh
  <2>1. \A i \in DOMAIN script : script[i] \in Payload BY <1>2
  <2> QED BY <1>2, <2>1 DEF Init, Fresh
<1>8. JobsSound /\ PacketsSound /\ StaleSound /\ AnsweredSent
  BY DEF Init, JobsSound, PacketsSound, StaleSound, AnsweredSent
<1>9. TrackedSound BY <1>4 DEF TrackedSound
<1>10. RetriesSound
  <2>1. \A p \in Peers, m \in Fragments : sends[p][m] = 0 BY DEF Init, Fragments
  <2>2. \A p \in ExchangePeers, m \in Fragments : session[p].retries[m] = 0
    BY <1>4 DEF Fragments
  <2> QED BY <2>1, <2>2, ResendAssumption DEF RetriesSound
<1>11. NoOrphanFlag BY <1>4 DEF NoOrphanFlag, InFlight
<1>12. UnackedNotOvercounted
  <2>1. unackedMsg = 0 /\ Cardinality(Open) \in Nat BY <1>5, OpenFinite DEF Init
  <2> QED BY <2>1 DEF UnackedNotOvercounted
<1> QED BY <1>5, <1>6, <1>7, <1>8, <1>9, <1>10, <1>11, <1>12 DEF IInv, CopiesSound

\* Steps that leave sessions, copies and packets alone.
LEMMA IdleKeeps ==
    ASSUME CopiesSound, TypeOK, Fresh,
           UNCHANGED <<session, unackedMsg, job, outbox, flight, stale, history>>
    PROVE  CopiesSound'
<1>1. PendingKept /\ RetriesKept BY DEF PendingKept, RetriesKept, ExchangePeers
<1> QED BY <1>1, FrameSound DEF history

LEMMA RestKeeps ==
    ASSUME IInv, NextRound \/ (\E r \in 1..NRounds : Intake(r)) \/ WakeUp \/ Sleep
    PROVE  IInv'
<1>0. TypeOK /\ LoopSound /\ Fresh /\ CopiesSound BY DEF IInv
<1>1. CASE NextRound
  <2>1. TypeOK'
    <3>1. currentRound' \in Nat BY <1>0, <1>1 DEF NextRound, TypeOK
    <3> QED BY <1>0, <1>1, <3>1 DEF NextRound, TypeOK, ExchangePeers, loopVars, netVars, history
  <2>2. LoopSound' BY <1>0, <1>1 DEF NextRound, LoopSound, loopVars
  <2>3. Fresh' BY <1>0, <1>1 DEF NextRound, Fresh, history
  <2>4. CopiesSound' BY <1>0, <1>1, IdleKeeps DEF NextRound, loopVars, netVars
  <2> QED BY <2>1, <2>2, <2>3, <2>4 DEF IInv
<1>2. ASSUME NEW r \in 1..NRounds, Intake(r) PROVE IInv'
  <2>1. TypeOK'
    BY <1>0, <1>2 DEF Intake, TypeOK, ExchangePeers, loopVars, netVars, history, learnerVars
  <2>2. LoopSound' BY <1>0, <1>2 DEF Intake, LoopSound, loopVars
  <2>3. Fresh' BY <1>0, <1>2 DEF Intake, Fresh, history, learnerVars
  <2>4. CopiesSound' BY <1>0, <1>2, IdleKeeps DEF Intake, loopVars, netVars
  <2> QED BY <2>1, <2>2, <2>3, <2>4 DEF IInv
<1>3. CASE WakeUp
  <2>1. TypeOK'
    BY <1>0, <1>3 DEF WakeUp, TypeOK, ExchangePeers, netVars, history, learnerVars
  <2>2. LoopSound' BY <1>0, <1>3 DEF WakeUp, LoopSound
  <2>3. Fresh' BY <1>0, <1>3 DEF WakeUp, Fresh, history, learnerVars
  <2>4. CopiesSound' BY <1>0, <1>3, IdleKeeps DEF WakeUp, netVars
  <2> QED BY <2>1, <2>2, <2>3, <2>4 DEF IInv
<1>4. CASE Sleep
  <2>1. TypeOK'
    BY <1>0, <1>4 DEF Sleep, TypeOK, ExchangePeers, netVars, history, learnerVars
  <2>2. LoopSound' BY <1>0, <1>4 DEF Sleep, LoopSound
  <2>3. Fresh' BY <1>0, <1>4 DEF Sleep, Fresh, history, learnerVars
  <2>4. CopiesSound' BY <1>0, <1>4, IdleKeeps DEF Sleep, netVars
  <2> QED BY <2>1, <2>2, <2>3, <2>4 DEF IInv
<1> QED BY <1>1, <1>2, <1>3, <1>4

LEMMA BeginKeeps ==
    ASSUME IInv, BeginChunk
    PROVE  IInv'
<1> DEFINE m == Head(script)
<1>0. TypeOK /\ LoopSound /\ Fresh /\ CopiesSound BY DEF IInv
<1>1. /\ job["learner"] = NoJob /\ script # <<>> /\ script \in Seq(Payload)
      /\ chunk' = m /\ script' = Tail(script)
      /\ session' = session /\ unackedMsg' = unackedMsg /\ clock' = clock
      /\ intake' = intake /\ pc' = pc /\ todo' = todo /\ stale' = stale
      /\ currentRound' = currentRound /\ outbox' = outbox /\ flight' = flight
      /\ answered' = answered /\ exhausted' = exhausted
      /\ sendList = {} /\ ExchangePeers' = ExchangePeers
  BY <1>0 DEF BeginChunk, LearnerIdle, loopVars, netVars, TypeOK, ExchangePeers
<1>2. /\ m \in Payload /\ Tail(script) \in Seq(Payload) /\ 1 \in DOMAIN script /\ m = script[1]
      /\ \A i \in DOMAIN Tail(script) : /\ i + 1 \in DOMAIN script
                                        /\ i + 1 # 1
                                        /\ Tail(script)[i] = script[i + 1]
  BY <1>1
<1>3. /\ IsInjective(Tail(script))
      /\ \A i \in DOMAIN Tail(script) : Tail(script)[i] # m
  <2>1. \A i, j \in DOMAIN script : script[i] = script[j] => i = j
    BY <1>0 DEF Fresh, IsInjective
  <2>2. \A i, j \in DOMAIN Tail(script) : i + 1 = j + 1 => i = j
    BY <1>1
  <2> QED BY <1>2, <2>1, <2>2 DEF IsInjective
<1>4. \A i \in DOMAIN script, q \in Peers : sends[q][script[i]] = 0 BY <1>0 DEF Fresh
<1>5. CASE Targets(m) = {}
  <2>1. job' = job /\ sends' = sends /\ sendList' = sendList BY <1>5 DEF BeginChunk
  <2>2. TypeOK' BY <1>0, <1>1, <1>2, <2>1 DEF TypeOK
  <2>3. LoopSound' BY <1>0, <1>1, <2>1 DEF LoopSound
  <2>4. Fresh' BY <1>1, <1>2, <1>3, <1>4, <2>1 DEF Fresh
  <2>5. CopiesSound' BY <1>0, <1>1, <2>1, IdleKeeps DEF history
  <2> QED BY <2>2, <2>3, <2>4, <2>5 DEF IInv
<1>6. CASE Targets(m) # {}
  <2>1. PICK p \in Targets(m) : /\ sendList' = Targets(m) \ {p}
                                /\ StartJob("learner", p, m)
    BY <1>6 DEF BeginChunk
  <2>2. p \in ExchangePeers /\ p \in Peers /\ Targets(m) \subseteq ExchangePeers
    BY <1>0, <2>1 DEF Targets, TypeOK
  <2>3. /\ job' \in [Clients -> {NoJob} \cup Jobs]
        /\ job'["learner"] # NoJob /\ job'["learner"].stage = "crypto" /\ job'["learner"].peer = p
        /\ job'["learner"].surb = <<m, sends[p][m] + 1>>
        /\ <<m, sends[p][m] + 1>> \in Surb
        /\ \A d \in Clients \ {"learner"} : job'[d] = job[d]
        /\ sends' \in [Peers -> [Payload -> Nat]]
        /\ sends'[p][m] = sends[p][m] + 1
        /\ \A q \in Peers, k \in Payload : <<q, k>> # <<p, m>> => sends'[q][k] = sends[q][k]
    <3>1. "learner" \in Clients BY DEF Clients
    <3> QED BY <1>0, <1>2, <2>1, <2>2, <3>1, StartEffect
  <2>4. TypeOK'
    <3>1. \A c \in Clients : job'[c] # NoJob => job'[c].peer \in ExchangePeers
      BY <1>0, <2>2, <2>3 DEF TypeOK
    <3> QED BY <1>0, <1>1, <1>2, <2>1, <2>2, <2>3, <3>1 DEF TypeOK
  <2>5. LoopSound' BY <1>0, <1>1, <2>3 DEF LoopSound, Clients
  <2>6. Fresh'
    <3> HIDE DEF m
    <3>1. \A i \in DOMAIN Tail(script), q \in Peers : sends'[q][Tail(script)[i]] = 0
      <4> TAKE i \in DOMAIN Tail(script), q \in Peers
      <4>1. Tail(script)[i] \in Payload /\ Tail(script)[i] # m BY <1>2, <1>3
      <4>2. sends[q][Tail(script)[i]] = 0 BY <1>2, <1>4
      <4> QED BY <2>3, <4>1, <4>2
    <3>2. \A q \in sendList' : sends'[q][m] = 0
      <4> TAKE q \in sendList'
      <4>1. q \in Peers /\ q # p BY <1>0, <2>1, <2>2 DEF TypeOK
      <4> QED BY <1>2, <1>4, <2>3, <4>1
    <3> QED BY <1>1, <1>3, <3>1, <3>2 DEF Fresh
  <2>7. CopiesSound'
    <3>1. sends[p][m] = 0 BY <1>2, <1>4, <2>2
    <3>2. FirstCopy("learner", p, m) BY <1>1, <3>1 DEF FirstCopy
    <3>3. "learner" \in Clients BY DEF Clients
    <3> QED BY <1>0, <1>1, <1>2, <2>1, <2>2, <3>2, <3>3, StartSound
  <2> QED BY <2>4, <2>5, <2>6, <2>7 DEF IInv
<1> QED BY <1>5, <1>6

LEMMA ContinueKeeps ==
    ASSUME IInv, ContinueChunk
    PROVE  IInv'
<1>0. TypeOK /\ LoopSound /\ Fresh /\ CopiesSound BY DEF IInv
<1>1. PICK p \in sendList : /\ sendList' = sendList \ {p}
                            /\ StartJob("learner", p, chunk)
  BY DEF ContinueChunk
<1>2. /\ job["learner"] = NoJob
      /\ chunk' = chunk /\ script' = script
      /\ session' = session /\ unackedMsg' = unackedMsg /\ clock' = clock
      /\ intake' = intake /\ pc' = pc /\ todo' = todo /\ stale' = stale
      /\ currentRound' = currentRound /\ outbox' = outbox /\ flight' = flight
      /\ answered' = answered /\ exhausted' = exhausted
      /\ ExchangePeers' = ExchangePeers
  BY DEF ContinueChunk, loopVars, netVars, ExchangePeers
<1>3. p \in ExchangePeers /\ p \in Peers /\ chunk \in Payload /\ "learner" \in Clients
  BY <1>0, <1>1 DEF TypeOK, Clients
<1>4. /\ job' \in [Clients -> {NoJob} \cup Jobs]
      /\ job'["learner"] # NoJob /\ job'["learner"].stage = "crypto" /\ job'["learner"].peer = p
      /\ job'["learner"].surb = <<chunk, sends[p][chunk] + 1>>
      /\ <<chunk, sends[p][chunk] + 1>> \in Surb
      /\ \A d \in Clients \ {"learner"} : job'[d] = job[d]
      /\ sends' \in [Peers -> [Payload -> Nat]]
      /\ sends'[p][chunk] = sends[p][chunk] + 1
      /\ \A q \in Peers, k \in Payload : <<q, k>> # <<p, chunk>> => sends'[q][k] = sends[q][k]
  BY <1>0, <1>1, <1>3, StartEffect
<1>5. TypeOK'
  <2>1. \A c \in Clients : job'[c] # NoJob => job'[c].peer \in ExchangePeers
    BY <1>0, <1>3, <1>4 DEF TypeOK
  <2> QED BY <1>0, <1>1, <1>2, <1>3, <1>4, <2>1 DEF TypeOK
<1>6. LoopSound' BY <1>0, <1>2, <1>4 DEF LoopSound, Clients
<1>7. Fresh'
  <2>1. \A i \in DOMAIN script : script[i] \in Payload /\ script[i] # chunk
    BY <1>0, <1>1 DEF Fresh, TypeOK
  <2>2. \A i \in DOMAIN script, q \in Peers : sends'[q][script[i]] = 0
    BY <1>0, <1>4, <2>1 DEF Fresh
  <2>3. \A q \in sendList' : sends'[q][chunk] = 0
    <3> TAKE q \in sendList'
    <3>1. q \in Peers /\ q # p /\ q \in sendList BY <1>0, <1>1 DEF TypeOK
    <3> QED BY <1>0, <1>3, <1>4, <3>1 DEF Fresh
  <2> QED BY <1>0, <1>1, <1>2, <2>1, <2>2, <2>3 DEF Fresh
<1>8. CopiesSound'
  <2>1. FirstCopy("learner", p, chunk) BY <1>0, <1>1, <1>2 DEF FirstCopy, Fresh
  <2> QED BY <1>0, <1>1, <1>2, <1>3, <2>1, StartSound
<1> QED BY <1>5, <1>6, <1>7, <1>8 DEF IInv

LEMMA ResumeLearnerKeeps ==
    ASSUME IInv, ResumeLearner
    PROVE  IInv'
<1>0. TypeOK /\ LoopSound /\ Fresh /\ CopiesSound /\ "learner" \in Clients
  BY DEF IInv, Clients
<1>1. /\ job["learner"] # NoJob
      /\ outbox' = outbox \cup {<<job["learner"].peer, job["learner"].surb>>}
      /\ job' = [job EXCEPT !["learner"] = NoJob]
      /\ chunk' = chunk /\ script' = script /\ sendList' = sendList
      /\ session' = session /\ unackedMsg' = unackedMsg /\ clock' = clock
      /\ intake' = intake /\ pc' = pc /\ todo' = todo /\ stale' = stale
      /\ currentRound' = currentRound /\ flight' = flight /\ sends' = sends
      /\ answered' = answered /\ exhausted' = exhausted
      /\ ExchangePeers' = ExchangePeers
  BY DEF ResumeLearner, loopVars, learnerVars, history, ExchangePeers, NoJob
<1>2. job["learner"].peer \in ExchangePeers /\ job["learner"].surb \in Surb
  BY <1>0, <1>1, JobType
<1>3. /\ job' \in [Clients -> {NoJob} \cup Jobs] /\ job'["learner"] = NoJob
      /\ \A d \in Clients \ {"learner"} : job'[d] = job[d]
  BY <1>0, <1>1, ResumeEffect
<1>4. TypeOK'
  <2>1. \A c \in Clients : job'[c] # NoJob => job'[c].peer \in ExchangePeers
    BY <1>0, <1>3 DEF TypeOK
  <2>2. outbox' \subseteq ExchangePeers \X Surb BY <1>0, <1>1, <1>2 DEF TypeOK
  <2> QED BY <1>0, <1>1, <1>3, <2>1, <2>2 DEF TypeOK
<1>5. LoopSound' BY <1>0, <1>1, <1>3 DEF LoopSound, Clients
<1>6. Fresh' BY <1>0, <1>1 DEF Fresh
<1>7. CopiesSound'
  <2>1. PendingKept /\ RetriesKept BY <1>1 DEF PendingKept, RetriesKept
  <2> QED BY <1>0, <1>1, <2>1, ResumeSound
<1> QED BY <1>4, <1>5, <1>6, <1>7 DEF IInv

LEMMA ResumeResendKeeps ==
    ASSUME IInv, ResumeResend
    PROVE  IInv'
<1> DEFINE p == job["resend"].peer
           b == job["resend"].surb
           t == BumpRetryCount(session[p], b[1])
<1>0. TypeOK /\ LoopSound /\ Fresh /\ CopiesSound /\ "resend" \in Clients
  BY DEF IInv, Clients
<1>1. /\ job["resend"] # NoJob
      /\ outbox' = outbox \cup {<<p, b>>}
      /\ session' = [session EXCEPT ![p] = t]
      /\ job' = [job EXCEPT !["resend"] = NoJob]
      /\ chunk' = chunk /\ script' = script /\ sendList' = sendList
      /\ unackedMsg' = unackedMsg /\ clock' = clock
      /\ intake' = intake /\ todo' = todo /\ stale' = stale
      /\ pc' = (IF stale = {} THEN "scan" ELSE "work")
      /\ currentRound' = currentRound /\ flight' = flight /\ sends' = sends
      /\ answered' = answered /\ exhausted' = exhausted
  BY DEF ResumeResend, AfterFragment, learnerVars, history, NoJob
<1>2. p \in ExchangePeers /\ b \in Surb /\ b[1] \in Payload
  BY <1>0, <1>1, JobType
<1>3. /\ job' \in [Clients -> {NoJob} \cup Jobs] /\ job'["resend"] = NoJob
      /\ \A d \in Clients \ {"resend"} : job'[d] = job[d]
  BY <1>0, <1>1, ResumeEffect
<1>4. /\ t \in Sessions /\ t.state = session[p].state /\ t.pending = session[p].pending
      /\ t.retries[b[1]] = session[p].retries[b[1]] + 1
      /\ \A k \in Payload \ {b[1]} : t.retries[k] = session[p].retries[k]
  BY <1>0, <1>2, BumpFields DEF TypeOK
<1> HIDE DEF t
<1>5. SessionBecomes(p, t) BY <1>0, <1>1, <1>2, <1>4, OneSession
<1>6. ExchangePeers' = ExchangePeers /\ session' \in [ExchangePeers -> Sessions]
  BY <1>5 DEF SessionBecomes
<1>7. TypeOK'
  <2>1. \A c \in Clients : job'[c] # NoJob => job'[c].peer \in ExchangePeers
    BY <1>0, <1>3 DEF TypeOK
  <2>2. outbox' \subseteq ExchangePeers \X Surb BY <1>0, <1>1, <1>2 DEF TypeOK
  <2> HIDE DEF p, b
  <2> QED BY <1>0, <1>1, <1>3, <1>6, <2>1, <2>2 DEF TypeOK
<1>8. LoopSound' BY <1>0, <1>1, <1>3 DEF LoopSound
<1>9. Fresh' BY <1>0, <1>1 DEF Fresh
<1>10. CopiesSound'
  <2>1. PendingKept BY <1>4, <1>5 DEF PendingKept, SessionBecomes
  <2>2. \A q \in ExchangePeers : \A m \in Payload :
          session'[q].retries[m] =
            IF q = p /\ m = b[1] THEN session[q].retries[m] + 1 ELSE session[q].retries[m]
    <3> HIDE DEF p, b
    <3> QED BY <1>4, <1>5 DEF SessionBecomes
  <2> QED BY <1>0, <1>1, <2>1, <2>2, ResumeSound
<1> QED BY <1>7, <1>8, <1>9, <1>10 DEF IInv

LEMMA TrackKeeps ==
    ASSUME IInv, NEW c \in Clients, Track(c)
    PROVE  IInv'
<1>0. TypeOK /\ LoopSound /\ Fresh /\ CopiesSound BY DEF IInv
<1>1. /\ clock' = clock /\ intake' = intake /\ pc' = pc /\ todo' = todo /\ stale' = stale
      /\ chunk' = chunk /\ script' = script /\ sendList' = sendList
      /\ currentRound' = currentRound /\ outbox' = outbox /\ flight' = flight
      /\ sends' = sends /\ answered' = answered /\ exhausted' = exhausted
      /\ unackedMsg' \in {unackedMsg, unackedMsg + 1}
  BY DEF Track, loopVars, learnerVars, netVars, history
<1>2. /\ job[c] # NoJob
      /\ job' \in [Clients -> {NoJob} \cup Jobs]
      /\ job'[c] # NoJob /\ job'[c].stage = "tracked"
      /\ job'[c].peer = job[c].peer /\ job'[c].surb = job[c].surb
      /\ \A d \in Clients \ {c} : job'[d] = job[d]
      /\ SessionBecomes(job[c].peer, TrackOutbound(session[job[c].peer], job[c].surb))
  BY <1>0, TrackEffect
<1>3. ExchangePeers' = ExchangePeers /\ session' \in [ExchangePeers -> Sessions]
  BY <1>2 DEF SessionBecomes
<1>4. TypeOK'
  <2>1. \A d \in Clients : job'[d] # NoJob => job'[d].peer \in ExchangePeers
    BY <1>0, <1>2 DEF TypeOK
  <2> QED BY <1>0, <1>1, <1>2, <1>3, <2>1 DEF TypeOK
<1>5. LoopSound' BY <1>0, <1>1, <1>2 DEF LoopSound, Clients
<1>6. Fresh' BY <1>0, <1>1 DEF Fresh
<1>7. CopiesSound' BY <1>0, TrackSound
<1> QED BY <1>4, <1>5, <1>6, <1>7 DEF IInv

LEMMA NetworkKeeps ==
    ASSUME IInv, NEW p \in ExchangePeers, NEW b \in Surb,
           DispatchSend(p, b) \/ DispatchDead(p, b) \/ Lose(p, b) \/ HandleSurb(p, b)
    PROVE  IInv'
<1>0. TypeOK /\ LoopSound /\ Fresh /\ CopiesSound BY DEF IInv
<1>1. /\ intake' = intake /\ pc' = pc /\ todo' = todo /\ stale' = stale
      /\ chunk' = chunk /\ script' = script /\ sendList' = sendList
      /\ currentRound' = currentRound /\ job' = job /\ sends' = sends
      /\ exhausted' = exhausted
      /\ outbox' \subseteq outbox /\ flight' \subseteq flight \cup outbox
  BY DEF DispatchSend, DispatchDead, Lose, HandleSurb, loopVars, learnerVars, history
<1>2. LoopSound' /\ Fresh' BY <1>0, <1>1 DEF LoopSound, Fresh
<1>3. ASSUME /\ ExchangePeers' = ExchangePeers /\ session' \in [ExchangePeers -> Sessions]
             /\ clock' \in Nat /\ unackedMsg' \in Nat
             /\ answered' \subseteq ExchangePeers \X Payload
      PROVE  TypeOK'
  BY <1>0, <1>1, <1>3 DEF TypeOK
<1>4. CASE DispatchSend(p, b)
  <2>1. ExchangePeers' = ExchangePeers /\ session' \in [ExchangePeers -> Sessions]
    BY <1>0, <1>4, DispatchSendEffect
  <2>2. clock' \in Nat /\ unackedMsg' = unackedMsg /\ answered' = answered
    BY <1>0, <1>4 DEF DispatchSend, TypeOK, history
  <2>3. TypeOK' BY <1>0, <1>3, <2>1, <2>2 DEF TypeOK
  <2>4. CopiesSound' BY <1>0, <1>4, DispatchSendSound
  <2> QED BY <1>2, <2>3, <2>4 DEF IInv
<1>5. CASE DispatchDead(p, b) \/ Lose(p, b)
  <2>1. /\ session' = session /\ clock' = clock /\ unackedMsg' = unackedMsg
        /\ answered' = answered /\ flight' \subseteq flight
    BY <1>5 DEF DispatchDead, Lose, history
  <2>2. ExchangePeers' = ExchangePeers BY <2>1 DEF ExchangePeers
  <2>3. TypeOK' BY <1>0, <1>3, <2>1, <2>2 DEF TypeOK
  <2>4. CopiesSound' BY <1>0, <1>1, <2>1, DropSound
  <2> QED BY <1>2, <2>3, <2>4 DEF IInv
<1>6. CASE HandleSurb(p, b) /\ ~HasSurb(p, b)
  <2>1. /\ session' = session /\ clock' = clock /\ unackedMsg' = unackedMsg
        /\ answered' = answered /\ flight' \subseteq flight
    BY <1>6 DEF HandleSurb
  <2>2. ExchangePeers' = ExchangePeers BY <2>1 DEF ExchangePeers
  <2>3. TypeOK' BY <1>0, <1>3, <2>1, <2>2 DEF TypeOK
  <2>4. CopiesSound' BY <1>0, <1>1, <2>1, DropSound
  <2> QED BY <1>2, <2>3, <2>4 DEF IInv
<1>7. CASE HandleSurb(p, b) /\ HasSurb(p, b)
  <2>1. ExchangePeers' = ExchangePeers /\ session' \in [ExchangePeers -> Sessions]
    BY <1>0, <1>7, HandleSurbEffect
  <2>2. /\ clock' \in {clock, clock + 1}
        /\ unackedMsg' \in {unackedMsg, Decrement(unackedMsg)}
        /\ answered' = answered \cup {<<p, b[1]>>}
    BY <1>7 DEF HandleSurb
  <2>3. clock' \in Nat /\ unackedMsg' \in Nat BY <1>0, <2>2 DEF TypeOK, Decrement
  <2>4. answered' \subseteq ExchangePeers \X Payload
    <3>1. b[1] \in Payload BY DEF Surb
    <3> QED BY <1>0, <2>2, <3>1 DEF TypeOK
  <2>5. TypeOK' BY <1>3, <2>1, <2>3, <2>4
  <2>6. CopiesSound' BY <1>0, <1>7, HandleSurbSound
  <2> QED BY <1>2, <2>5, <2>6 DEF IInv
<1> QED BY <1>4, <1>5, <1>6, <1>7

LEMMA LinkLostKeeps ==
    ASSUME IInv, NEW p \in ExchangePeers, LinkLost(p)
    PROVE  IInv'
<1>0. TypeOK /\ LoopSound /\ Fresh /\ CopiesSound BY DEF IInv
<1>1. /\ session' = [session EXCEPT ![p].state = "UNREACHABLE"]
      /\ clock' = clock /\ unackedMsg' = unackedMsg
      /\ intake' = intake /\ pc' = pc /\ todo' = todo /\ stale' = stale
      /\ chunk' = chunk /\ script' = script /\ sendList' = sendList
      /\ currentRound' = currentRound /\ job' = job /\ sends' = sends
      /\ exhausted' = exhausted /\ answered' = answered
      /\ outbox' = outbox /\ flight' = flight
  BY DEF LinkLost, loopVars, learnerVars, history, netVars
<1>2. PendingKept /\ RetriesKept /\ session' \in [ExchangePeers -> Sessions]
  BY <1>0, <1>1, StateEffect DEF PeerStates
<1>3. TypeOK'
  <2>1. ExchangePeers' = ExchangePeers BY <1>2 DEF PendingKept
  <2> QED BY <1>0, <1>1, <1>2, <2>1 DEF TypeOK
<1>4. LoopSound' /\ Fresh' BY <1>0, <1>1 DEF LoopSound, Fresh
<1>5. CopiesSound' BY <1>0, <1>1, <1>2, FrameSound
<1> QED BY <1>3, <1>4, <1>5 DEF IInv

LEMMA CutoffsType ==
    ASSUME TypeOK, NEW p \in ExchangePeers, NEW kind
    PROVE  Cutoffs(p, kind) \subseteq Nat
<1>1. \A x \in InFlight(session[p]) : session[p].pending[x].sentAt \in Nat
  BY DEF TypeOK, Sessions, Tracks, InFlight
<1> QED BY <1>1 DEF Cutoffs

LEMMA ScanKeeps ==
    ASSUME IInv, NEW p \in ExchangePeers, NEW t \in Nat, NEW u \in Nat,
           ScanPeer(p, t, u)
    PROVE  IInv'
<1>0. TypeOK /\ LoopSound /\ Fresh /\ CopiesSound BY DEF IInv
<1>1. /\ clock' = clock /\ unackedMsg' = unackedMsg
      /\ intake' = intake /\ pc = "scan" /\ todo' \subseteq todo
      /\ chunk' = chunk /\ script' = script /\ sendList' = sendList
      /\ currentRound' = currentRound /\ job' = job /\ sends' = sends
      /\ exhausted' = exhausted /\ answered' = answered
      /\ outbox' = outbox /\ flight' = flight
  BY DEF ScanPeer, learnerVars, history, netVars
<1>2. stale = {} BY <1>0, <1>1 DEF LoopSound
<1>3. CopiesSound' BY <1>0, ScanSound
<1>4. Fresh' BY <1>0, <1>1 DEF Fresh
<1>5. CASE session[p].state = "UNREACHABLE"
  <2>1. session' = session /\ stale' = stale /\ pc' = pc BY <1>5 DEF ScanPeer
  <2>2. TypeOK' BY <1>0, <1>1, <2>1 DEF TypeOK, ExchangePeers
  <2>3. LoopSound' BY <1>0, <1>1, <2>1 DEF LoopSound
  <2> QED BY <1>3, <1>4, <2>2, <2>3 DEF IInv
<1>6. CASE session[p].state # "UNREACHABLE"
  <2>1. /\ ExchangePeers' = ExchangePeers
        /\ session' \in [ExchangePeers -> Sessions]
        /\ stale' \subseteq ExchangePeers \X Surb
        /\ \A o \in stale' : o[1] = p
    BY <1>0, <1>2, <1>6, ScanEffect
  <2>2. pc' = (IF stale' = {} THEN "scan" ELSE "work") BY <1>6 DEF ScanPeer
  <2>3. TypeOK' BY <1>0, <1>1, <2>1, <2>2 DEF TypeOK
  <2>4. LoopSound' BY <1>0, <1>1, <2>1, <2>2 DEF LoopSound
  <2> QED BY <1>3, <1>4, <2>3, <2>4 DEF IInv
<1> QED BY <1>5, <1>6

LEMMA StaleStepKeeps ==
    ASSUME IInv, NEW p \in ExchangePeers, NEW b \in Surb,
           WaitForFragment(p, b) \/ GiveUp(p, b)
    PROVE  IInv'
<1>0. TypeOK /\ LoopSound /\ Fresh /\ CopiesSound BY DEF IInv
<1>1. /\ clock' = clock /\ unackedMsg' = unackedMsg
      /\ intake' = intake /\ pc = "work" /\ todo' = todo
      /\ chunk' = chunk /\ script' = script /\ sendList' = sendList
      /\ currentRound' = currentRound /\ job' = job /\ sends' = sends
      /\ answered' = answered /\ outbox' = outbox /\ flight' = flight
      /\ stale' \subseteq stale /\ <<p, b>> \in stale
      /\ pc' = (IF stale' = {} THEN "scan" ELSE "work")
  BY DEF WaitForFragment, GiveUp, AfterFragment, learnerVars, history, netVars
<1>2. LoopSound' /\ Fresh' BY <1>0, <1>1 DEF LoopSound, Fresh
<1>3. ASSUME ExchangePeers' = ExchangePeers, session' \in [ExchangePeers -> Sessions],
             exhausted' \subseteq ExchangePeers \X Fragments
      PROVE  TypeOK'
  BY <1>0, <1>1, <1>3 DEF TypeOK
<1>4. CASE WaitForFragment(p, b)
  <2>1. ExchangePeers' = ExchangePeers /\ session' \in [ExchangePeers -> Sessions]
    BY <1>0, <1>4, WaitEffect
  <2>2. exhausted' = exhausted BY <1>4 DEF WaitForFragment, history
  <2>3. TypeOK' BY <1>0, <1>3, <2>1, <2>2 DEF TypeOK
  <2>4. CopiesSound' BY <1>0, <1>4, WaitSound
  <2> QED BY <1>2, <2>3, <2>4 DEF IInv
<1>5. CASE GiveUp(p, b)
  <2>1. session' = [session EXCEPT ![p].state = "UNREACHABLE"]
    BY <1>5 DEF GiveUp, RecordResendExhausted
  <2>2. ExchangePeers' = ExchangePeers /\ session' \in [ExchangePeers -> Sessions]
    BY <1>0, <2>1, StateEffect DEF PeerStates, PendingKept
  <2>3. exhausted' = exhausted \cup {<<p, b[1]>>} /\ b[1] \in Fragments
    BY <1>0, <1>1, <1>5 DEF GiveUp, CopiesSound, StaleSound
  <2>a. exhausted' \subseteq ExchangePeers \X Fragments BY <1>0, <2>3 DEF TypeOK
  <2>4. TypeOK' BY <1>3, <2>2, <2>a
  <2>5. CopiesSound' BY <1>0, <1>5, GiveUpSound
  <2> QED BY <1>2, <2>4, <2>5 DEF IInv
<1> QED BY <1>4, <1>5

LEMMA StartResendKeeps ==
    ASSUME IInv, NEW p \in ExchangePeers, NEW b \in Surb, StartResend(p, b)
    PROVE  /\ IInv' /\ b = <<b[1], sends[p][b[1]]>>
           /\ session[p].retries[b[1]] < MaxResends
<1> DEFINE m == b[1]
<1>0. TypeOK /\ LoopSound /\ Fresh /\ CopiesSound /\ "resend" \in Clients
  BY DEF IInv, Clients
<1>1. /\ <<p, b>> \in stale /\ stale' = stale \ {<<p, b>>}
      /\ session[p].retries[m] < MaxResends
      /\ StartJob("resend", p, m)
      /\ pc = "work" /\ pc' = "await"
      /\ chunk' = chunk /\ script' = script /\ sendList' = sendList
      /\ session' = session /\ unackedMsg' = unackedMsg /\ clock' = clock
      /\ intake' = intake /\ todo' = todo
      /\ currentRound' = currentRound /\ outbox' = outbox /\ flight' = flight
      /\ answered' = answered /\ exhausted' = exhausted
      /\ ExchangePeers' = ExchangePeers
  BY DEF StartResend, learnerVars, netVars, ExchangePeers
<1>2. /\ p \in Peers /\ m \in Payload /\ m \in Fragments
      /\ b[2] = sends[p][m] /\ sends[p][m] # 0 /\ b = <<m, sends[p][m]>>
  <2>1. p \in Peers /\ m \in Payload /\ b[2] \in 1..MaxSends /\ b = <<b[1], b[2]>>
    BY <1>0 DEF TypeOK, Surb
  <2>2. b[2] = sends[p][m] /\ m \in Fragments BY <1>0, <1>1 DEF CopiesSound, StaleSound
  <2> QED BY <2>1, <2>2, SessionAssumption
<1>3. job["resend"] = NoJob BY <1>0, <1>1 DEF LoopSound
<1> HIDE DEF m
<1>4. /\ job' \in [Clients -> {NoJob} \cup Jobs]
      /\ job'["resend"] # NoJob /\ job'["resend"].stage = "crypto" /\ job'["resend"].peer = p
      /\ job'["resend"].surb = <<m, sends[p][m] + 1>>
      /\ <<m, sends[p][m] + 1>> \in Surb
      /\ \A d \in Clients \ {"resend"} : job'[d] = job[d]
      /\ sends' \in [Peers -> [Payload -> Nat]]
      /\ sends'[p][m] = sends[p][m] + 1
      /\ \A q \in Peers, k \in Payload : <<q, k>> # <<p, m>> => sends'[q][k] = sends[q][k]
  BY <1>0, <1>1, <1>2, StartEffect
<1>5. TypeOK'
  <2>1. \A c \in Clients : job'[c] # NoJob => job'[c].peer \in ExchangePeers
    BY <1>0, <1>4 DEF TypeOK
  <2> QED BY <1>0, <1>1, <1>4, <2>1 DEF TypeOK
<1>6. LoopSound' BY <1>0, <1>1, <1>4 DEF LoopSound
<1>7. Fresh'
  <2>1. ASSUME NEW q \in Peers, NEW k \in Payload, sends[q][k] = 0
        PROVE  sends'[q][k] = 0
    <3>1. <<q, k>> # <<p, m>> BY <1>2, <2>1
    <3> QED BY <1>4, <2>1, <3>1
  <2>2. \A i \in DOMAIN script : script[i] \in Payload BY <1>0 DEF TypeOK
  <2>3. sendList \subseteq Peers /\ chunk \in Payload BY <1>0 DEF TypeOK
  <2>4. \A i \in DOMAIN script, q \in Peers : sends'[q][script[i]] = 0
    BY <1>0, <2>1, <2>2 DEF Fresh
  <2>5. \A q \in sendList : sends'[q][chunk] = 0 BY <1>0, <2>1, <2>3 DEF Fresh
  <2> QED BY <1>0, <1>1, <2>4, <2>5 DEF Fresh
<1>8. CopiesSound'
  <2>1. NextCopy("resend", p, m) BY <1>1, <1>2 DEF NextCopy, m
  <2> QED BY <1>0, <1>1, <1>2, <1>3, <2>1, StartSound DEF m
<1> QED BY <1>1, <1>2, <1>5, <1>6, <1>7, <1>8 DEF IInv, m

LEMMA StutterKeeps ==
    ASSUME IInv, UNCHANGED vars
    PROVE  IInv'
<1>0. TypeOK /\ LoopSound /\ Fresh /\ CopiesSound BY DEF IInv
<1>1. UNCHANGED <<session, unackedMsg, clock, intake, job, outbox, flight, pc, todo,
                  stale, currentRound, script, sendList, chunk, history>>
  BY DEF vars, loopVars, learnerVars, netVars, history
<1>2. TypeOK' BY <1>0, <1>1 DEF TypeOK, ExchangePeers, history
<1>3. LoopSound' /\ Fresh' BY <1>0, <1>1 DEF LoopSound, Fresh, history
<1>4. CopiesSound' BY <1>0, <1>1, IdleKeeps
<1> QED BY <1>2, <1>3, <1>4 DEF IInv

\* The steps about one packet or fragment.
PacketStep(p, x) ==
    \/ DispatchSend(p, x) \/ DispatchDead(p, x)
    \/ Lose(p, x) \/ HandleSurb(p, x)
    \/ WaitForFragment(p, x) \/ GiveUp(p, x) \/ StartResend(p, x)

LEMMA PacketKeeps ==
    ASSUME IInv, NEW p \in ExchangePeers, NEW x \in Surb, PacketStep(p, x)
    PROVE  IInv'
BY NetworkKeeps, StaleStepKeeps, StartResendKeeps DEF PacketStep

LEMMA NextKeeps == IInv /\ [Next]_vars => IInv'
<1> SUFFICES ASSUME IInv, [Next]_vars PROVE IInv' OBVIOUS
<1>1. CASE BeginChunk BY <1>1, BeginKeeps
<1>2. CASE ContinueChunk BY <1>2, ContinueKeeps
<1>3. CASE ResumeLearner BY <1>3, ResumeLearnerKeeps
<1>4. CASE NextRound \/ (\E r \in 1..NRounds : Intake(r)) \/ WakeUp \/ Sleep
  BY <1>4, RestKeeps
<1>5. CASE \E c \in Clients : Track(c) BY <1>5, TrackKeeps
<1>6. CASE \E p \in ExchangePeers, x \in Surb : PacketStep(p, x) BY <1>6, PacketKeeps
<1>7. CASE \E p \in ExchangePeers : LinkLost(p) BY <1>7, LinkLostKeeps
<1>8. CASE ResumeResend BY <1>8, ResumeResendKeeps
<1>9. ASSUME NEW p \in ExchangePeers, NEW t \in Cutoffs(p, Fragments),
             NEW u \in Cutoffs(p, Covers), ScanPeer(p, t, u)
      PROVE  IInv'
  <2>1. t \in Nat /\ u \in Nat BY CutoffsType DEF IInv
  <2> QED BY <1>9, <2>1, ScanKeeps
<1>10. CASE UNCHANGED vars BY <1>10, StutterKeeps
<1> QED BY <1>1, <1>2, <1>3, <1>4, <1>5, <1>6, <1>7, <1>8, <1>9, <1>10, Zenon
        DEF Next, PacketStep

THEOREM Invariance == Spec => []IInv
BY InitSound, NextKeeps, PTL DEF Spec

\* Every variable keeps its type: sessions are of peers, what waits or is
\* under way is addressed to a peer, and counters do not go below zero.
THEOREM TypeCorrect == Spec => []TypeOK
<1>1. IInv => TypeOK BY DEF IInv
<1> QED BY Invariance, <1>1, PTL

\* An unacknowledged fragment the loop flagged is in its hands, or a later
\* copy of it exists, or its peer was given up (_resend_stale,
\* set_pending_resend): a fragment the loop chose to wait for is not
\* forgotten.
THEOREM NoOrphanFlagAlways == Spec => []NoOrphanFlag
<1>1. IInv => NoOrphanFlag BY DEF IInv, CopiesSound
<1> QED BY Invariance, <1>1, PTL

\* UNACKED_MSG is at most the number of messages that were tracked and not
\* acknowledged (track_outbound, record_surb_ack and their callers).
THEOREM UnackedNotOvercountedAlways == Spec => []UnackedNotOvercounted
<1>1. IInv => UnackedNotOvercounted BY DEF IInv, CopiesSound
<1> QED BY Invariance, <1>1, PTL

-----------------------------------------------------------------------------
(* Only an acknowledgement revives a peer. *)

Revived(q) ==
    session[q].state = "UNREACHABLE" /\ session'[q].state # "UNREACHABLE"

LEMMA OnlyAckRevives ==
    ASSUME IInv, [Next]_vars, NEW q \in ExchangePeers, Revived(q)
    PROVE  \E x \in Surb : HandleSurb(q, x) /\ HasSurb(q, x)
<1>0. TypeOK /\ LoopSound /\ session \in [ExchangePeers -> Sessions]
  BY DEF IInv, TypeOK
<1>1. ~(BeginChunk \/ ContinueChunk \/ ResumeLearner \/ NextRound \/ WakeUp \/ Sleep)
  BY DEF BeginChunk, ContinueChunk, ResumeLearner, NextRound, WakeUp, Sleep, Revived
<1>2. ~ \E r \in 1..NRounds : Intake(r) BY DEF Intake, Revived
<1>3. ASSUME NEW c \in Clients, Track(c) PROVE FALSE
  <2> DEFINE p == job[c].peer
             b == job[c].surb
             t == TrackOutbound(session[p], b)
  <2>1. SessionBecomes(p, t) /\ job[c] # NoJob BY <1>0, <1>3, TrackEffect
  <2>2. p \in ExchangePeers /\ b \in Surb BY <1>0, <2>1, JobType
  <2> HIDE DEF p, b
  <2>3. t.state = session[p].state BY <1>0, <2>2, TrackOutboundFields
  <2> QED BY <2>1, <2>3 DEF SessionBecomes, Revived
<1>4. ASSUME NEW p \in ExchangePeers, NEW x \in Surb,
             PacketStep(p, x), ~(HandleSurb(p, x) /\ HasSurb(p, x))
      PROVE  FALSE
  <2>1. CASE DispatchSend(p, x) BY <1>0, <2>1, DispatchSendEffect DEF Revived
  <2>2. CASE DispatchDead(p, x) \/ Lose(p, x) \/ HandleSurb(p, x) \/ StartResend(p, x)
    BY <1>4, <2>2 DEF DispatchDead, Lose, HandleSurb, StartResend, Revived
  <2>3. CASE WaitForFragment(p, x) BY <1>0, <2>3, WaitEffect DEF Revived
  <2>4. CASE GiveUp(p, x) BY <1>0, <2>4 DEF GiveUp, RecordResendExhausted, Revived, Sessions
  <2> QED BY <1>4, <2>1, <2>2, <2>3, <2>4 DEF PacketStep
<1>5. ASSUME NEW p \in ExchangePeers, LinkLost(p) PROVE FALSE
  BY <1>0, <1>5 DEF LinkLost, Revived, Sessions
<1>6. ASSUME ResumeResend PROVE FALSE
  <2> DEFINE p == job["resend"].peer
             b == job["resend"].surb
             t == BumpRetryCount(session[p], b[1])
  <2>1. session' = [session EXCEPT ![p] = t] BY <1>6 DEF ResumeResend
  <2>2. job["resend"] # NoJob /\ "resend" \in Clients
    BY <1>6 DEF ResumeResend, NoJob, Clients
  <2>3. p \in ExchangePeers /\ b[1] \in Payload BY <1>0, <2>2, JobType
  <2> HIDE DEF p, b
  <2>4. t.state = session[p].state BY <1>0, <2>3, BumpFields
  <2> HIDE DEF t
  <2> QED BY <1>0, <2>1, <2>3, <2>4 DEF Revived
<1>7. ASSUME NEW p \in ExchangePeers, NEW t \in Cutoffs(p, Fragments),
             NEW u \in Cutoffs(p, Covers), ScanPeer(p, t, u)
      PROVE  FALSE
  <2>1. t \in Nat /\ u \in Nat BY <1>0, CutoffsType
  <2>2. CASE session[p].state = "UNREACHABLE" BY <1>7, <2>2 DEF ScanPeer, Revived
  <2>3. CASE session[p].state # "UNREACHABLE"
    BY <1>0, <1>7, <2>1, <2>3, ScanEffect DEF LoopSound, Revived
  <2> QED BY <2>2, <2>3
<1>8. ~UNCHANGED vars BY DEF vars, Revived
<1>9. PICK p \in ExchangePeers, x \in Surb : HandleSurb(p, x) /\ HasSurb(p, x)
  BY <1>1, <1>2, <1>3, <1>4, <1>5, <1>6, <1>7, <1>8, Zenon DEF Next, PacketStep
<1>10. p = q BY <1>0, <1>9, HandleSurbEffect DEF Revived
<1> QED BY <1>9, <1>10

\* An UNREACHABLE peer becomes REACHABLE only in _handle_surb, with the SURB
\* of something that really left for it.
THEOREM RevivedByAckAlways == Spec => RevivedByAck
<1> DEFINE Step == \A p \in ExchangePeers :
                     session[p].state = "UNREACHABLE" /\ session'[p].state # "UNREACHABLE" =>
                       \E x \in InFlight(session[p]) :
                         /\ session[p].pending[x].sentAt # 0
                         /\ <<p, x>> \in flight \ flight'
<1>1. ASSUME IInv, [Next]_vars PROVE Step
  <2> SUFFICES ASSUME NEW p \in ExchangePeers, Revived(p)
               PROVE  \E x \in InFlight(session[p]) :
                        /\ session[p].pending[x].sentAt # 0
                        /\ <<p, x>> \in flight \ flight'
    BY DEF Revived
  <2>1. PICK x \in Surb : HandleSurb(p, x) /\ HasSurb(p, x) BY <1>1, OnlyAckRevives
  <2>2. <<p, x>> \in flight /\ <<p, x>> \notin flight' BY <2>1 DEF HandleSurb
  <2>3. x \in InFlight(session[p]) /\ session[p].pending[x].tracked
    BY <2>1 DEF HasSurb, InFlight
  <2>4. session[p].pending[x].sentAt # 0
    BY <1>1, <2>2, <2>3 DEF IInv, CopiesSound, PacketsSound
  <2> QED BY <2>2, <2>3, <2>4
<1>2. IInv /\ [Next]_vars => [Step]_vars BY <1>1
<1>3. RevivedByAck <=> [][Step]_vars BY DEF RevivedByAck
<1> HIDE DEF Step
<1> QED BY Invariance, <1>2, <1>3, PTL DEF Spec

-----------------------------------------------------------------------------
(* The sending side implements Delivery: what each step is to the promise. *)

Queued(p, m) ==
    LET last == <<m, sends[p][m]>>
    IN  \/ \E c \in Clients : InJob(c, p, last)
        \/ <<p, last>> \in outbox

WasSent(p, m) == session[p].pending[<<m, sends[p][m]>>].sentAt # 0

Phases ==
    \A p \in Peers, m \in Fragments :
      PhaseOf(p, m) = IF sends[p][m] = 0 THEN "idle"
                      ELSE IF Queued(p, m) THEN "queued"
                      ELSE IF WasSent(p, m) THEN "out" ELSE "closed"

LEMMA PhasesNow == TypeOK => Phases
<1> SUFFICES ASSUME TypeOK, NEW p \in Peers, NEW m \in Fragments
             PROVE  PhaseOf(p, m) = IF sends[p][m] = 0 THEN "idle"
                                    ELSE IF Queued(p, m) THEN "queued"
                                    ELSE IF WasSent(p, m) THEN "out" ELSE "closed"
  BY DEF Phases
<1>1. sends[p][m] \in Nat BY DEF TypeOK, Fragments
<1> QED BY <1>1 DEF PhaseOf, Queued, InJob, WasSent

LEMMA PhasesThen == TypeOK' => Phases'
BY PhasesNow, PTL

\* The last copies of P move to ph.
PhasesMove(P, ph) ==
    \A p \in Peers, m \in Fragments :
      PhaseOf(p, m)' = IF <<p, m>> \in P THEN ph ELSE PhaseOf(p, m)

LEMMA MoveTo ==
    ASSUME NEW P, NEW ph, PhasesMove(P, ph)
    PROVE  Promise!MoveTo(P, ph)
BY DEF PhasesMove, Promise!MoveTo

\* A step that the promise does not see.
Unseen == /\ PhasesMove({}, "closed") /\ sends' = sends
          /\ answered' = answered /\ exhausted' = exhausted

LEMMA UnseenStutters ==
    ASSUME Unseen
    PROVE  UNCHANGED Promise!vars
<1>1. [p \in Peers |-> [m \in Fragments |-> PhaseOf(p, m)]]'
        = [p \in Peers |-> [m \in Fragments |-> PhaseOf(p, m)]]
  BY DEF Unseen, PhasesMove
<1> QED BY <1>1 DEF Unseen, Promise!vars

\* The phases stay as long as the last copies are queued and stamped as before.
LEMMA PhasesKept ==
    ASSUME TypeOK, TypeOK', sends' = sends,
           \A p \in Peers, m \in Fragments : sends[p][m] # 0 =>
             /\ Queued(p, m)' <=> Queued(p, m)
             /\ WasSent(p, m)' <=> WasSent(p, m)
    PROVE  PhasesMove({}, "closed")
BY PhasesNow, PhasesThen DEF Phases, PhasesMove

\* A copy that was made is of a peer the node exchanges with and has a SURB.
LEMMA LastCopy ==
    ASSUME IInv, NEW p \in Peers, NEW m \in Fragments, sends[p][m] # 0
    PROVE  /\ p \in ExchangePeers /\ m \in Payload
           /\ sends[p][m] \in 1..MaxSends /\ <<m, sends[p][m]>> \in Surb
<1>1. p \in ExchangePeers /\ sends[p][m] <= 1 + MaxResends
  BY DEF IInv, CopiesSound, RetriesSound
<1>2. m \in Payload /\ sends[p][m] \in Nat BY DEF IInv, TypeOK, Fragments
<1>3. sends[p][m] \in 1..MaxSends BY <1>1, <1>2, SessionAssumption, ResendAssumption
<1> QED BY <1>1, <1>2, <1>3 DEF Surb

\* Steps of the learner, the loop, the network and the executor that touch no
\* job, no queue and no stamp.
LEMMA QuietUnseen ==
    ASSUME IInv, IInv',
           UNCHANGED <<job, outbox, sends, answered, exhausted>>,
           \A p \in ExchangePeers, x \in Surb :
             session'[p].pending[x].sentAt = session[p].pending[x].sentAt
    PROVE  Unseen
<1>1. ASSUME NEW p \in Peers, NEW m \in Fragments, sends[p][m] # 0
      PROVE  /\ Queued(p, m)' <=> Queued(p, m)
             /\ WasSent(p, m)' <=> WasSent(p, m)
  <2>1. p \in ExchangePeers /\ <<m, sends[p][m]>> \in Surb BY <1>1, LastCopy
  <2> QED BY <2>1 DEF Queued, InJob, WasSent
<1>2. TypeOK /\ TypeOK' BY DEF IInv
<1> QED BY <1>1, <1>2, PhasesKept DEF Unseen

LEMMA TrackUnseen ==
    ASSUME IInv, IInv', NEW c \in Clients, Track(c)
    PROVE  Unseen
<1> DEFINE q == job[c].peer
           b == job[c].surb
           t == TrackOutbound(session[q], b)
<1>0. TypeOK /\ TypeOK' BY DEF IInv
<1>1. /\ outbox' = outbox /\ sends' = sends /\ answered' = answered /\ exhausted' = exhausted
  BY DEF Track, netVars, history
<1>2. /\ job[c] # NoJob /\ job'[c] # NoJob
      /\ job'[c].peer = q /\ job'[c].surb = b
      /\ \A d \in Clients \ {c} : job'[d] = job[d]
      /\ SessionBecomes(q, t)
  BY <1>0, TrackEffect
<1>3. /\ q \in ExchangePeers /\ b \in Surb /\ session[q].pending[b].sentAt = 0
  BY <1>0, <1>2, JobType DEF IInv, CopiesSound, JobsSound
<1>4. /\ \A x \in Surb \ {b} : t.pending[x] = session[q].pending[x]
      /\ t.pending[b].sentAt = 0
  BY <1>0, <1>3, TrackOutboundFields DEF TypeOK
<1>5. \A d \in Clients : \A p, x : InJob(d, p, x)' <=> InJob(d, p, x)
  BY <1>2 DEF InJob
<1> HIDE DEF q, b, t
<1>6. \A p \in ExchangePeers, x \in Surb :
        session'[p].pending[x].sentAt = session[p].pending[x].sentAt
  BY <1>2, <1>3, <1>4 DEF SessionBecomes
<1>7. ASSUME NEW p \in Peers, NEW m \in Fragments, sends[p][m] # 0
      PROVE  /\ Queued(p, m)' <=> Queued(p, m)
             /\ WasSent(p, m)' <=> WasSent(p, m)
  <2>1. p \in ExchangePeers /\ <<m, sends[p][m]>> \in Surb BY <1>7, LastCopy
  <2>2. Queued(p, m)' <=> Queued(p, m) BY <1>1, <1>5 DEF Queued
  <2>3. WasSent(p, m)' <=> WasSent(p, m) BY <1>1, <1>6, <2>1 DEF WasSent
  <2> QED BY <2>2, <2>3
<1> QED BY <1>0, <1>1, <1>7, PhasesKept DEF Unseen

\* The copy a client waited for moves on to the outbox.
LEMMA ResumeUnseen ==
    ASSUME IInv, IInv', NEW c \in Clients, job[c] # NoJob,
           job' = [job EXCEPT ![c] = NoJob],
           outbox' = outbox \cup {<<job[c].peer, job[c].surb>>},
           PendingKept, UNCHANGED <<sends, answered, exhausted>>
    PROVE  Unseen
<1>0. TypeOK /\ TypeOK' BY DEF IInv
<1>1. job'[c] = NoJob /\ \A d \in Clients \ {c} : job'[d] = job[d]
  BY <1>0, ResumeEffect
<1>2. ASSUME NEW p \in Peers, NEW m \in Fragments, sends[p][m] # 0
      PROVE  /\ Queued(p, m)' <=> Queued(p, m)
             /\ WasSent(p, m)' <=> WasSent(p, m)
  <2>1. p \in ExchangePeers BY <1>2, LastCopy
  <2>2. WasSent(p, m)' <=> WasSent(p, m) BY <2>1 DEF WasSent, PendingKept
  <2> DEFINE last == <<m, sends[p][m]>>
  <2>3. \A d \in Clients : InJob(d, p, last)' <=> InJob(d, p, last) /\ d # c
    BY <1>1 DEF InJob
  <2>4. <<p, last>> \in outbox' <=> <<p, last>> \in outbox \/ InJob(c, p, last)
    BY DEF InJob
  <2>5. /\ Queued(p, m) <=> (\E d \in Clients : InJob(d, p, last)) \/ <<p, last>> \in outbox
        /\ Queued(p, m)' <=> (\E d \in Clients : InJob(d, p, last)') \/ <<p, last>> \in outbox'
    BY DEF Queued
  <2>6. Queued(p, m)' <=> Queued(p, m)
    <3> HIDE DEF last
    <3> QED BY <2>3, <2>4, <2>5
  <2> QED BY <2>2, <2>6
<1> QED BY <1>0, <1>2, PhasesKept DEF Unseen

\* A new copy of a fragment is a Transmit: the one before has left, and the
\* cap of resends was not reached.
LEMMA StartTransmits ==
    ASSUME IInv, IInv', NEW c \in Clients, NEW p \in ExchangePeers, NEW m \in Payload,
           job[c] = NoJob, StartJob(c, p, m), FirstCopy(c, p, m) \/ NextCopy(c, p, m),
           c = "resend" => pc = "work",
           UNCHANGED <<session, outbox, answered, exhausted>>
    PROVE  /\ m \in Fragments => Promise!Transmit(p, m)
           /\ m \notin Fragments => UNCHANGED Promise!vars
<1> DEFINE n == sends[p][m]
           b == <<m, n + 1>>
<1>0. TypeOK /\ TypeOK' /\ LoopSound /\ CopiesSound /\ p \in Peers /\ n \in Nat
  BY DEF IInv, TypeOK
<1>1. /\ job' \in [Clients -> {NoJob} \cup Jobs]
      /\ job'[c] # NoJob /\ job'[c].stage = "crypto" /\ job'[c].peer = p
      /\ job'[c].surb = b
      /\ b \in Surb
      /\ \A d \in Clients \ {c} : job'[d] = job[d]
      /\ sends' \in [Peers -> [Payload -> Nat]]
      /\ sends'[p][m] = n + 1
      /\ \A q \in Peers, k \in Payload : <<q, k>> # <<p, m>> => sends'[q][k] = sends[q][k]
  BY <1>0, StartEffect
<1>2. \/ n = 0
      \/ session[p].pending[<<m, n>>].sentAt # 0
  BY <1>0 DEF FirstCopy, NextCopy, CopiesSound, StaleSound
<1>3. /\ \A d \in Clients : job[d] # NoJob => ~(job[d].peer = p /\ job[d].surb[1] = m)
      /\ \A o \in outbox : ~(o[1] = p /\ o[2][1] = m)
  BY <1>0, <1>2, NothingQueued DEF CopiesSound
<1>4. ASSUME NEW q \in Peers, NEW k \in Fragments, <<q, k>> # <<p, m>>
      PROVE  PhaseOf(q, k)' = PhaseOf(q, k)
  <2>1. k \in Payload /\ sends'[q][k] = sends[q][k] BY <1>1, <1>4 DEF Fragments
  <2>2. WasSent(q, k)' <=> WasSent(q, k) BY <2>1 DEF WasSent
  <2>3. \A d \in Clients : \A x : x[1] = k => (InJob(d, q, x)' <=> InJob(d, q, x))
    <3> SUFFICES ASSUME NEW d \in Clients, NEW x, x[1] = k
                 PROVE  InJob(d, q, x)' <=> InJob(d, q, x)
      OBVIOUS
    <3>1. CASE d # c
      <4>1. job'[d] = job[d] BY <1>1, <3>1
      <4> QED BY <4>1 DEF InJob
    <3>2. CASE d = c
      <4>1. ~InJob(d, q, x)' BY <1>1, <1>4, <3>2 DEF InJob
      <4> QED BY <3>2, <4>1 DEF InJob
    <3> QED BY <3>1, <3>2
  <2>4. Queued(q, k)' <=> Queued(q, k) BY <2>1, <2>3 DEF Queued
  <2> QED BY <1>0, <2>1, <2>2, <2>4, PhasesNow, PhasesThen DEF Phases
<1>5. CASE m \in Fragments
  <2>1. ~Queued(p, m) BY <1>3 DEF Queued, InJob
  <2>2. PhaseOf(p, m) \in {"idle", "out"}
    BY <1>0, <1>2, <1>5, <2>1, PhasesNow DEF Phases, WasSent
  <2>3. <<m, sends'[p][m]>> = b BY <1>1
  <2>4. Queued(p, m)' BY <1>1, <2>3 DEF Queued, InJob
  <2>5. PhaseOf(p, m)' = "queued"
    <3>1. sends'[p][m] # 0 BY <1>0, <1>1
    <3> QED BY <1>0, <1>5, <2>4, <3>1, PhasesThen DEF Phases
  <2>6. PhasesMove({<<p, m>>}, "queued") BY <1>4, <2>5 DEF PhasesMove
  <2>7. n < 1 + MaxResends
    <3>1. CASE FirstCopy(c, p, m) BY <3>1, ResendAssumption DEF FirstCopy
    <3>2. CASE NextCopy(c, p, m)
      <4>1. job["resend"] = NoJob BY <3>2 DEF NextCopy
      <4>2. session[p].retries[m] = IF n = 0 THEN 0 ELSE n - 1
        BY <1>0, <1>5, <4>1 DEF CopiesSound, RetriesSound, Resending
      <4> QED BY <1>0, <3>2, <4>2, ResendAssumption DEF NextCopy
    <3> QED BY <3>1, <3>2
  <2>8. [q \in Peers |-> [k \in Fragments |-> sends'[q][k]]]
          = [[q \in Peers |-> [k \in Fragments |-> sends[q][k]]] EXCEPT ![p][m] = @ + 1]
    <3> DEFINE F == [q \in Peers |-> [k \in Fragments |-> sends[q][k]]]
    <3>1. [F EXCEPT ![p][m] = @ + 1]
            = [q \in Peers |-> [k \in Fragments |->
                 IF q = p /\ k = m THEN F[p][m] + 1 ELSE F[q][k]]]
      BY <1>0, <1>5
    <3>2. \A q \in Peers, k \in Fragments :
            sends'[q][k] = IF q = p /\ k = m THEN F[p][m] + 1 ELSE F[q][k]
      BY <1>0, <1>1, <1>5 DEF Fragments
    <3> HIDE DEF F
    <3>3. [q \in Peers |-> [k \in Fragments |-> sends'[q][k]]] = [F EXCEPT ![p][m] = @ + 1]
      BY <3>1, <3>2
    <3> QED BY <3>3 DEF F
  <2>9. Promise!MoveTo({<<p, m>>}, "queued") BY <2>6, MoveTo
  <2>10. /\ [q \in Peers |-> [k \in Fragments |-> PhaseOf(q, k)]][p][m] \in {"idle", "out"}
         /\ [q \in Peers |-> [k \in Fragments |-> sends[q][k]]][p][m] < 1 + MaxResends
    BY <1>0, <1>5, <2>2, <2>7
  <2> QED BY <1>5, <2>8, <2>9, <2>10 DEF Promise!Transmit
<1>6. CASE m \notin Fragments
  <2>1. PhasesMove({}, "closed") BY <1>4, <1>6 DEF PhasesMove
  <2>2. \A q \in Peers, k \in Fragments : sends'[q][k] = sends[q][k]
    BY <1>1, <1>6 DEF Fragments
  <2>3. [q \in Peers |-> [k \in Fragments |-> PhaseOf(q, k)]]'
          = [q \in Peers |-> [k \in Fragments |-> PhaseOf(q, k)]]
    BY <2>1 DEF PhasesMove
  <2> QED BY <1>6, <2>2, <2>3 DEF Promise!vars
<1> QED BY <1>5, <1>6

\* A copy the mixer sends departs, or is closed when nobody waits for its
\* answer any more; one it drops is closed.
LEMMA DispatchIsPromised ==
    ASSUME IInv, IInv', NEW p \in ExchangePeers, NEW b \in Surb,
           DispatchSend(p, b) \/ DispatchDead(p, b)
    PROVE  \/ \E m \in Fragments : Promise!Depart(p, m)
           \/ \E P \in SUBSET (Peers \X Fragments) : Promise!Close(P)
           \/ UNCHANGED Promise!vars
<1> DEFINE m == b[1]
<1>0. TypeOK /\ TypeOK' /\ CopiesSound /\ p \in Peers /\ m \in Payload
  BY DEF IInv, TypeOK, Surb
<1>1. /\ <<p, b>> \in outbox /\ outbox' = outbox \ {<<p, b>>}
      /\ job' = job /\ sends' = sends /\ answered' = answered /\ exhausted' = exhausted
  BY DEF DispatchSend, DispatchDead, history
<1>2. /\ b = <<m, sends[p][m]>> /\ sends[p][m] # 0
      /\ session[p].pending[b].sentAt = 0
  <2>1. b[2] = sends[p][m] /\ b[2] \in 1..MaxSends /\ b = <<b[1], b[2]>>
        /\ session[p].pending[b].sentAt = 0
    BY <1>0, <1>1 DEF CopiesSound, PacketsSound, Surb
  <2> QED BY <2>1, SessionAssumption
<1>3. \A q \in ExchangePeers, x \in Surb :
        <<q, x>> # <<p, b>> => session'[q].pending[x].sentAt = session[q].pending[x].sentAt
  <2>1. CASE DispatchSend(p, b) BY <1>0, <2>1, DispatchSendEffect
  <2>2. CASE DispatchDead(p, b) BY <2>2 DEF DispatchDead
  <2> QED BY <2>1, <2>2
<1>4. \A c \in Clients : ~InJob(c, p, b)
  BY <1>0, <1>1 DEF CopiesSound, JobsSound, InJob
<1> HIDE DEF m
<1>5. ASSUME NEW q \in Peers, NEW k \in Fragments, <<q, k>> # <<p, m>>
      PROVE  PhaseOf(q, k)' = PhaseOf(q, k)
  <2>1. CASE sends[q][k] = 0 BY <1>0, <1>1, <2>1, PhasesNow, PhasesThen DEF Phases
  <2>2. CASE sends[q][k] # 0
    <3>1. q \in ExchangePeers /\ <<k, sends[q][k]>> \in Surb BY <2>2, LastCopy
    <3>2. <<q, <<k, sends[q][k]>>>> # <<p, b>> BY <1>2, <1>5
    <3>3. WasSent(q, k)' <=> WasSent(q, k) BY <1>1, <1>3, <3>1, <3>2 DEF WasSent
    <3>4. Queued(q, k)' <=> Queued(q, k) BY <1>1, <3>2 DEF Queued, InJob
    <3> QED BY <1>0, <1>1, <3>3, <3>4, PhasesNow, PhasesThen DEF Phases
  <2> QED BY <2>1, <2>2
<1>6. CASE m \notin Fragments
  <2>1. PhasesMove({}, "closed") BY <1>5, <1>6 DEF PhasesMove
  <2> QED BY <1>1, <2>1, UnseenStutters DEF Unseen
<1>7. CASE m \in Fragments
  <2>1. Queued(p, m) BY <1>1, <1>2 DEF Queued
  <2>2. PhaseOf(p, m) = "queued" BY <1>0, <1>2, <1>7, <2>1, PhasesNow DEF Phases
  <2>3. ~Queued(p, m)' BY <1>1, <1>2, <1>4 DEF Queued, InJob
  <2>4. PhaseOf(p, m)' = IF WasSent(p, m)' THEN "out" ELSE "closed"
    BY <1>0, <1>1, <1>2, <1>7, <2>3, PhasesThen DEF Phases
  <2>5. [q \in Peers |-> [k \in Fragments |-> PhaseOf(q, k)]][p][m] = "queued"
    BY <1>0, <1>7, <2>2
  <2>6. UNCHANGED <<[q \in Peers |-> [k \in Fragments |-> sends[q][k]]],
                    answered \cap (Peers \X Fragments), exhausted>>
    BY <1>1
  <2>7. CASE WasSent(p, m)'
    <3>1. PhasesMove({<<p, m>>}, "out") BY <1>5, <2>4, <2>7 DEF PhasesMove
    <3>2. Promise!MoveTo({<<p, m>>}, "out") BY <3>1, MoveTo
    <3>3. Promise!Depart(p, m) BY <2>5, <2>6, <3>2 DEF Promise!Depart
    <3> QED BY <1>7, <3>3
  <2>8. CASE ~WasSent(p, m)'
    <3>1. PhasesMove({<<p, m>>}, "closed") BY <1>5, <2>4, <2>8 DEF PhasesMove
    <3>2. Promise!MoveTo({<<p, m>>}, "closed") BY <3>1, MoveTo
    <3>3. Promise!Close({<<p, m>>}) BY <2>5, <2>6, <3>2 DEF Promise!Close
    <3>4. {<<p, m>>} \in SUBSET (Peers \X Fragments) BY <1>0, <1>7
    <3> QED BY <3>3, <3>4
  <2> QED BY <2>7, <2>8
<1> QED BY <1>6, <1>7

\* What a scan clears of sent fragments was acknowledged.
LEMMA ScanCloses ==
    ASSUME IInv, IInv', NEW p \in ExchangePeers, NEW t \in Nat, NEW u \in Nat,
           ScanPeer(p, t, u)
    PROVE  \E P \in SUBSET (Peers \X Fragments) : Promise!Close(P)
<1> DEFINE P == {pm \in Peers \X Fragments :
                   PhaseOf(pm[1], pm[2]) = "out" /\ pm \in answered
                     /\ ~WasSent(pm[1], pm[2])'}
<1>0. TypeOK /\ TypeOK' /\ CopiesSound /\ LoopSound BY DEF IInv
<1>1. /\ job' = job /\ sends' = sends /\ answered' = answered /\ exhausted' = exhausted
      /\ outbox' = outbox
  BY DEF ScanPeer, netVars, history
<1>2. \A q \in ExchangePeers, x \in Surb :
        \/ session'[q].pending[x].sentAt = session[q].pending[x].sentAt
        \/ /\ session'[q].pending[x].sentAt = 0
           /\ session[q].pending[x].acked \/ x[1] \in Covers
  <2>1. CASE session[p].state = "UNREACHABLE" BY <2>1 DEF ScanPeer
  <2>2. CASE session[p].state # "UNREACHABLE"
    <3>1. pc = "scan" => stale = {} BY <1>0 DEF LoopSound
    <3>2. \A q \in ExchangePeers, x \in Surb :
            \/ /\ session'[q].pending[x].tracked <=> session[q].pending[x].tracked
               /\ session'[q].pending[x].sentAt = session[q].pending[x].sentAt
               /\ session'[q].pending[x].acked <=> session[q].pending[x].acked
               /\ session'[q].pending[x].pendingResend <=>
                    session[q].pending[x].pendingResend \/ <<q, x>> \in stale'
            \/ /\ ~session'[q].pending[x].tracked /\ session'[q].pending[x].sentAt = 0
               /\ session[q].pending[x].acked \/ x[1] \in Covers
      BY <1>0, <2>2, <3>1, ScanEffect
    <3> QED BY <3>2
  <2> QED BY <2>1, <2>2
<1>3. ASSUME NEW q \in Peers, NEW k \in Fragments
      PROVE  PhaseOf(q, k)' = IF <<q, k>> \in P THEN "closed" ELSE PhaseOf(q, k)
  <2>0. <<q, k>> \in P <=> PhaseOf(q, k) = "out" /\ <<q, k>> \in answered /\ ~WasSent(q, k)'
    OBVIOUS
  <2> HIDE DEF P
  <2>1. CASE sends[q][k] = 0
    BY <1>0, <1>1, <2>0, <2>1, PhasesNow, PhasesThen DEF Phases
  <2>2. CASE sends[q][k] # 0
    <3> DEFINE x == <<k, sends[q][k]>>
    <3>1. q \in ExchangePeers /\ x \in Surb /\ x[1] = k /\ k \notin Covers
      BY <2>2, LastCopy DEF Fragments
    <3>2. Queued(q, k)' <=> Queued(q, k) BY <1>1 DEF Queued, InJob
    <3>3. /\ WasSent(q, k) <=> session[q].pending[x].sentAt # 0
          /\ WasSent(q, k)' <=> session'[q].pending[x].sentAt # 0
      BY <1>1 DEF WasSent
    <3>4. session[q].pending[x].sentAt # 0 => session[q].pending[x].tracked
      BY <1>0, <3>1 DEF CopiesSound, TrackedSound
    <3>5. session[q].pending[x].tracked /\ session[q].pending[x].acked =>
            <<q, k>> \in answered
      BY <1>0, <3>1 DEF CopiesSound, TrackedSound
    <3>6. \/ session'[q].pending[x].sentAt = session[q].pending[x].sentAt
          \/ /\ session'[q].pending[x].sentAt = 0
             /\ session[q].pending[x].acked
      BY <1>2, <3>1
    <3> HIDE DEF x
    <3>7. WasSent(q, k)' => WasSent(q, k) BY <3>3, <3>6
    <3>8. WasSent(q, k) /\ ~WasSent(q, k)' => <<q, k>> \in answered
      BY <3>3, <3>4, <3>5, <3>6
    <3> QED
      BY <1>0, <1>1, <2>0, <2>2, <3>2, <3>7, <3>8, PhasesNow, PhasesThen DEF Phases
  <2> QED BY <2>1, <2>2
<1>4. \A pm \in P : pm[1] \in Peers /\ pm[2] \in Fragments /\ PhaseOf(pm[1], pm[2]) = "out"
                    /\ pm \in answered /\ pm \in Peers \X Fragments
  OBVIOUS
<1>5. P \in SUBSET (Peers \X Fragments) OBVIOUS
<1> HIDE DEF P
<1>6. PhasesMove(P, "closed") BY <1>3 DEF PhasesMove
<1>7. Promise!MoveTo(P, "closed") BY <1>6, MoveTo
<1>8. UNCHANGED <<[q \in Peers |-> [k \in Fragments |-> sends[q][k]]],
                  answered \cap (Peers \X Fragments), exhausted>>
  BY <1>1
<1>9. \A pm \in P :
        [q \in Peers |-> [k \in Fragments |-> PhaseOf(q, k)]][pm[1]][pm[2]] = "out"
        /\ pm \in answered \cap (Peers \X Fragments)
  BY <1>4
<1>10. Promise!Close(P) BY <1>7, <1>8, <1>9 DEF Promise!Close
<1> QED BY <1>5, <1>10

LEMMA SurbParts ==
    ASSUME NEW b \in Surb
    PROVE  b[1] \in Payload /\ b[2] \in 1..MaxSends /\ b = <<b[1], b[2]>>
BY DEF Surb

\* An acknowledgement is one of a copy that has left.
LEMMA HandleSurbAcknowledges ==
    ASSUME IInv, IInv', NEW p \in ExchangePeers, NEW b \in Surb, HandleSurb(p, b)
    PROVE  \/ \E m \in Fragments : Promise!Acknowledge(p, m)
           \/ UNCHANGED Promise!vars
<1> DEFINE m == b[1]
<1>0. TypeOK /\ TypeOK' /\ CopiesSound /\ p \in Peers /\ m \in Payload
      /\ b[2] \in 1..MaxSends /\ b = <<m, b[2]>>
  BY SurbParts DEF IInv, TypeOK
<1>1. /\ <<p, b>> \in flight
      /\ job' = job /\ outbox' = outbox /\ sends' = sends /\ exhausted' = exhausted
  BY DEF HandleSurb
<1>2. CASE ~HasSurb(p, b)
  <2>1. session' = session /\ answered' = answered BY <1>2 DEF HandleSurb
  <2>2. Unseen BY <1>1, <2>1, QuietUnseen
  <2> QED BY <2>2, UnseenStutters
<1>3. CASE HasSurb(p, b)
  <2>1. answered' = answered \cup {<<p, m>>} BY <1>3 DEF HandleSurb
  <2>2. \A q \in ExchangePeers, x \in Surb :
          session'[q].pending[x].sentAt = session[q].pending[x].sentAt
    BY <1>0, <1>3, HandleSurbEffect
  <2>3. /\ session[p].pending[b].tracked
        /\ session[p].pending[b].sentAt # 0
        /\ b[2] <= sends[p][m]
    BY <1>0, <1>1, <1>3 DEF CopiesSound, PacketsSound, HasSurb, InFlight
  <2> HIDE DEF m
  <2>4. \A q \in Peers, k \in Fragments :
          sends[q][k] # 0 => /\ Queued(q, k)' <=> Queued(q, k)
                             /\ WasSent(q, k)' <=> WasSent(q, k)
    <3> SUFFICES ASSUME NEW q \in Peers, NEW k \in Fragments, sends[q][k] # 0
                 PROVE  /\ Queued(q, k)' <=> Queued(q, k)
                        /\ WasSent(q, k)' <=> WasSent(q, k)
      OBVIOUS
    <3>1. q \in ExchangePeers /\ <<k, sends[q][k]>> \in Surb BY LastCopy
    <3> QED BY <1>1, <2>2, <3>1 DEF Queued, InJob, WasSent
  <2>5. PhasesMove({}, "closed") BY <1>0, <1>1, <2>4, PhasesKept
  <2>6. [q \in Peers |-> [k \in Fragments |-> PhaseOf(q, k)]]'
          = [q \in Peers |-> [k \in Fragments |-> PhaseOf(q, k)]]
    BY <2>5 DEF PhasesMove
  <2>7. CASE m \notin Fragments
    <3>1. answered' \cap (Peers \X Fragments) = answered \cap (Peers \X Fragments)
      BY <2>1, <2>7
    <3> QED BY <1>1, <2>6, <3>1 DEF Promise!vars
  <2>8. CASE m \in Fragments
    <3>1. answered' \cap (Peers \X Fragments)
            = (answered \cap (Peers \X Fragments)) \cup {<<p, m>>}
      BY <1>0, <2>1, <2>8
    <3>2. sends[p][m] > 1 \/ PhaseOf(p, m) = "out"
      <4>1. CASE b[2] < sends[p][m] BY <1>0, <4>1 DEF TypeOK
      <4>2. CASE b[2] = sends[p][m]
        <5>1. WasSent(p, m) /\ sends[p][m] # 0
          BY <1>0, <2>3, <4>2, SessionAssumption DEF WasSent
        <5>a. <<m, sends[p][m]>> = b BY <1>0, <4>2
        <5>2. ~Queued(p, m)
          BY <1>0, <2>3, <5>a DEF Queued, InJob, CopiesSound, JobsSound, PacketsSound
        <5> QED BY <1>0, <2>8, <5>1, <5>2, PhasesNow DEF Phases
      <4>3. sends[p][m] \in Nat BY <1>0 DEF TypeOK
      <4> QED BY <1>0, <2>3, <4>1, <4>2, <4>3
    <3>3. \/ [q \in Peers |-> [k \in Fragments |-> sends[q][k]]][p][m] > 1
          \/ [q \in Peers |-> [k \in Fragments |-> PhaseOf(q, k)]][p][m] = "out"
      BY <1>0, <2>8, <3>2
    <3>4. Promise!Acknowledge(p, m)
      BY <1>1, <2>6, <3>1, <3>3 DEF Promise!Acknowledge
    <3> QED BY <2>8, <3>4
  <2> QED BY <2>7, <2>8
<1> QED BY <1>2, <1>3

\* A peer is given up when the last allowed copy has left.
LEMMA GiveUpAbandons ==
    ASSUME IInv, IInv', NEW p \in ExchangePeers, NEW b \in Surb, GiveUp(p, b)
    PROVE  \E m \in Fragments : Promise!Abandon(p, m)
<1> DEFINE m == b[1]
<1>0. TypeOK /\ TypeOK' /\ LoopSound /\ CopiesSound /\ p \in Peers
      /\ b[2] \in 1..MaxSends /\ b = <<m, b[2]>>
  BY SurbParts DEF IInv, TypeOK
<1>1. /\ <<p, b>> \in stale /\ pc = "work"
      /\ session[p].retries[m] >= MaxResends
      /\ session' = [session EXCEPT ![p].state = "UNREACHABLE"]
      /\ exhausted' = exhausted \cup {<<p, m>>}
      /\ job' = job /\ outbox' = outbox /\ sends' = sends /\ answered' = answered
  BY DEF GiveUp, RecordResendExhausted, netVars
<1>2. /\ m \in Fragments /\ m \in Payload /\ b[2] = sends[p][m] /\ sends[p][m] # 0
      /\ session[p].pending[b].sentAt # 0 /\ sends[p][m] \in Nat
  <2>1. m \in Fragments /\ b[2] = sends[p][m] /\ session[p].pending[b].sentAt # 0
    BY <1>0, <1>1 DEF CopiesSound, StaleSound
  <2>2. m \in Payload BY <2>1 DEF Fragments
  <2> QED BY <1>0, <2>1, <2>2, SessionAssumption
<1> HIDE DEF m
<1>3. PendingKept BY <1>0, <1>1, StateEffect DEF PeerStates
<1>4. PhasesMove({}, "closed")
  <2>1. ASSUME NEW q \in Peers, NEW k \in Fragments, sends[q][k] # 0
        PROVE  /\ Queued(q, k)' <=> Queued(q, k)
               /\ WasSent(q, k)' <=> WasSent(q, k)
    <3>1. q \in ExchangePeers BY <2>1, LastCopy
    <3> QED BY <1>1, <1>3, <3>1 DEF Queued, InJob, WasSent, PendingKept
  <2> QED BY <1>0, <1>1, <2>1, PhasesKept
<1>5. [q \in Peers |-> [k \in Fragments |-> PhaseOf(q, k)]]'
        = [q \in Peers |-> [k \in Fragments |-> PhaseOf(q, k)]]
  BY <1>4 DEF PhasesMove
<1>6. PhaseOf(p, m) = "out"
  <2>1. WasSent(p, m) BY <1>0, <1>2 DEF WasSent
  <2>2. ~Queued(p, m) BY <1>0, <1>2 DEF Queued, InJob, CopiesSound, JobsSound, PacketsSound
  <2> QED BY <1>0, <1>2, <2>1, <2>2, PhasesNow DEF Phases
<1>7. sends[p][m] = 1 + MaxResends
  <2>1. ~Resending(p, m) BY <1>0, <1>1 DEF LoopSound, Resending
  <2>2. session[p].retries[m] = sends[p][m] - 1 /\ sends[p][m] <= 1 + MaxResends
    BY <1>0, <1>2, <2>1 DEF CopiesSound, RetriesSound
  <2> QED BY <1>1, <1>2, <2>2, ResendAssumption
<1>8. /\ [q \in Peers |-> [k \in Fragments |-> sends[q][k]]][p][m] = 1 + MaxResends
      /\ [q \in Peers |-> [k \in Fragments |-> PhaseOf(q, k)]][p][m] = "out"
  BY <1>0, <1>2, <1>6, <1>7
<1>9. Promise!Abandon(p, m) BY <1>1, <1>5, <1>8 DEF Promise!Abandon
<1> QED BY <1>2, <1>9

LEMMA InitIsPromised == Init => Promise!Init
<1> SUFFICES ASSUME Init PROVE Promise!Init OBVIOUS
<1>1. \A p \in Peers, m \in Fragments : sends[p][m] = 0 BY DEF Init, Fragments
<1>2. \A p \in Peers, m \in Fragments : PhaseOf(p, m) = "idle" BY <1>1 DEF PhaseOf
<1>3. answered = {} /\ exhausted = {} BY DEF Init
<1> QED BY <1>1, <1>2, <1>3 DEF Promise!Init

LEMMA UnseenIsPromised ==
    ASSUME Unseen
    PROVE  [Promise!Next]_(Promise!vars)
BY UnseenStutters

LEMMA StepIsPromised ==
    ASSUME IInv, IInv', [Next]_vars
    PROVE  [Promise!Next]_(Promise!vars)
<1>0. TypeOK /\ LoopSound /\ Fresh /\ CopiesSound /\ "learner" \in Clients
      /\ "resend" \in Clients /\ ExchangePeers \subseteq Peers
  BY DEF IInv, Clients, TypeOK
<1>1. ASSUME NEW p \in Peers, NEW m \in Payload,
             m \in Fragments => Promise!Transmit(p, m),
             m \notin Fragments => UNCHANGED Promise!vars
      PROVE  [Promise!Next]_(Promise!vars)
  BY <1>1 DEF Promise!Next
<1>2. CASE BeginChunk
  <2>1. PICK m \in Payload : m = Head(script) /\ \A q \in Peers : sends[q][m] = 0
    BY <1>0, <1>2 DEF BeginChunk, Fresh, TypeOK
  <2>2. /\ job["learner"] = NoJob /\ stale' = stale
        /\ UNCHANGED <<session, outbox, answered, exhausted>>
    BY <1>2 DEF BeginChunk, LearnerIdle, loopVars, netVars
  <2>3. CASE Targets(m) = {}
    <3>1. job' = job /\ sends' = sends BY <1>2, <2>1, <2>3 DEF BeginChunk
    <3>2. Unseen BY <2>2, <3>1, QuietUnseen
    <3> QED BY <3>2, UnseenIsPromised
  <2>4. CASE Targets(m) # {}
    <3>1. PICK p \in Targets(m) : StartJob("learner", p, m) BY <1>2, <2>1, <2>4 DEF BeginChunk
    <3>2. p \in ExchangePeers /\ p \in Peers BY <1>0 DEF Targets
    <3>3. FirstCopy("learner", p, m) BY <2>1, <2>2, <3>2 DEF FirstCopy
    <3>4. /\ m \in Fragments => Promise!Transmit(p, m)
          /\ m \notin Fragments => UNCHANGED Promise!vars
      BY <1>0, <2>1, <2>2, <3>1, <3>2, <3>3, StartTransmits
    <3> QED BY <1>1, <2>1, <3>2, <3>4
  <2> QED BY <2>3, <2>4
<1>3. CASE ContinueChunk
  <2>1. PICK m \in Payload, p \in sendList : m = chunk /\ StartJob("learner", p, m)
    BY <1>0, <1>3 DEF ContinueChunk, TypeOK
  <2>2. /\ job["learner"] = NoJob /\ stale' = stale
        /\ UNCHANGED <<session, outbox, answered, exhausted>>
    BY <1>3 DEF ContinueChunk, loopVars, netVars
  <2>3. p \in ExchangePeers /\ p \in Peers /\ sends[p][m] = 0
    BY <1>0, <2>1 DEF Fresh, TypeOK
  <2>4. FirstCopy("learner", p, m) BY <2>2, <2>3 DEF FirstCopy
  <2>5. /\ m \in Fragments => Promise!Transmit(p, m)
        /\ m \notin Fragments => UNCHANGED Promise!vars
    BY <1>0, <2>1, <2>2, <2>3, <2>4, StartTransmits
  <2> QED BY <1>1, <2>3, <2>5
<1>4. CASE ResumeLearner
  <2>1. /\ job["learner"] # NoJob
        /\ outbox' = outbox \cup {<<job["learner"].peer, job["learner"].surb>>}
        /\ job' = [job EXCEPT !["learner"] = NoJob]
        /\ session' = session /\ sends' = sends
        /\ answered' = answered /\ exhausted' = exhausted
    BY <1>4 DEF ResumeLearner, history, NoJob
  <2>2. PendingKept BY <2>1 DEF PendingKept, ExchangePeers
  <2>3. Unseen BY <1>0, <2>1, <2>2, ResumeUnseen
  <2> QED BY <2>3, UnseenIsPromised
<1>5. CASE NextRound \/ (\E r \in 1..NRounds : Intake(r)) \/ WakeUp \/ Sleep \/ UNCHANGED vars
  <2>1. UNCHANGED <<session, job, outbox, sends, answered, exhausted>>
    BY <1>5 DEF NextRound, Intake, WakeUp, Sleep, vars, netVars, history
  <2>2. Unseen BY <2>1, QuietUnseen
  <2> QED BY <2>2, UnseenIsPromised
<1>6. CASE \E c \in Clients : Track(c)
  <2>1. Unseen BY <1>6, TrackUnseen
  <2> QED BY <2>1, UnseenIsPromised
<1>7. ASSUME NEW p \in ExchangePeers, NEW x \in Surb, PacketStep(p, x)
      PROVE  [Promise!Next]_(Promise!vars)
  <2>0. p \in Peers BY <1>0
  <2>1. CASE DispatchSend(p, x) \/ DispatchDead(p, x)
    <3>1. \/ \E m \in Fragments : Promise!Depart(p, m)
          \/ \E P \in SUBSET (Peers \X Fragments) : Promise!Close(P)
          \/ UNCHANGED Promise!vars
      BY <2>1, DispatchIsPromised
    <3> QED BY <2>0, <3>1 DEF Promise!Next
  <2>2. CASE HandleSurb(p, x)
    <3>1. \/ \E m \in Fragments : Promise!Acknowledge(p, m)
          \/ UNCHANGED Promise!vars
      BY <2>2, HandleSurbAcknowledges
    <3> QED BY <2>0, <3>1 DEF Promise!Next
  <2>3. CASE GiveUp(p, x)
    <3>1. \E m \in Fragments : Promise!Abandon(p, m) BY <2>3, GiveUpAbandons
    <3> QED BY <2>0, <3>1 DEF Promise!Next
  <2>4. CASE Lose(p, x)
    <3>1. UNCHANGED <<session, job, outbox, sends, answered, exhausted>>
      BY <2>4 DEF Lose, history
    <3>2. Unseen BY <3>1, QuietUnseen
    <3> QED BY <3>2, UnseenIsPromised
  <2>5. CASE WaitForFragment(p, x)
    <3>1. UNCHANGED <<job, outbox, sends, answered, exhausted>>
      BY <2>5 DEF WaitForFragment, history, netVars
    <3>2. \A q \in ExchangePeers, y \in Surb :
            session'[q].pending[y].sentAt = session[q].pending[y].sentAt
      BY <1>0, <2>5, WaitEffect
    <3>3. Unseen BY <3>1, <3>2, QuietUnseen
    <3> QED BY <3>3, UnseenIsPromised
  <2>6. CASE StartResend(p, x)
    <3>1. /\ <<p, x>> \in stale /\ stale' = stale \ {<<p, x>>} /\ pc = "work"
          /\ StartJob("resend", p, x[1])
          /\ UNCHANGED <<session, outbox, answered, exhausted>>
      BY <2>6 DEF StartResend, netVars
    <3>2. x = <<x[1], sends[p][x[1]]>> /\ session[p].retries[x[1]] < MaxResends
      BY <2>6, StartResendKeeps
    <3>3. x[1] \in Payload BY DEF Surb
    <3>4. NextCopy("resend", p, x[1]) BY <3>1, <3>2 DEF NextCopy
    <3>5. job["resend"] = NoJob BY <1>0, <3>1 DEF LoopSound
    <3>6. /\ x[1] \in Fragments => Promise!Transmit(p, x[1])
          /\ x[1] \notin Fragments => UNCHANGED Promise!vars
      BY <1>0, <3>1, <3>3, <3>4, <3>5, StartTransmits
    <3> QED BY <1>1, <2>0, <3>3, <3>6
  <2> QED BY <1>7, <2>1, <2>2, <2>3, <2>4, <2>5, <2>6, Zenon DEF PacketStep
<1>8. CASE \E p \in ExchangePeers : LinkLost(p)
  <2>1. UNCHANGED <<job, outbox, sends, answered, exhausted>>
    BY <1>8 DEF LinkLost, history, netVars
  <2>2. PendingKept BY <1>0, <1>8, StateEffect DEF LinkLost, PeerStates
  <2>3. Unseen BY <2>1, <2>2, QuietUnseen DEF PendingKept
  <2> QED BY <2>3, UnseenIsPromised
<1>9. CASE ResumeResend
  <2>1. /\ job["resend"] # NoJob
        /\ outbox' = outbox \cup {<<job["resend"].peer, job["resend"].surb>>}
        /\ job' = [job EXCEPT !["resend"] = NoJob]
        /\ session' = [session EXCEPT ![job["resend"].peer] =
                         BumpRetryCount(session[job["resend"].peer], job["resend"].surb[1])]
        /\ sends' = sends /\ answered' = answered /\ exhausted' = exhausted
    BY <1>9 DEF ResumeResend, history, NoJob
  <2>2. job["resend"].peer \in ExchangePeers /\ job["resend"].surb[1] \in Payload
    BY <1>0, <2>1, JobType
  <2>3. PendingKept
    <3> DEFINE t == BumpRetryCount(session[job["resend"].peer], job["resend"].surb[1])
    <3>1. t \in Sessions /\ t.pending = session[job["resend"].peer].pending
      BY <1>0, <2>2, BumpFields DEF TypeOK
    <3>2. session' = [session EXCEPT ![job["resend"].peer] = t] BY <2>1
    <3> HIDE DEF t
    <3>3. SessionBecomes(job["resend"].peer, t) BY <1>0, <2>2, <3>1, <3>2, OneSession
    <3> QED BY <3>1, <3>3 DEF SessionBecomes, PendingKept
  <2>4. Unseen BY <1>0, <2>1, <2>3, ResumeUnseen
  <2> QED BY <2>4, UnseenIsPromised
<1>10. ASSUME NEW p \in ExchangePeers, NEW t \in Cutoffs(p, Fragments),
              NEW u \in Cutoffs(p, Covers), ScanPeer(p, t, u)
       PROVE  [Promise!Next]_(Promise!vars)
  <2>1. t \in Nat /\ u \in Nat BY <1>0, CutoffsType
  <2>2. \E P \in SUBSET (Peers \X Fragments) : Promise!Close(P) BY <1>10, <2>1, ScanCloses
  <2> QED BY <2>2 DEF Promise!Next
<1> QED
  BY <1>2, <1>3, <1>4, <1>5, <1>6, <1>7, <1>8, <1>9, <1>10, Zenon DEF Next, PacketStep

\* The learner, the executor, the mixer and the resend loop together keep the
\* promise of Delivery, step by step: at most 1 + MAX_RESENDS copies of a
\* fragment, one of them queued at a time, acknowledged only after one left,
\* and given up only when the last has left.
THEOREM KeepsPromiseAlways == Spec => KeepsPromise
<1>1. Init => Promise!Init BY InitIsPromised
<1>2. IInv /\ IInv' /\ [Next]_vars => [Promise!Next]_(Promise!vars) BY StepIsPromised
<1>3. KeepsPromise <=> Promise!Init /\ [][Promise!Next]_(Promise!vars)
  BY DEF KeepsPromise, Promise!Spec
<1> QED BY Invariance, <1>1, <1>2, <1>3, PTL DEF Spec
=============================================================================
