----------------------------- MODULE PeerSession -----------------------------
(***************************************************************************)
(* What a node remembers about one peer (peer_session.py): its state, the  *)
(* fragments in flight to it, one per SURB, and the evidence of life.  The *)
(* operators take a session and return the session the method leaves.      *)
(*                                                                         *)
(* A SURB is named by the payload it acknowledges and by which             *)
(* transmission of it it travels with; payload_hash is the payload itself, *)
(* and _payload_to_surbs, always updated together with _pending, is the    *)
(* operator Carriers.  Times are positions in the order of the events that *)
(* are stamped, 0 for None.                                                *)
(***************************************************************************)
EXTENDS Integers, FiniteSets

CONSTANTS
    Payload,        \* payloads sent to peers: model fragments and probes
    Covers,         \* the payloads sent with is_cover (probes)
    MaxSends        \* bound: transmissions of one payload that have a name

ASSUME SessionAssumption ==
    /\ Covers \subseteq Payload
    /\ MaxSends \in Nat \ {0}

PeerStates == {"PENDING", "REACHABLE", "UNREACHABLE"}
Surb == Payload \X (1..MaxSends)
Fragments == Payload \ Covers

\* A SURB that is no key of _pending.
Untracked == [tracked |-> FALSE, sentAt |-> 0, acked |-> FALSE,
              pendingResend |-> FALSE]

NewSession(state) ==
    [state |-> state, pending |-> [x \in Surb |-> Untracked],
     retries |-> [m \in Payload |-> 0], lastSurbAt |-> 0]

\* The keys of _pending.
InFlight(s) == {x \in Surb : s.pending[x].tracked}

\* _payload_to_surbs[m]
Carriers(s, m) == {x \in InFlight(s) : x[1] = m}

TrackOutbound(s, surb) ==
    [s EXCEPT !.pending[surb] = [Untracked EXCEPT !.tracked = TRUE]]

\* Mutant: every transmission counts.
TrackCountsEachCopy(s, surb) == surb[1] \notin Covers

\* Only the first transmission of a logical message counts for UNACKED_MSG.
TrackCounts(s, surb) == surb[1] \notin Covers /\ Carriers(s, surb[1]) \ {surb} = {}

\* Mutant: a packet that left is taken for evidence of life.
MarkSentRevives(s, surb, now) ==
    IF surb \in InFlight(s)
    THEN [s EXCEPT !.pending[surb].sentAt = now, !.state = "REACHABLE"] ELSE s

MarkSent(s, surb, now) ==
    IF surb \in InFlight(s) THEN [s EXCEPT !.pending[surb].sentAt = now] ELSE s

\* Whether an ack decrements UNACKED_MSG.
AckCounts(s, surb) == surb[1] \notin Covers /\ ~s.pending[surb].acked

\* record_surb_ack, which calls mark_acked, for a SURB the session knows:
\* every copy of the payload tracked so far is acked, and the first ack is
\* evidence of life.
RecordSurbAck(s, surb, now) ==
    LET first == ~s.pending[surb].acked /\ s.pending[surb].sentAt # 0
    IN  [s EXCEPT
           !.state = "REACHABLE",
           !.lastSurbAt = IF first THEN now ELSE @,
           !.pending = [x \in Surb |->
                          IF x \in Carriers(s, surb[1])
                          THEN [s.pending[x] EXCEPT !.acked = TRUE]
                          ELSE s.pending[x]]]

RecordResendExhausted(s) == [s EXCEPT !.state = "UNREACHABLE"]

SendTimes(s, m) == {s.pending[x].sentAt : x \in Carriers(s, m)} \ {0}

AckedSinceLastSend(s, m) ==
    /\ s.lastSurbAt # 0
    /\ SendTimes(s, m) # {}
    /\ \A t \in SendTimes(s, m) : s.lastSurbAt >= t

\* _clear_acked: acked fragments go, and covers sent before coverCutoff.
ClearAcked(s, coverCutoff) ==
    [s EXCEPT !.pending =
       [x \in Surb |->
          IF \/ s.pending[x].acked
             \/ x[1] \in Covers /\ s.pending[x].sentAt \in 1..coverCutoff - 1
          THEN Untracked ELSE s.pending[x]]]

\* The fragments get_stale_fragments reports of a session just cleared.
StaleIn(s, cutoff) ==
    {x \in InFlight(s) :
       /\ x[1] \notin Covers
       /\ s.pending[x].sentAt \in 1..cutoff - 1
       /\ ~s.pending[x].acked
       /\ ~s.pending[x].pendingResend}

SetPendingResend(s, surbs, flag) ==
    [s EXCEPT !.pending =
       [x \in Surb |->
          IF x \in surbs THEN [s.pending[x] EXCEPT !.pendingResend = flag]
          ELSE s.pending[x]]]

\* Mutant: the fragments reported as stale are not flagged.
GetStaleUnflagged(s, cutoff, coverCutoff) == ClearAcked(s, coverCutoff)

\* get_stale_fragments: what the session becomes.
GetStale(s, cutoff, coverCutoff) ==
    LET c == ClearAcked(s, coverCutoff)
    IN  SetPendingResend(c, StaleIn(c, cutoff), TRUE)

BumpRetryCount(s, m) == [s EXCEPT !.retries[m] = @ + 1]

AllAcked(s) == \A x \in InFlight(s) : s.pending[x].acked \/ x[1] \in Covers
=============================================================================
