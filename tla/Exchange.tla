------------------------------ MODULE Exchange ------------------------------
(***************************************************************************)
(* The exchange of models between whole nodes: every node broadcasts its   *)
(* fragments, waits for those of its peers, aggregates and goes on to the  *)
(* next round (learner.py, message_manager.py), while its store, sessions  *)
(* and resend loop deal with losses, late replies and dead peers.  What    *)
(* the modules on one node show in detail is one step here: a broadcast, a *)
(* received packet, a resend.  Paths are direct (max_hops = 1) and the     *)
(* graph is a full mesh.                                                   *)
(***************************************************************************)
EXTENDS Naturals, FiniteSets

CONSTANTS
    Nodes,
    NRounds,        \* n_rounds
    Parts,          \* chunk indices of a model
    MaxResends,     \* MAX_RESENDS
    FloorPct,       \* completeness_floor, in percent
    MaxLost,        \* bound: packets the network loses,
    MaxSlow,        \* or timers that run out, or replies that come, too late,
    MaxCrashes,     \* or nodes that die; one kind of fault per behaviour
    Dials           \* the pairs of which the first dials the second, by _i_dial

ASSUME ExchangeAssumption ==
    /\ IsFiniteSet(Nodes) /\ IsFiniteSet(Parts) /\ Parts # {}
    /\ NRounds \in Nat \ {0}
    /\ FloorPct \in 0..100
    /\ MaxResends \in Nat
    /\ MaxLost \in Nat /\ MaxSlow \in Nat /\ MaxCrashes \in Nat
    /\ Dials \subseteq Nodes \X Nodes

Rounds == 1..NRounds

VARIABLES
    round,          \* Learner._current_round
    stage,          \* where Learner.run stands; "done" at the barrier of
                    \* the run, where the node still answers
    bucket,         \* MessageStore._incoming, the current and later rounds
    seen,           \* MessageStore._seen_hashes: <<sender, round, part>>
    intake,         \* MessageStore._rounds_with_intake
    pending,        \* PeerSession._pending of all sessions: the fragments not
                    \* acknowledged, their copies, whether the last of these
                    \* has a timestamp, acked_since_last_send
    unreachable,    \* the peers whose session is UNREACHABLE
    unlinked,       \* the peers whose connection has ended (not has_link)
    net,            \* packets on their way
    lost, slow      \* history: packets lost; resends while packets were late

nodeVars == <<round, stage>>
storeVars == <<bucket, seen, intake>>
sessionVars == <<pending, unreachable, unlinked>>
vars == <<nodeVars, storeVars, sessionVars, net, lost, slow>>

Peers(n) == Nodes \ {n}
Alive(n) == stage[n] # "dead"

\* A fragment, a probe and the reply to either, which carries the SURB of
\* the copy it answers.
Fragment(n, d, r, c, k) ==
    [kind |-> "fragment", src |-> n, dst |-> d, round |-> r, part |-> c, copy |-> k]
Probe(n, d) ==
    [kind |-> "probe", src |-> n, dst |-> d, round |-> round[n], part |-> 0, copy |-> 0]
Reply(p) == [p EXCEPT !.kind = IF p.kind = "probe" THEN "probe reply" ELSE "reply"]

\* A tracked fragment, of which p is a copy or a reply to one.
Tracked(d, r, c, sent) ==
    [dst |-> d, round |-> r, part |-> c, copies |-> 1, sent |-> sent, answered |-> FALSE]
IsOf(p, f) == /\ p.kind \in {"fragment", "reply"}
              /\ p.dst = f.dst /\ p.round = f.round /\ p.part = f.part
Receiver(p) == IF p.kind \in {"fragment", "probe"} THEN p.dst ELSE p.src

\* Packets to a dead node go nowhere.
Deliverable(P) == { p \in P : Alive(Receiver(p)) }

\* A packet of fragment f of n, or a reply to it, is still under way.
UnderWay(n, f) == \E p \in net : p.src = n /\ IsOf(p, f)

Dead == { n \in Nodes : ~Alive(n) }

\* Bound: what is lost after the first packet is lost in the first round.
MayLose == /\ lost < MaxLost /\ slow = 0 /\ Dead = {}
           /\ lost > 0 => \A n \in Nodes : round[n] = 1
MayBeSlow == slow < MaxSlow /\ lost = 0 /\ Dead = {}
MayCrash == Cardinality(Dead) < MaxCrashes /\ lost = 0 /\ slow = 0

\* A timer runs out: early, when what it waits for is still under way.
TimedOut(early) ==
    /\ early => MayBeSlow
    /\ slow' = IF early THEN slow + 1 ELSE slow

Init ==
    /\ round = [n \in Nodes |-> 1]
    /\ stage = [n \in Nodes |-> "train"]
    /\ bucket = [n \in Nodes |-> {}]
    /\ seen = [n \in Nodes |-> {}]
    /\ intake = [n \in Nodes |-> {}]
    /\ pending = [n \in Nodes |-> {}]
    /\ unreachable = [n \in Nodes |-> {}]
    /\ unlinked = [n \in Nodes |-> {}]
    /\ net = {} /\ lost = 0 /\ slow = 0

(***************************************************************************)
(* The learner.                                                            *)
(***************************************************************************)
\* _dispatch: a packet for a peer without a connection is dropped by the mixer,
\* before it gets its timestamp.
Dispatched(n, d) == d \notin unlinked[n]

\* send_model_updates: probes to the peers given up, then the model to the
\* others.
SendModel(n) ==
    LET to == Peers(n) \ unreachable[n]
        probes == { Probe(n, d) : d \in unreachable[n] }
        model == { Fragment(n, d, round[n], c, 1) : d \in to, c \in Parts }
    IN  /\ stage[n] = "train"
        /\ stage' = [stage EXCEPT ![n] = "await"]
        /\ pending' = [pending EXCEPT ![n] =
                         @ \cup { Tracked(d, round[n], c, Dispatched(n, d)) :
                                    d \in to, c \in Parts }]
        /\ net' = net \cup Deliverable(probes \cup model)
        /\ UNCHANGED <<round, storeVars, unreachable, unlinked, lost, slow>>

Received(n) == { p \in bucket[n] : p.round = round[n] }

\* expected_count(exchange_send_count()), with partial_update_ratio = 1.
Expected(n) ==
    LET reachable == Cardinality(Peers(n) \ unreachable[n])
    IN  (IF reachable = 0 THEN 1 ELSE reachable) * Cardinality(Parts)

ReceivedAll(n) == Cardinality(Received(n)) >= Expected(n)

\* Mutant: more than the floor is needed.
FloorPassed(n) == 100 * Cardinality(Received(n)) > FloorPct * Expected(n)

FloorReached(n) == 100 * Cardinality(Received(n)) >= FloorPct * Expected(n)

\* What was collected is aggregated, the round is closed and the next begins;
\* what came of the round in between is dropped either way.
NextRound(n) ==
    /\ stage[n] = "await"
    /\ IF round[n] = NRounds
       THEN /\ stage' = [stage EXCEPT ![n] = "done"]
            /\ UNCHANGED round
       ELSE /\ stage' = [stage EXCEPT ![n] = "train"]
            /\ round' = [round EXCEPT ![n] = @ + 1]
    /\ bucket' = [bucket EXCEPT ![n] = @ \ Received(n)]
    /\ UNCHANGED <<seen, intake, sessionVars, net, lost>>

EndFull(n) == ReceivedAll(n) /\ NextRound(n) /\ UNCHANGED slow

EndStall(n) ==
    /\ ~ReceivedAll(n) /\ FloorReached(n)
    /\ TimedOut(\E p \in net : p.kind = "fragment" /\ p.dst = n /\ p.round = round[n])
    /\ NextRound(n)

(***************************************************************************)
(* The network and the packet router.                                      *)
(***************************************************************************)
\* record_surb_ack: the first acknowledgement of a fragment dates
\* _last_surb_at, which is one for all fragments to the peer; any revives it.
\* An acknowledged copy may have been cleared already: its SURB says nothing.
Acknowledge(p) ==
    LET n == p.src
        d == p.dst
        mine == { f \in pending[n] : IsOf(p, f) }
        first == p.kind \in {"probe", "probe reply"} \/ mine # {}
    IN  /\ pending' = [pending EXCEPT ![n] =
                { [f EXCEPT !.answered = @ \/ (first /\ f.dst = d)] : f \in @ \ mine }]
        /\ \E revives \in IF first THEN {TRUE} ELSE BOOLEAN :
             unreachable' = [unreachable EXCEPT ![n] = IF revives THEN @ \ {d} ELSE @]
    /\ UNCHANGED unlinked

\* The reply to p: it comes back before anything else happens, or late, or
\* never; a dead node gets none.
AnswerWithSurb(p) ==
    \/ /\ Alive(p.src) /\ Acknowledge(p)
       /\ net' = net \ {p}
       /\ UNCHANGED <<lost, slow>>
    \/ /\ Alive(p.src) /\ MayBeSlow
       /\ slow' = slow + 1 /\ net' = (net \ {p}) \cup {Reply(p)}
       /\ UNCHANGED <<sessionVars, lost>>
    \/ /\ ~Alive(p.src) \/ MayLose
       /\ lost' = IF Alive(p.src) THEN lost + 1 ELSE lost
       /\ net' = net \ {p}
       /\ UNCHANGED <<sessionVars, slow>>

\* _handle_destination: duplicates and fragments of past rounds are
\* acknowledged too.
Store(p) ==
    LET d == p.dst
        payload == <<p.src, p.round, p.part>>
        keep == payload \notin seen[d] /\ p.round >= round[d]
    IN  /\ seen' = [seen EXCEPT ![d] = @ \cup {payload}]
        /\ bucket' = [bucket EXCEPT ![d] = IF keep THEN @ \cup {p} ELSE @]
        /\ intake' = [intake EXCEPT ![d] = IF keep THEN @ \cup {p.round} ELSE @]

\* Mutant: duplicates are stored.
StoreDuplicates(p) ==
    /\ bucket' = [bucket EXCEPT ![p.dst] = IF p.round >= round[p.dst] THEN @ \cup {p} ELSE @]
    /\ intake' = [intake EXCEPT ![p.dst] = @ \cup {p.round}]
    /\ AnswerWithSurb(p) /\ UNCHANGED seen
\* Mutant: duplicates are not answered.
IgnoreDuplicates(p) ==
    \/ <<p.src, p.round, p.part>> \notin seen[p.dst] /\ Store(p) /\ AnswerWithSurb(p)
    \/ /\ <<p.src, p.round, p.part>> \in seen[p.dst] /\ net' = net \ {p}
       /\ UNCHANGED <<storeVars, sessionVars, lost, slow>>

HandleFragment(p) == Store(p) /\ AnswerWithSurb(p)

Receive(p) ==
    /\ p \in net
    /\ \/ p.kind = "fragment" /\ HandleFragment(p)
       \/ p.kind = "probe" /\ AnswerWithSurb(p) /\ UNCHANGED storeVars
    /\ UNCHANGED nodeVars

LateReply(p) ==
    /\ p \in net /\ p.kind \in {"reply", "probe reply"}
    /\ net' = net \ {p}
    /\ Acknowledge(p)
    /\ UNCHANGED <<nodeVars, storeVars, lost, slow>>

Lose(p) ==
    /\ p \in net /\ MayLose
    /\ net' = net \ {p} /\ lost' = lost + 1
    /\ UNCHANGED <<nodeVars, storeVars, sessionVars, slow>>

(***************************************************************************)
(* The resend loop.                                                        *)
(***************************************************************************)
\* A fragment the loop finds stale and does not wait for: its last copy has been
\* sent long ago.
Stale(n, f) ==
    /\ Alive(n) /\ round[n] \in intake[n]
    /\ f.dst \notin unreachable[n]
    /\ f.round \in intake[n]
    /\ f.sent /\ ~f.answered
    /\ TimedOut(UnderWay(n, f))

Resend(n, f) ==
    /\ Stale(n, f) /\ f.copies <= MaxResends
    /\ pending' = [pending EXCEPT ![n] = (@ \ {f}) \cup
                     {[f EXCEPT !.copies = @ + 1, !.sent = Dispatched(n, f.dst)]}]
    /\ net' = net \cup Deliverable({Fragment(n, f.dst, f.round, f.part, f.copies + 1)})
    /\ UNCHANGED <<nodeVars, storeVars, unreachable, unlinked, lost>>

GiveUp(n, f) ==
    /\ Stale(n, f) /\ f.copies > MaxResends
    /\ unreachable' = [unreachable EXCEPT ![n] = @ \cup {f.dst}]
    /\ UNCHANGED <<nodeVars, storeVars, pending, unlinked, net, lost>>

(***************************************************************************)
(* Nodes that die.                                                         *)
(***************************************************************************)
\* Whatever the process held is gone, packets and replies for it too.
Crash(n) ==
    /\ Alive(n) /\ MayCrash
    /\ stage' = [stage EXCEPT ![n] = "dead"]
    /\ round' = [round EXCEPT ![n] = 1]
    /\ bucket' = [bucket EXCEPT ![n] = {}]
    /\ seen' = [seen EXCEPT ![n] = {}]
    /\ intake' = [intake EXCEPT ![n] = {}]
    /\ pending' = [pending EXCEPT ![n] = {}]
    /\ unreachable' = [unreachable EXCEPT ![n] = {}]
    /\ unlinked' = [unlinked EXCEPT ![n] = {}]
    /\ net' = { p \in net : Receiver(p) # n }
    /\ UNCHANGED <<lost, slow>>

\* The connection to a dead peer ends at n.  Only if the peer has closed it, which
\* gives an empty reason, is the peer given up at once; not if n had to find
\* out by itself ("Idle timeout").
LinkLost(n, d) ==
    /\ Alive(n) /\ ~Alive(d) /\ d \notin unlinked[n]
    /\ unlinked' = [unlinked EXCEPT ![n] = @ \cup {d}]
    /\ \E reason \in {"", "Idle timeout"} :
         unreachable' = [unreachable EXCEPT ![n] = IF reason = "" THEN @ \cup {d} ELSE @]
    /\ UNCHANGED <<nodeVars, storeVars, pending, net, lost, slow>>

\* _reconnect_loop of the node that dials the pair gives the peer up after
\* RECONNECT_FAIL_LIMIT dials in vain.  The other node has no such loop.
DialFails(n, d) ==
    /\ Alive(n) /\ d \in unlinked[n] \ unreachable[n] /\ <<n, d>> \in Dials
    /\ unreachable' = [unreachable EXCEPT ![n] = @ \cup {d}]
    /\ UNCHANGED <<nodeVars, storeVars, pending, unlinked, net, lost, slow>>

Next ==
    \/ \E n \in Nodes : \/ SendModel(n) \/ EndFull(n) \/ EndStall(n) \/ Crash(n)
                        \/ \E d \in Peers(n) : LinkLost(n, d) \/ DialFails(n, d)
                        \/ \E f \in pending[n] : Resend(n, f) \/ GiveUp(n, f)
    \/ \E p \in net : Receive(p) \/ LateReply(p) \/ Lose(p)

Spec == Init /\ [][Next]_vars

(***************************************************************************)
(* Properties.                                                             *)
(***************************************************************************)
\* A round that ends because everything expected came, at a node that has
\* given nobody up, has every fragment of every peer once: the count, which
\* does not look at the senders, is not made up by resends
\* (message_store.py:116, MessageManager.await_fragments).
RoundComplete ==
    \A n \in Nodes :
      stage[n] = "await" /\ ReceivedAll(n) /\ unreachable[n] = {} =>
        \A d \in Peers(n), c \in Parts :
          Cardinality({ p \in Received(n) : p.src = d /\ p.part = c }) = 1

\* As long as no more packets are lost than a fragment is resent, and nothing
\* takes longer than the timers, no node gives up a peer that is alive
\* (resend_manager.py:90, packet_router.py:177).
LivePeerKept ==
    lost <= MaxResends /\ slow = 0 =>
      \A n \in Nodes : \A d \in unreachable[n] : ~Alive(d)

\* Nothing can happen any more but faults.
Quiescent ==
    /\ net = {}
    /\ \A n \in Nodes \ Dead :
         /\ stage[n] # "train"
         /\ stage[n] = "await" => ~ReceivedAll(n) /\ ~FloorReached(n)
         /\ Dead \subseteq unlinked[n]
         /\ \A d \in Dead : <<n, d>> \in Dials => d \in unreachable[n]
         /\ round[n] \in intake[n] =>
              \A f \in pending[n] : \/ f.dst \in unreachable[n]
                                    \/ ~f.sent
                                    \/ f.round \notin intake[n]
                                    \/ f.answered

\* One loss or one dead node never leaves a node waiting for ever: what is
\* missing is resent, given up, or not needed to end the round after a stall
\* (message_manager.py:66, resend_manager.py:72).  A node that was dialled by the
\* dead one may go on expecting its fragments; the floor has to do without them.
\* All behaviours are finite, so under weak fairness of every action but faults
\* each ends quiescent.
NobodyStuck ==
    Quiescent /\ lost <= 1 /\ slow = 0 =>
      \A n \in Nodes : stage[n] \in {"done", "dead"}
=============================================================================
