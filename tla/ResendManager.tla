---------------------------- MODULE ResendManager ----------------------------
(***************************************************************************)
(* The sending side of a node with mix_enabled: the learner broadcasting   *)
(* chunks and probes (sphinx_transport.py), the crypto executor that       *)
(* tracks a SURB in a thread of its own (sphinx_router.py), the mixer's    *)
(* outbox, the network with its peers, the acknowledgements coming back,   *)
(* and the resend loop (resend_manager.py).                                *)
(*                                                                         *)
(* All but the executor share one event loop.  While the resend loop is    *)
(* between two awaits (pc "scan" or "work") no other coroutine runs; while *)
(* it sleeps or awaits the executor any of them may.                       *)
(***************************************************************************)
EXTENDS PeerSession, Sequences, SequencesExt

CONSTANTS
    Peers,          \* the peers the node may exchange with
    JoinLater,      \* the peers that join in a later round than the node
    RoundOf,        \* the round of each payload
    Starts,         \* [peers, script]: the payloads the learner sends, in
                    \* order, and the peers it exchanges with
    NRounds,        \* bound: rounds
    MaxResends,     \* MAX_RESENDS
    Faults          \* what may go wrong: see below

\* deadHop: the next hop has no link when the mixer dispatches.
\* loss: a packet or a reply is lost on its way.
\* linkLost: a QUIC connection to the peer terminates without a reason.
FaultKinds == {"deadHop", "loss", "linkLost"}

ASSUME ResendAssumption ==
    /\ JoinLater \subseteq Peers
    /\ RoundOf \in [Payload -> 1..NRounds]
    /\ \A s \in Starts : /\ s.peers \subseteq Peers
                         /\ s.script \in Seq(Payload) /\ s.script # <<>>
                         /\ IsInjective(s.script)
    /\ IsFiniteSet(Peers) /\ IsFiniteSet(Payload)
    /\ NRounds \in Nat \ {0}
    /\ MaxResends \in Nat
    /\ MaxSends > 1 + MaxResends
    /\ Faults \subseteq FaultKinds

Clients == {"learner", "resend"}
NoJob == [stage |-> "none"]

VARIABLES
    session,        \* peer -> PeerSession
    unackedMsg,     \* MetricField.UNACKED_MSG
    clock,          \* events stamped so far
    currentRound,   \* the store's current round
    intake,         \* rounds with intake
    script,         \* what the learner has still to send
    sendList,       \* peers left of the current chunk
    chunk,          \* the current chunk, once one was begun
    job,            \* the create_forward_msg each client awaits
    outbox,         \* SURBs whose packets wait in the mixer
    flight,         \* packets under way to a peer, or their replies back
    pc,             \* where the resend loop stands
    todo,           \* sessions the resend loop has still to visit
    stale,          \* stale fragments left of the session being visited
    sends,          \* history: transmissions created, per peer and payload
    answered,       \* history: <<peer, payload>> a SURB came back for
    exhausted       \* history: <<peer, payload>> resends were given up for

loopVars == <<pc, todo, stale>>
learnerVars == <<currentRound, script, sendList, chunk>>
netVars == <<outbox, flight>>
history == <<sends, answered, exhausted>>
vars == <<session, unackedMsg, clock, intake, job, loopVars, learnerVars,
          netVars, history>>

\* get_exchange_targets: the peers the node exchanges with.
ExchangePeers == DOMAIN session

Init ==
    /\ \E start \in Starts :
         /\ session = [p \in start.peers |->
                         NewSession(IF p \in JoinLater THEN "PENDING" ELSE "REACHABLE")]
         /\ script = start.script
         /\ chunk = Head(start.script)
    /\ unackedMsg = 0
    /\ clock = 0
    /\ currentRound = 1
    /\ intake = {}
    /\ sendList = {}
    /\ job = [c \in Clients |-> NoJob]
    /\ outbox = {} /\ flight = {}
    /\ pc = "sleep" /\ todo = {} /\ stale = {}
    /\ sends = [p \in Peers |-> [m \in Payload |-> 0]]
    /\ answered = {}
    /\ exhausted = {}

\* No coroutine but the resend loop runs between two of its awaits.
LoopAwaits == pc \in {"sleep", "await"}

\* Client c calls create_forward_msg: the next transmission of m to p gets a
\* SURB and goes to the executor.
StartJob(c, p, m) ==
    /\ sends[p][m] < MaxSends
    /\ sends' = [sends EXCEPT ![p][m] = @ + 1]
    /\ job' = [job EXCEPT ![c] = [stage |-> "crypto", peer |-> p,
                                  surb |-> <<m, sends[p][m] + 1>>]]

-----------------------------------------------------------------------------
(* The learner. *)

\* send_to_peers: every exchange peer not UNREACHABLE; send_probes: the ones
\* that are.
Targets(m) ==
    {p \in ExchangePeers : (session[p].state = "UNREACHABLE") <=> (m \in Covers)}

LearnerIdle == job["learner"] = NoJob /\ sendList = {}

BeginChunk ==
    /\ LoopAwaits /\ LearnerIdle
    /\ script # <<>> /\ RoundOf[Head(script)] = currentRound
    /\ chunk' = Head(script)
    /\ script' = Tail(script)
    /\ IF Targets(Head(script)) = {}
       THEN UNCHANGED <<sendList, job, sends>>
       ELSE \E p \in Targets(Head(script)) :
              /\ sendList' = Targets(Head(script)) \ {p}
              /\ StartJob("learner", p, Head(script))
    /\ UNCHANGED <<session, unackedMsg, clock, intake, loopVars, currentRound,
                   netVars, answered, exhausted>>

ContinueChunk ==
    /\ LoopAwaits
    /\ job["learner"] = NoJob
    /\ \E p \in sendList :
         /\ sendList' = sendList \ {p}
         /\ StartJob("learner", p, chunk)
    /\ UNCHANGED <<session, unackedMsg, clock, intake, loopVars, currentRound,
                   script, chunk, netVars, answered, exhausted>>

\* The executor's thread returns the packet and the learner queues it.
ResumeLearner ==
    /\ LoopAwaits
    /\ job["learner"].stage = "tracked"
    /\ outbox' = outbox \cup {<<job["learner"].peer, job["learner"].surb>>}
    /\ job' = [job EXCEPT !["learner"] = NoJob]
    /\ UNCHANGED <<session, unackedMsg, clock, intake, loopVars, learnerVars,
                   flight, history>>

\* The learner's round ends, with or without the acknowledgements.
NextRound ==
    /\ LoopAwaits /\ LearnerIdle
    /\ script # <<>> /\ RoundOf[Head(script)] > currentRound
    /\ currentRound' = currentRound + 1
    /\ UNCHANGED <<session, unackedMsg, clock, intake, job, loopVars, script,
                   sendList, chunk, netVars, history>>

\* A fragment of round r reaches the store.
Intake(r) ==
    /\ LoopAwaits
    /\ r >= currentRound
    /\ intake' = intake \cup {r}
    /\ UNCHANGED <<session, unackedMsg, clock, job, loopVars, learnerVars,
                   netVars, history>>

-----------------------------------------------------------------------------
(* The executor, which runs beside the event loop. *)

Track(c) ==
    /\ job[c].stage = "crypto"
    /\ LET p == job[c].peer
       IN  /\ session' = [session EXCEPT ![p] = TrackOutbound(@, job[c].surb)]
           /\ unackedMsg' = IF TrackCounts(session[p], job[c].surb)
                            THEN unackedMsg + 1 ELSE unackedMsg
    /\ job' = [job EXCEPT ![c].stage = "tracked"]
    /\ UNCHANGED <<clock, intake, loopVars, learnerVars, netVars, history>>

-----------------------------------------------------------------------------
(* The mixer, the network and the peers. *)

\* Mixer._dispatch: stamp the fragment, then send it.
DispatchSend(p, surb) ==
    /\ LoopAwaits
    /\ <<p, surb>> \in outbox
    /\ outbox' = outbox \ {<<p, surb>>}
    /\ flight' = flight \cup {<<p, surb>>}
    /\ clock' = clock + 1
    /\ session' = [session EXCEPT ![p] = MarkSent(@, surb, clock + 1)]
    /\ UNCHANGED <<unackedMsg, intake, job, loopVars, learnerVars, history>>

\* Mixer._dispatch to a next hop without a link: dropped before the stamp.
DispatchDead(p, surb) ==
    /\ LoopAwaits
    /\ "deadHop" \in Faults
    /\ <<p, surb>> \in outbox
    /\ outbox' = outbox \ {<<p, surb>>}
    /\ UNCHANGED <<session, unackedMsg, clock, intake, job, loopVars,
                   learnerVars, flight, history>>

Lose(p, surb) ==
    /\ "loss" \in Faults
    /\ <<p, surb>> \in flight
    /\ flight' = flight \ {<<p, surb>>}
    /\ UNCHANGED <<session, unackedMsg, clock, intake, job, loopVars,
                   learnerVars, outbox, history>>

\* NodeMetrics.decrement
Decrement(n) == IF n > 0 THEN n - 1 ELSE 0

\* find_session_by_surb finds the session of p.
HasSurb(p, surb) == surb \in InFlight(session[p])

\* The peer acknowledged the packet (it does so for duplicates too) and the
\* reply came back: _handle_surb.  A SURB no session knows any more is ignored.
HandleSurb(p, surb) ==
    /\ LoopAwaits
    /\ <<p, surb>> \in flight
    /\ flight' = flight \ {<<p, surb>>}
    /\ IF HasSurb(p, surb)
       THEN /\ session' = [session EXCEPT ![p] = RecordSurbAck(@, surb, clock + 1)]
            /\ clock' = IF session'[p].lastSurbAt = clock + 1 THEN clock + 1 ELSE clock
            /\ unackedMsg' = IF AckCounts(session[p], surb)
                             THEN Decrement(unackedMsg) ELSE unackedMsg
            /\ answered' = answered \cup {<<p, surb[1]>>}
       ELSE UNCHANGED <<clock, session, unackedMsg, answered>>
    /\ UNCHANGED <<intake, job, loopVars, learnerVars, outbox, sends,
                   exhausted>>

\* PeerNode.mark_peer_unreachable, called when a connection terminates.
LinkLost(p) ==
    /\ LoopAwaits
    /\ "linkLost" \in Faults
    /\ session' = [session EXCEPT ![p].state = "UNREACHABLE"]
    /\ UNCHANGED <<unackedMsg, clock, intake, job, loopVars, learnerVars,
                   netVars, history>>

-----------------------------------------------------------------------------
(* The resend loop. *)

\* _resend_stale returns at once unless the current round had intake.
WakeUp ==
    /\ pc = "sleep"
    /\ currentRound \in intake
    /\ pc' = "scan"
    /\ todo' = ExchangePeers
    /\ UNCHANGED <<session, unackedMsg, clock, intake, job, stale, learnerVars,
                   netVars, history>>

\* The next session: an UNREACHABLE one is skipped, otherwise the fragments
\* sent before cutoff are reported and flagged.
ScanPeer(p, cutoff, coverCutoff) ==
    /\ pc = "scan"
    /\ p \in todo
    /\ todo' = todo \ {p}
    /\ IF session[p].state = "UNREACHABLE"
       THEN UNCHANGED <<session, stale, pc>>
       ELSE /\ session' = [session EXCEPT ![p] = GetStale(@, cutoff, coverCutoff)]
            /\ stale' = {<<p, x>> : x \in StaleIn(ClearAcked(session[p], coverCutoff),
                                                  cutoff)}
            /\ pc' = IF stale' = {} THEN "scan" ELSE "work"
    /\ UNCHANGED <<unackedMsg, clock, intake, job, learnerVars, netVars, history>>

Sleep ==
    /\ pc = "scan" /\ todo = {}
    /\ pc' = "sleep"
    /\ UNCHANGED <<session, unackedMsg, clock, intake, job, todo, stale,
                   learnerVars, netVars, history>>

\* The two reasons to wait: nothing came in for the fragment's round, or the
\* peer acknowledged something since the payload was last sent.
MustWait(p, m) ==
    RoundOf[m] \notin intake \/ AckedSinceLastSend(session[p], m)

AfterFragment(rest) ==
    /\ stale' = rest
    /\ pc' = IF rest = {} THEN "scan" ELSE "work"

\* Mutant: the fragment stays flagged while it waits.
WaitKeepsFlag(p, surb) ==
    /\ pc = "work"
    /\ <<p, surb>> \in stale
    /\ MustWait(p, surb[1])
    /\ AfterFragment(stale \ {<<p, surb>>})
    /\ UNCHANGED <<session, unackedMsg, clock, intake, job, todo, learnerVars,
                   netVars, history>>

WaitForFragment(p, surb) ==
    /\ pc = "work"
    /\ <<p, surb>> \in stale
    /\ MustWait(p, surb[1])
    /\ session' = [session EXCEPT ![p] = SetPendingResend(@, {surb}, FALSE)]
    /\ AfterFragment(stale \ {<<p, surb>>})
    /\ UNCHANGED <<unackedMsg, clock, intake, job, todo, learnerVars, netVars,
                   history>>

\* MAX_RESENDS reached: the peer is UNREACHABLE, and the rest of its stale
\* fragments is left as it is.
GiveUp(p, surb) ==
    /\ pc = "work"
    /\ <<p, surb>> \in stale
    /\ ~MustWait(p, surb[1])
    /\ session[p].retries[surb[1]] >= MaxResends
    /\ session' = [session EXCEPT ![p] = RecordResendExhausted(@)]
    /\ exhausted' = exhausted \cup {<<p, surb[1]>>}
    /\ AfterFragment({})
    /\ UNCHANGED <<unackedMsg, clock, intake, job, todo, learnerVars, netVars,
                   sends, answered>>

StartResend(p, surb) ==
    /\ pc = "work"
    /\ <<p, surb>> \in stale
    /\ ~MustWait(p, surb[1])
    /\ session[p].retries[surb[1]] < MaxResends
    /\ StartJob("resend", p, surb[1])
    /\ stale' = stale \ {<<p, surb>>}
    /\ pc' = "await"
    /\ UNCHANGED <<session, unackedMsg, clock, intake, todo, learnerVars,
                   netVars, answered, exhausted>>

\* The await returns: the copy is queued and the retry counted.
ResumeResend ==
    /\ pc = "await"
    /\ job["resend"].stage = "tracked"
    /\ LET p == job["resend"].peer
           surb == job["resend"].surb
       IN  /\ outbox' = outbox \cup {<<p, surb>>}
           /\ session' = [session EXCEPT ![p] = BumpRetryCount(@, surb[1])]
    /\ job' = [job EXCEPT !["resend"] = NoJob]
    /\ AfterFragment(stale)
    /\ UNCHANGED <<unackedMsg, clock, intake, todo, learnerVars, flight,
                   history>>

-----------------------------------------------------------------------------
\* The cutoffs that tell payloads of a kind in flight to p apart by age.
Cutoffs(p, kind) ==
    {1} \cup {session[p].pending[x].sentAt + 1 :
               x \in {y \in InFlight(session[p]) : y[1] \in kind}}

Next ==
    \/ BeginChunk \/ ContinueChunk \/ ResumeLearner \/ NextRound
    \/ \E r \in 1..NRounds : Intake(r)
    \/ \E c \in Clients : Track(c)
    \/ \E p \in ExchangePeers, x \in Surb :
         \/ DispatchSend(p, x) \/ DispatchDead(p, x)
         \/ Lose(p, x) \/ HandleSurb(p, x)
         \/ WaitForFragment(p, x) \/ GiveUp(p, x) \/ StartResend(p, x)
    \/ \E p \in ExchangePeers : LinkLost(p)
    \/ WakeUp \/ Sleep \/ ResumeResend
    \/ \E p \in ExchangePeers : \E t \in Cutoffs(p, Fragments), u \in Cutoffs(p, Covers) :
         ScanPeer(p, t, u)

Spec == Init /\ [][Next]_vars

\* What the code's scheduling gives: asyncio runs every task that is ready
\* when the resend loop next awaits (SF, since the loop's own steps hold the
\* others back again and again), the executor's thread and the network make
\* progress, some fragment of the round comes in, and time passes, so that a
\* scan in which everything sent so far is old comes again.
Fairness ==
    /\ SF_vars(BeginChunk \/ ContinueChunk \/ ResumeLearner)
    /\ SF_vars(\E r \in 1..NRounds : r = currentRound /\ Intake(r))
    /\ SF_vars(\E p \in ExchangePeers, x \in Surb : DispatchSend(p, x) \/ DispatchDead(p, x))
    /\ SF_vars(\E p \in ExchangePeers, x \in Surb : HandleSurb(p, x) \/ Lose(p, x))
    /\ WF_vars(\E c \in Clients : Track(c))
    /\ WF_vars(\/ WakeUp \/ Sleep \/ ResumeResend
               \/ \E p \in ExchangePeers, x \in Surb :
                    WaitForFragment(p, x) \/ GiveUp(p, x) \/ StartResend(p, x))
    /\ \A p \in Peers : SF_vars(ScanPeer(p, clock + 1, clock + 1))

FairSpec == Spec /\ Fairness

-----------------------------------------------------------------------------
(* Correctness. *)

\* Where the last copy of m to p is: with the executor or in the outbox, sent,
\* or no longer looked at by the resend loop.
PhaseOf(p, m) ==
    LET last == <<m, sends[p][m]>>
        queued == \/ \E c \in Clients : job[c] # NoJob /\ job[c].peer = p /\ job[c].surb = last
                  \/ <<p, last>> \in outbox
    IN  CASE sends[p][m] = 0 -> "idle"
          [] sends[p][m] > 0 /\ queued -> "queued"
          [] OTHER -> IF session[p].pending[last].sentAt # 0 THEN "out" ELSE "closed"

Promise == INSTANCE Delivery WITH
    MaxCopies <- 1 + MaxResends,
    copies <- [p \in Peers |-> [m \in Fragments |-> sends[p][m]]],
    phase <- [p \in Peers |-> [m \in Fragments |-> PhaseOf(p, m)]],
    answered <- answered \cap (Peers \X Fragments),
    givenUp <- exhausted

\* The sending side implements Delivery: whatever is lost, dropped or late and
\* however learner, executor and resend loop interleave, MAX_RESENDS caps the
\* copies, two copies of a fragment never queue at a time, and a peer is given
\* up only when the last copy has left the mixer.
KeepsPromise == Promise!Spec

\* A logical message is open from its first tracked transmission to its first
\* acknowledgement.
Open ==
    {pm \in ExchangePeers \X Fragments :
       /\ pm \notin answered
       /\ \E x \in InFlight(session[pm[1]]) : x[1] = pm[2]}

\* UNACKED_MSG never reports more messages than are open, nor less than none:
\* resends are not counted again, and acknowledging any copy closes the message.
UnackedNotOvercounted == unackedMsg \in 0..Cardinality(Open)

\* An unacknowledged fragment that is flagged pending_resend is in the loop's
\* hands, or a copy of it was made, or resends to its peer were given up: a
\* fragment the loop chose to wait for is looked at again.
NoOrphanFlag ==
    \A p \in ExchangePeers : \A x \in InFlight(session[p]) :
      LET f == session[p].pending[x]
      IN  f.pendingResend /\ ~f.acked =>
            \/ <<p, x>> \in stale
            \/ sends[p][x[1]] > x[2]
            \/ \E m \in Payload : <<p, m>> \in exhausted

\* An UNREACHABLE peer comes back only with an acknowledgement of something
\* that was really sent to it, a probe for instance.
RevivedByAck ==
    [][\A p \in ExchangePeers :
         session[p].state = "UNREACHABLE" /\ session'[p].state # "UNREACHABLE" =>
           \E x \in InFlight(session[p]) :
             /\ session[p].pending[x].sentAt # 0
             /\ <<p, x>> \in flight \ flight']_vars

\* Every fragment that was sent is acknowledged or its peer is UNREACHABLE in
\* the end: the resend manager takes care of what is still in flight.
Settles ==
    \A p \in Peers, m \in Fragments :
      sends[p][m] > 0 ~> \/ <<p, m>> \in answered
                         \/ p \in ExchangePeers /\ session[p].state = "UNREACHABLE"

=============================================================================
