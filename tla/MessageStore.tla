---------------------------- MODULE MessageStore ----------------------------
(***************************************************************************)
(* The inbox of a node (message_store.py) with its two clients: the        *)
(* packet router, which deduplicates and stores a model fragment, and the  *)
(* learner, which opens a round, waits for the round's fragments, drains   *)
(* the bucket and closes the round.  All of them run on one event loop, so *)
(* an action is a stretch of code without an await.                        *)
(***************************************************************************)
EXTENDS Integers, Sequences, SequencesExt, Functions

CONSTANTS
    Payload,        \* the distinct fragment payloads peers may send
    RoundOf,        \* the "round" field packed in each payload
    Window,         \* DEDUP_WINDOW_SIZE
    NRounds,        \* n_rounds
    NPeers,         \* exchange peers; how many are counted varies over time
    ModelChunks,    \* fragments of one model
    RatioPct,       \* partial_update_ratio, in percent
    FloorPct,       \* completeness_floor, in percent
    MaxAccepted     \* bound: payloads accepted in a behaviour

Rounds == 1..NRounds

ASSUME StoreAssumption ==
    /\ Window \in Nat \ {0}
    /\ NRounds \in Nat \ {0}
    /\ NPeers \in Nat
    /\ ModelChunks \in Nat \ {0}
    /\ RatioPct \in 1..100
    /\ FloorPct \in 0..100
    /\ RoundOf \in [Payload -> Rounds]

VARIABLES
    schedule,           \* my_join_round() and my_exit_round(), 0 for none
    incoming,           \* _incoming: round -> bucket (absent = empty)
    currentRound,       \* _current_round of the store
    seenHashes,         \* _seen_hashes
    seenOrder,          \* _seen_order, oldest first
    roundsWithIntake,   \* _rounds_with_intake
    fragmentsPerModel,  \* fragments_per_model, 0 for None
    learnerRound,       \* Learner._current_round
    stage,              \* where Learner.run stands
    accepted,           \* history: payloads that passed the dedup check
    collected,          \* history: what collect_models drained per round
    arrived             \* history: new fragments of each round, in order of arrival

storeVars == <<incoming, currentRound, seenHashes, seenOrder, roundsWithIntake,
               fragmentsPerModel>>
learnerVars == <<schedule, learnerRound, stage>>
history == <<accepted, collected, arrived>>
vars == <<storeVars, learnerVars, history>>

Stages == {"boot", "send", "await", "grace", "aggregate", "done"}

\* The manager's schedule: a node joins late (30% of the run), exits early
\* (50%), or does neither.
Schedules == { [join |-> 0, exit |-> 0],
               [join |-> (3 * NRounds + 9) \div 10, exit |-> 0],
               [join |-> 0, exit |-> NRounds \div 2] }

Init ==
    /\ schedule \in Schedules
    /\ incoming = [r \in Rounds |-> <<>>]
    /\ currentRound = 0
    /\ seenHashes = {}
    /\ seenOrder = <<>>
    /\ roundsWithIntake = {}
    /\ fragmentsPerModel = 0
    /\ learnerRound = IF schedule.join > 0 THEN schedule.join - 1 ELSE 0
    /\ stage = "boot"
    /\ accepted = <<>>
    /\ collected = [r \in Rounds |-> <<>>]
    /\ arrived = [r \in Rounds |-> <<>>]

-----------------------------------------------------------------------------
(* The packet router's side. *)

\* Mutant: the evicted hash is not discarded from _seen_hashes.
RememberHashKeepsEvicted(p) ==
    /\ seenHashes' = seenHashes \cup {p}
    /\ seenOrder' = Append(IF Len(seenOrder) = Window THEN Tail(seenOrder)
                           ELSE seenOrder, p)

\* Mutant: the newest hash is evicted, _seen_order[-1] instead of [0].
RememberHashEvictsNewest(p) ==
    IF Len(seenOrder) = Window
    THEN /\ seenHashes' = (seenHashes \ {Last(seenOrder)}) \cup {p}
         /\ seenOrder' = Append(Front(seenOrder), p)
    ELSE /\ seenHashes' = seenHashes \cup {p}
         /\ seenOrder' = Append(seenOrder, p)

\* is_duplicate on a payload not seen: the hash enters the window, the oldest
\* leaves when the window is full.
RememberHash(p) ==
    IF Len(seenOrder) = Window
    THEN /\ seenHashes' = (seenHashes \ {Head(seenOrder)}) \cup {p}
         /\ seenOrder' = Append(Tail(seenOrder), p)
    ELSE /\ seenHashes' = seenHashes \cup {p}
         /\ seenOrder' = Append(seenOrder, p)

\* Mutant: the bucket is assigned instead of extended.
EnqueueOverwrites(p) ==
    IF RoundOf[p] < currentRound
    THEN UNCHANGED <<incoming, roundsWithIntake>>
    ELSE /\ incoming' = [incoming EXCEPT ![RoundOf[p]] = <<p>>]
         /\ roundsWithIntake' = roundsWithIntake \cup {RoundOf[p]}

\* enqueue_incoming: a fragment of a past round is dropped.
EnqueueIncoming(p) ==
    IF RoundOf[p] < currentRound
    THEN UNCHANGED <<incoming, roundsWithIntake>>
    ELSE /\ incoming' = [incoming EXCEPT ![RoundOf[p]] = Append(@, p)]
         /\ roundsWithIntake' = roundsWithIntake \cup {RoundOf[p]}

\* _handle_destination for a model fragment that is no duplicate.  (For a
\* duplicate the store does not change: only the acknowledgement is sent.)
ReceiveFragment(p) ==
    /\ Len(accepted) < MaxAccepted
    /\ p \notin seenHashes
    /\ RememberHash(p)
    /\ EnqueueIncoming(p)
    /\ accepted' = Append(accepted, p)
    /\ arrived' = [arrived EXCEPT ![RoundOf[p]] = Append(@, p)]
    /\ UNCHANGED <<currentRound, fragmentsPerModel, learnerVars, collected>>

-----------------------------------------------------------------------------
(* The learner's side. *)

\* Mutant: opening a round clears the bucket of that round too, on every
\* iteration (clear_rounds_before with <= and without the join condition).
LoopHeadClearsCurrent(b, first) ==
    IF learnerRound = NRounds
    THEN /\ stage' = "done"
         /\ incoming' = b
         /\ UNCHANGED <<learnerRound, currentRound>>
    ELSE LET r == learnerRound + 1
         IN  /\ learnerRound' = r
             /\ currentRound' = r
             /\ incoming' = [s \in Rounds |-> IF s <= r THEN <<>> ELSE b[s]]
             /\ stage' = IF schedule.exit > 0 /\ r > schedule.exit
                         THEN "done" ELSE "send"

\* The head of Learner.run's loop, up to its first await, on the buckets b:
\* either the loop ends, or the store is moved to the next round, a late
\* joiner drops older buckets on its first iteration, and a scheduled exit
\* is taken.
LoopHead(b, first) ==
    IF learnerRound = NRounds
    THEN /\ stage' = "done"
         /\ incoming' = b
         /\ UNCHANGED <<learnerRound, currentRound>>
    ELSE LET r == learnerRound + 1
             clears == first /\ schedule.join > 0
         IN  /\ learnerRound' = r
             /\ currentRound' = r
             /\ incoming' = [s \in Rounds |->
                               IF clears /\ s < r THEN <<>> ELSE b[s]]
             /\ stage' = IF schedule.exit > 0 /\ r > schedule.exit
                         THEN "done" ELSE "send"

BeginTraining ==
    /\ stage = "boot"
    /\ LoopHead(incoming, TRUE)
    /\ UNCHANGED <<seenHashes, seenOrder, roundsWithIntake, fragmentsPerModel,
                   schedule, history>>

\* send_model_updates announces the chunk count, then the node broadcasts.
BroadcastModel ==
    /\ stage = "send"
    /\ fragmentsPerModel' = ModelChunks
    /\ stage' = "await"
    /\ UNCHANGED <<incoming, currentRound, seenHashes, seenOrder,
                   roundsWithIntake, schedule, learnerRound, history>>

\* Python's round() on num/den: ties go to the even neighbour.
RoundHalfEven(num, den) ==
    LET q == num \div den
        twice == 2 * (num % den)
    IN  IF twice > den \/ (twice = den /\ q % 2 = 1) THEN q + 1 ELSE q

ExpectedCount(peers) ==
    LET share == RoundHalfEven(peers * RatioPct, 100)
    IN  (IF share > 1 THEN share ELSE 1) * fragmentsPerModel

\* received_expected, polled by await_fragments; peers is the number of
\* exchange peers not UNREACHABLE at this poll.
ReceivedExpected(peers) == Len(incoming[learnerRound]) >= ExpectedCount(peers)

EnterGrace(peers) ==
    /\ stage = "await"
    /\ ReceivedExpected(peers)
    /\ stage' = "grace"
    /\ UNCHANGED <<storeVars, schedule, learnerRound, history>>

\* collect_models drains the bucket of the round.
Collect ==
    /\ collected' = [collected EXCEPT ![learnerRound] = @ \o incoming[learnerRound]]
    /\ incoming' = [incoming EXCEPT ![learnerRound] = <<>>]
    /\ stage' = "aggregate"
    /\ UNCHANGED <<currentRound, seenHashes, seenOrder, roundsWithIntake,
                   fragmentsPerModel, schedule, learnerRound, accepted,
                   arrived>>

\* The grace period ends (every SURB back, or PHASE2_GRACE over).
CollectAfterGrace == stage = "grace" /\ Collect

\* await_fragments gives up after a stall: no await lies between its return
\* and the drain.
CollectAfterStall(peers) ==
    /\ stage = "await"
    /\ ~ReceivedExpected(peers)
    /\ \/ RatioPct < 100
       \/ Len(incoming[learnerRound]) * 100 >= FloorPct * ExpectedCount(peers)
    /\ Collect

\* Mutant: end_round resets fragments_per_model but does not drain.
EndRoundWithoutDrain ==
    /\ stage = "aggregate"
    /\ fragmentsPerModel' = 0
    /\ LoopHead(incoming, FALSE)
    /\ UNCHANGED <<seenHashes, seenOrder, roundsWithIntake, schedule,
                   history>>

\* end_round, then the head of the loop for the next round, without an await
\* between: late fragments of the round are dropped.
EndRound ==
    /\ stage = "aggregate"
    /\ fragmentsPerModel' = 0
    /\ LoopHead([incoming EXCEPT ![learnerRound] = <<>>], FALSE)
    /\ UNCHANGED <<seenHashes, seenOrder, roundsWithIntake, schedule,
                   history>>

Next ==
    \/ \E p \in Payload : ReceiveFragment(p)
    \/ BeginTraining
    \/ BroadcastModel
    \/ \E n \in 0..NPeers : EnterGrace(n)
    \/ CollectAfterGrace
    \/ \E n \in 0..NPeers : CollectAfterStall(n)
    \/ EndRound

Spec == Init /\ [][Next]_vars

-----------------------------------------------------------------------------
(* Correctness. *)

\* Type invariant; the window never grows past DEDUP_WINDOW_SIZE.
TypeOK ==
    /\ incoming \in [Rounds -> Seq(Payload)]
    /\ currentRound \in 0..NRounds
    /\ seenHashes \subseteq Payload
    /\ seenOrder \in Seq(Payload)
    /\ Len(seenOrder) <= Window
    /\ roundsWithIntake \subseteq Rounds
    /\ fragmentsPerModel \in {0, ModelChunks}
    /\ schedule \in Schedules
    /\ learnerRound \in 0..NRounds
    /\ stage \in Stages
    /\ stage \notin {"boot", "done"} => learnerRound \in Rounds
    /\ accepted \in Seq(Payload)
    /\ collected \in [Rounds -> Seq(Payload)]
    /\ arrived \in [Rounds -> Seq(Payload)]

\* The set is_duplicate asks and the deque that ages it never drift apart, and
\* the deque holds no hash twice: a hash left behind in the set would make the
\* node drop that payload forever; the eviction of one of two equal entries
\* would take the other's hash out of the set and let its duplicate in.
SeenWindow == seenHashes = Range(seenOrder) /\ IsInjective(seenOrder)

\* At-most-once inside the window: if the same payload is let in twice, more
\* than DEDUP_WINDOW_SIZE payloads were let in from the first time on.
DuplicateFarApart ==
    \A i, j \in 1..Len(accepted) :
        i < j /\ accepted[i] = accepted[j] => j - i > Window

\* No bucket outlives its round: end_round, the guard of enqueue_incoming and
\* the late joiner's clear_rounds_before together leave nothing below the
\* current round, whenever the fragments arrive.
NoStaleBucket ==
    stage # "boot" => \A r \in Rounds : r < currentRound => incoming[r] = <<>>

\* Fragment by fragment: every new fragment of a round the node has not left
\* is in that round's bucket or was collected, each once and in the order of
\* arrival; what was collected for a round the node has left is what came
\* first of it.  So enqueue_incoming, the drains and the clearing lose nothing
\* that is still to be aggregated, and mix no rounds.
Conservation ==
    \A r \in Rounds :
        IF r >= currentRound /\ stage # "done"
        THEN collected[r] \o incoming[r] = arrived[r]
        ELSE IsPrefix(collected[r], arrived[r])

\* Fragments that arrive early, for the round to come, or late, during the
\* grace period, are kept in order for their round until the node leaves it.
EarlyFragmentsKept ==
    [][\A r \in Rounds :
         (r >= currentRound' /\ stage' # "done")
           => IsPrefix(collected[r] \o incoming[r],
                       collected'[r] \o incoming'[r])]_vars
=============================================================================
