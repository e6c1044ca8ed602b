-------------------------------- MODULE Mixer --------------------------------
(***************************************************************************)
(* The mixer of a node with mix_enabled (mixing.py) and the stash of cover *)
(* packets it draws on (cover_generator.py).  One packet leaves per tick:  *)
(* a batch is drawn from the queue, filled up with covers, shuffled and    *)
(* popped until it is empty.                                               *)
(*                                                                         *)
(* A queued item is a model value; covers are all alike.  A tick creates a *)
(* task that dispatches the packet: it starts before the next tick, since  *)
(* the event loop starts tasks in the order in which they become ready.    *)
(* Time is counted in a unit of the intervals.                             *)
(***************************************************************************)
EXTENDS Integers, Sequences, SequencesExt, FiniteSetsExt

CONSTANTS
    Item,           \* packets handed to queue_item
    Cover,          \* a cover packet
    NoPacket,       \* no packet
    OutboxSize,     \* mix_outbox_size
    Shuffle,        \* mix_shuffle
    MaxCovers,      \* max_cover_cache
    Intervals,      \* the intervals between ticks that may be drawn
    Delays,         \* how much too late the event loop may wake the mixer
    MaxTicks        \* bound: ticks

ASSUME MixerAssumption ==
    /\ Cover \notin Item /\ NoPacket \notin Item \cup {Cover}
    /\ OutboxSize \in Nat \ {0}
    /\ Shuffle \in BOOLEAN
    /\ MaxCovers \in Nat
    /\ Intervals \subseteq Nat
    /\ Delays \subseteq Nat
    /\ MaxTicks \in Nat

VARIABLES
    queue,          \* _queue
    outbox,         \* _outbox, popped from its end
    dispatching,    \* the packet a dispatch task was created for
    loop,           \* the outbox loop: "off", "on" or "stopped"
    nextSend,       \* _next_send
    stash,          \* length of _cover_stash
    generator,      \* the cover loop: "off", "idle" or "await"
    ticks,          \* history: of each tick its time, the interval drawn at
                    \* it and the sum of the intervals so far
    arrived,        \* history: items in the order they were queued
    popped,         \* history: items in the order they were popped
    departed,       \* history: items sent or dropped at a dead hop
    deadline        \* history: the tick by which each item has to be popped

coverVars == <<stash, generator>>
vars == <<queue, outbox, dispatching, loop, nextSend, coverVars, ticks,
          arrived, popped, departed, deadline>>

Init ==
    /\ queue = <<>> /\ outbox = <<>>
    /\ dispatching = NoPacket
    /\ loop = "off"
    /\ nextSend = 0
    /\ stash = 0
    /\ generator = "off"
    /\ ticks = <<>>
    /\ arrived = <<>> /\ popped = <<>>
    /\ departed = {}
    /\ deadline = [m \in Item |-> 0]

-----------------------------------------------------------------------------
(* The queue. *)

Batches(n) == (n + OutboxSize - 1) \div OutboxSize

\* queue_item: from the learner, the resend loop or the packet router.
QueueItem(m) ==
    /\ m \notin Range(arrived)
    /\ queue' = Append(queue, m)
    /\ arrived' = Append(arrived, m)
    /\ deadline' = [deadline EXCEPT ![m] =
                      Len(ticks) + Len(outbox) + OutboxSize * Batches(Len(queue) + 1)]
    /\ UNCHANGED <<outbox, dispatching, loop, nextSend, coverVars, ticks,
                   popped, departed>>

-----------------------------------------------------------------------------
(* The outbox loop. *)

\* The clock starts, and with it the first tick and the cover loop.
Start ==
    /\ loop = "off"
    /\ loop' = "on"
    /\ generator' = "idle"
    /\ UNCHANGED <<queue, outbox, dispatching, nextSend, stash, ticks, arrived,
                   popped, departed, deadline>>

AtMost(a, b) == IF a < b THEN a ELSE b

\* Mutant: covers come first.
DrawnAfterCovers ==
    IF outbox = <<>>
    THEN AtMost(OutboxSize - AtMost(OutboxSize, stash), Len(queue)) ELSE 0

\* Mutant: the outbox is filled up while it holds packets of the last batch.
DrawnWhilePending == AtMost(OutboxSize - Len(outbox), Len(queue))

\* _update_outbox draws a batch once the last one is gone: items of the queue
\* first, then covers.
Drawn == IF outbox = <<>> THEN AtMost(OutboxSize, Len(queue)) ELSE 0

DrawnCovers ==
    IF outbox = <<>> THEN AtMost(OutboxSize - Drawn, stash) ELSE 0

\* _shuffle_outbox
Orders(batch) ==
    IF Shuffle
    THEN {[i \in 1..Len(batch) |-> batch[p[i]]] :
            p \in Bijection(1..Len(batch), 1..Len(batch))}
    ELSE {batch}

Outboxes ==
    IF Drawn + DrawnCovers = 0 THEN {outbox}
    ELSE Orders(outbox \o SubSeq(queue, 1, Drawn) \o [i \in 1..DrawnCovers |-> Cover])

\* Mutant: the batch stays in the queue.
RemainingQueueAll == queue

RemainingQueue == SubSeq(queue, Drawn + 1, Len(queue))

\* Mutant: the clock is never reset, so that every tick missed is made up for.
NextSendUnreset(now, interval) == nextSend + interval

\* _next_send after a tick: a drift of more than one interval resets it.
NextSend(now, interval) ==
    IF now - (nextSend + interval) > interval THEN now + interval
    ELSE nextSend + interval

\* The last tick, at 0 before the first.
LastTick == IF ticks = <<>> THEN [at |-> 0, interval |-> 0, total |-> 0]
            ELSE Last(ticks)

\* The mixer wakes at _next_send, or at once if that has passed, or later.
Tick(late, interval) ==
    /\ loop = "on" /\ dispatching = NoPacket
    /\ Len(ticks) < MaxTicks
    /\ \E out \in Outboxes :
         IF out = <<>>
         THEN outbox' = <<>> /\ UNCHANGED <<dispatching, popped>>
         ELSE /\ outbox' = Front(out)
              /\ dispatching' = Last(out)
              /\ popped' = IF Last(out) = Cover THEN popped
                           ELSE Append(popped, Last(out))
    /\ queue' = RemainingQueue
    /\ stash' = stash - DrawnCovers
    /\ LET due == IF nextSend > LastTick.at THEN nextSend ELSE LastTick.at
           now == due + late
       IN  /\ nextSend' = NextSend(now, interval)
           /\ ticks' = Append(ticks, [at |-> now, interval |-> interval,
                                      total |-> LastTick.total + interval])
    /\ UNCHANGED <<loop, generator, arrived, departed, deadline>>

\* _dispatch: the packet is sent, or dropped at a next hop without a link.
Dispatch ==
    /\ dispatching # NoPacket
    /\ dispatching' = NoPacket
    /\ departed' = departed \cup ({dispatching} \ {Cover})
    /\ UNCHANGED <<queue, outbox, loop, nextSend, coverVars, ticks, arrived,
                   popped, deadline>>

\* stop, from close_all_connections: the loop is cancelled where it sleeps,
\* whatever is left.
Stop ==
    /\ loop = "on" /\ ticks # <<>>
    /\ generator = "off"
    /\ loop' = "stopped"
    /\ UNCHANGED <<queue, outbox, dispatching, nextSend, coverVars, ticks,
                   arrived, popped, departed, deadline>>

-----------------------------------------------------------------------------
(* The cover loop. *)

\* _generate_cover is awaited; it returns at once when no peer is reachable.
GenerateCover ==
    /\ generator = "idle" /\ stash < MaxCovers
    /\ generator' = "await"
    /\ UNCHANGED <<queue, outbox, dispatching, loop, nextSend, stash, ticks,
                   arrived, popped, departed, deadline>>

StashCover ==
    /\ generator = "await"
    /\ stash' = stash + 1
    /\ generator' = "idle"
    /\ UNCHANGED <<queue, outbox, dispatching, loop, nextSend, ticks,
                   arrived, popped, departed, deadline>>

\* CoverGenerator.stop cancels the loop, also where it awaits a cover.
StopCovers ==
    /\ generator # "off"
    /\ generator' = "off"
    /\ UNCHANGED <<queue, outbox, dispatching, loop, nextSend, stash, ticks,
                   arrived, popped, departed, deadline>>

Next ==
    \/ \E m \in Item : QueueItem(m)
    \/ Start
    \/ \E late \in Delays, interval \in Intervals : Tick(late, interval)
    \/ Dispatch \/ Stop
    \/ GenerateCover \/ StashCover \/ StopCovers

Spec == Init /\ [][Next]_vars

-----------------------------------------------------------------------------
(* Correctness. *)

\* Every item queued is in one place until it is sent or dropped: no batch
\* loses an item, and none is drawn twice.
EachOnce ==
    LET held == queue \o Append(outbox, dispatching)
        items == Range(held) \cap Item
    IN  /\ \A i, j \in DOMAIN held : held[i] = held[j] /\ held[i] \in Item => i = j
        /\ items \cap departed = {}
        /\ items \cup departed = Range(arrived)

\* The mixer reorders within a batch only: an item leaves fewer than
\* mix_outbox_size places before or after its turn.
ReorderBound ==
    \A k \in DOMAIN popped, j \in DOMAIN arrived :
        popped[k] = arrived[j] => k - j < OutboxSize /\ j - k < OutboxSize

\* Covers never hold up the traffic: an item waits for the packets of the batch
\* at work and for the batches the queue ahead of it makes, and no longer.
Deadline ==
    \A m \in Range(arrived) \ Range(popped) : Len(ticks) < deadline[m]

\* The rate is not exceeded to catch up: between two ticks, however late the
\* event loop was, there is time for all the intervals but one.
Pace ==
    \A i, j \in DOMAIN ticks :
        i < j => ticks[j - 1].total - ticks[i].total
                   <= ticks[j].at - ticks[i].at + ticks[i].interval
=============================================================================
