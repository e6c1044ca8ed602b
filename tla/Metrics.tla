------------------------------ MODULE Metrics -------------------------------
(***************************************************************************)
(* The metrics' way from a node to the dashboard: the push loop of a node  *)
(* and its last push (node_metrics.py), the manager that keeps what comes  *)
(* for the event stream and as history and adds the resources of the       *)
(* node's container (metrics_service.py), the stream that takes from the   *)
(* one and the dashboard that begins with the other (metrics.py,           *)
(* useMetricsStream.js).  All fields of one flush are one point here.      *)
(***************************************************************************)
EXTENDS Integers, Sequences, FiniteSets, SequencesExt

CONSTANTS
    Nodes,
    Dashboards,
    PageSize,       \* points of a page of the history
    MaxRuns,        \* bound: launches of the nodes
    MaxFlushes,     \* bound: flushes of a node
    MaxValue,       \* bound: changes of the data of a node in a run
    MaxTime         \* bound: seconds of the clock

ASSUME MetricsAssumption == PageSize \in Nat \ {0}

VARIABLES
    now,            \* the clock, in the whole seconds of a timestamp
    run,            \* launches so far; a container is <<node, run>>
    up,             \* nodes whose container runs
    data,           \* Metrics._data, as the number of its changes
    flushes,        \* flushes so far
    changeLog,      \* Metrics._change_log: the last flush, until answered
    loop,           \* _push_loop: off, asleep, or waiting for an answer
    final,          \* stop_push_loop: not called, waiting, or how it ended
    requests,       \* pushes: open, abandoned by the node and still under
                    \* way, or answered
    cache,          \* MetricsService._metrics_cache
    history,        \* MetricsService._history
    nameToId,       \* _name_to_id: the containers of the last listing
    resourceCache,  \* _resource_cache: readings by container
    listing,        \* the listing a thread has made and not handed over
    board,          \* per dashboard, the state of useMetricsStream
    received,       \* history: data of this run the manager was told, per node
    leftWith        \* history: data of each node when it was told to stop

nodeVars == <<data, flushes, changeLog, loop, final, leftWith>>
managerVars == <<cache, history, nameToId, resourceCache, listing, received>>
vars == <<now, run, up, nodeVars, requests, managerVars, board>>

None == [at |-> 0, containers |-> {}]
Blank == [phase |-> "loading", loaded |-> <<>>, shown |-> <<>>, last |-> 0]

Init ==
    /\ now = 1 /\ run = 0 /\ up = {}
    /\ data = [n \in Nodes |-> 0] /\ flushes = [n \in Nodes |-> 0]
    /\ changeLog = [n \in Nodes |-> {}]
    /\ loop = [n \in Nodes |-> "off"] /\ final = [n \in Nodes |-> "no"]
    /\ requests = {}
    /\ cache = <<>> /\ history = <<>>
    /\ nameToId = {} /\ resourceCache = {} /\ listing = None
    /\ board = [d \in Dashboards |-> Blank]
    /\ received = [n \in Nodes |-> {}] /\ leftWith = [n \in Nodes |-> 0]

Tick == /\ now < MaxTime /\ now' = now + 1
        /\ UNCHANGED <<run, up, nodeVars, requests, managerVars, board>>

(***************************************************************************)
(* The node.                                                               *)
(***************************************************************************)
\* increment, decrement, set
Change(n) ==
    /\ n \in up /\ data[n] < MaxValue
    /\ data' = [data EXCEPT ![n] = @ + 1]
    /\ UNCHANGED <<now, run, up, flushes, changeLog, loop, final, leftWith,
                   requests, managerVars, board>>

Flushed(n) == [node |-> n, run |-> run, seq |-> flushes[n] + 1,
               timestamp |-> now, value |-> data[n]]

Flush(n) == /\ changeLog' = [changeLog EXCEPT ![n] = {Flushed(n)}]
            /\ flushes' = [flushes EXCEPT ![n] = @ + 1]

\* The payload is copied: what happens to the log later does not touch it.
Post(n, by) == requests' = requests \cup
    { [point |-> p, by |-> by, state |-> "open"] : p \in changeLog'[n] }

PushLoop(n) ==
    /\ n \in up /\ loop[n] = "asleep" /\ flushes[n] < MaxFlushes
    /\ Flush(n) /\ Post(n, "loop")
    /\ loop' = [loop EXCEPT ![n] = "waiting"]
    /\ UNCHANGED <<now, run, up, data, final, leftWith, managerVars, board>>

\* Mutant: the last push sends what the loop has left.
StopWithoutFlush(n) == UNCHANGED <<flushes, changeLog>> /\ Post(n, "final")

LastPush(n) == Flush(n) /\ Post(n, "final")

\* stop_push_loop, up to its request; with nothing to send it is through.
StopPushLoop(n) ==
    /\ n \in up /\ loop[n] # "off" /\ final[n] = "no"
    /\ LastPush(n)
    /\ leftWith' = [leftWith EXCEPT ![n] = data[n]]
    /\ final' = [final EXCEPT ![n] = IF changeLog'[n] = {} THEN "ok" ELSE "waiting"]
    /\ UNCHANGED <<now, run, up, data, loop, managerVars, board>>

\* After its answer the last push cancels the loop, whatever it waits for.
Ends(n, by, how) ==
    IF by = "loop"
    THEN /\ loop' = [loop EXCEPT ![n] = IF @ = "waiting" THEN "asleep" ELSE @]
         /\ UNCHANGED final
    ELSE /\ loop' = [loop EXCEPT ![n] = "off"]
         /\ final' = [final EXCEPT ![n] = how]

\* A request the node gives up may still be received, its answer no more.
GivenUp(R) ==
    { [r EXCEPT !.state = "abandoned"] : r \in { r \in R : r.state # "answered" } }

\* What is left of the requests when that of n by one of its two pushes ends:
\* with the last push all others do.
Rest(r, keep) ==
    LET own == { q \in requests \ {r} : q.point.node = r.point.node } IN
    keep \cup IF r.by = "loop"
              THEN requests \ {r}
              ELSE (requests \ ({r} \cup own)) \cup GivenUp(own)

\* Status 200 clears the log, also one that was flushed after the payload
\* was copied.
PushAnswered(r) ==
    LET n == r.point.node IN
    /\ r \in requests /\ r.state = "answered"
    /\ requests' = Rest(r, {})
    /\ changeLog' = [changeLog EXCEPT ![n] = {}]
    /\ Ends(n, r.by, "ok")
    /\ UNCHANGED <<now, run, up, data, flushes, leftWith, managerVars, board>>

\* A timeout or a lost connection.
PushFails(r) ==
    /\ r \in requests /\ r.state # "abandoned"
    /\ requests' = Rest(r, GivenUp({r}))
    /\ Ends(r.point.node, r.by, "failed")
    /\ UNCHANGED <<now, run, up, data, flushes, changeLog, leftWith, managerVars, board>>

(***************************************************************************)
(* The manager.                                                            *)
(***************************************************************************)
\* Mutant: readings are kept by the node's name.
KeyByName(container) == container[1]

Key(container) == container

\* The reading added to a push of node n as its resources, if there is one.
Reading(n) ==
    { r.of : r \in { r \in resourceCache :
                       \E c \in nameToId : c[1] = n /\ r.key = Key(c) } }

\* push.  No other task holds the lock across an await, so this is one step.
ReceivePush(r) ==
    LET n == r.point.node
        point == [id |-> <<n, r.point.run, r.point.seq>>, timestamp |-> r.point.timestamp]
    IN  /\ r \in requests /\ r.state # "answered"
        /\ requests' = (requests \ {r}) \cup
             (IF r.state = "open" THEN {[r EXCEPT !.state = "answered"]} ELSE {})
        /\ cache' = Append(cache, point)
        /\ history' = Append(history, point)
        /\ received' = [received EXCEPT ![n] =
                          IF n \in up /\ r.point.run = run THEN @ \cup {r.point.value} ELSE @]
        /\ UNCHANGED <<now, run, up, nodeVars, nameToId, resourceCache, listing, board>>

\* _refresh_cache: a thread lists the containers that run ...
ListContainers ==
    /\ listing = None /\ run > 0
    /\ listing' = [at |-> run, containers |-> { <<n, run>> : n \in up }]
    /\ UNCHANGED <<now, run, up, nodeVars, requests, cache, history, nameToId,
                   resourceCache, received, board>>

\* ... and the loop stores them, forgets readings of others and reads those
\* it can: the cgroup of a container that is gone, or not yet there, is not.
StoreListing(readable) ==
    LET listed == listing.containers
        live == { r \in resourceCache : r.key \in { Key(c) : c \in listed } }
        read == { [key |-> Key(c), of |-> c] : c \in readable }
    IN  /\ listing # None
        /\ readable \subseteq { c \in listed : c[1] \in up /\ c[2] = run }
        /\ listing' = None
        /\ nameToId' = listed
        /\ resourceCache' = read \cup
             { r \in live : \A s \in read : s.key # r.key }
        /\ UNCHANGED <<now, run, up, nodeVars, requests, cache, history, received, board>>

\* start_nodes, with the nodes of the run before removed.
Launch ==
    /\ up = {} /\ run < MaxRuns
    /\ run' = run + 1 /\ up' = Nodes
    /\ loop' = [n \in Nodes |-> "asleep"]
    /\ UNCHANGED <<now, data, flushes, changeLog, final, leftWith, requests,
                   managerVars, board>>

\* A node has left the run, or the manager has stopped it: its process and
\* what it held are gone, its requests may be on their way.
Gone(n) ==
    /\ n \in up
    /\ up' = up \ {n}
    /\ data' = [data EXCEPT ![n] = 0]
    /\ changeLog' = [changeLog EXCEPT ![n] = {}]
    /\ loop' = [loop EXCEPT ![n] = "off"]
    /\ final' = [final EXCEPT ![n] = "no"]
    /\ leftWith' = [leftWith EXCEPT ![n] = 0]
    /\ received' = [received EXCEPT ![n] = {}]
    /\ LET own == { r \in requests : r.point.node = n }
       IN  requests' = (requests \ own) \cup GivenUp(own)
    /\ UNCHANGED <<now, run, flushes, cache, history, nameToId, resourceCache,
                   listing, board>>

\* clear
Clear ==
    /\ cache' = <<>> /\ history' = <<>>
    /\ nameToId' = {} /\ resourceCache' = {}
    /\ UNCHANGED <<now, run, up, nodeVars, requests, listing, received, board>>

(***************************************************************************)
(* The dashboard.                                                          *)
(***************************************************************************)
TimestampsOf(s) == { s[i].timestamp : i \in DOMAIN s }
Latest(s, last) == CHOOSE t \in TimestampsOf(s) \cup {last} :
                     \A u \in TimestampsOf(s) \cup {last} : u <= t

\* get_history_paginated: the end of the page and whether there is more.
PageEnd(offset) == IF offset + PageSize < Len(history) THEN offset + PageSize ELSE Len(history)

\* Mutant: what the history has shown is not remembered.
ForgetHistory(points) == 0

LastOfHistory(points) == Latest(points, 0)

\* One page of init; after the last the stream is opened.
LoadPage(d) ==
    LET b == board[d]
        more == SubSeq(history, Len(b.loaded) + 1, PageEnd(Len(b.loaded)))
        points == b.loaded \o more
    IN  /\ b.phase = "loading"
        /\ board' = [board EXCEPT ![d] =
             IF PageEnd(Len(b.loaded)) < Len(history)
             THEN [b EXCEPT !.loaded = points]
             ELSE [phase |-> "open", loaded |-> <<>>, shown |-> points,
                   last |-> LastOfHistory(points)]]
        /\ UNCHANGED <<now, run, up, nodeVars, requests, managerVars>>

\* filter: the elements of s at the places I, in their order.
Select(s, I) == LET Nth(k) == CHOOSE i \in I : Cardinality({ j \in I : j <= i }) = k
                IN  [k \in 1..Cardinality(I) |-> s[Nth(k)]]

\* event_generator pops all there is; onmessage shows what is newer than the
\* newest shown.  With two dashboards each gets a part.
Stream(d) ==
    LET b == board[d]
        newer == { i \in DOMAIN cache : b.last = 0 \/ cache[i].timestamp > b.last }
        fresh == Select(cache, newer)
    IN  /\ b.phase = "open" /\ cache # <<>>
        /\ cache' = <<>>
        /\ board' = [board EXCEPT ![d].shown = @ \o fresh,
                                  ![d].last = Latest(fresh, @)]
        /\ UNCHANGED <<now, run, up, nodeVars, requests, history, nameToId,
                       resourceCache, listing, received>>

\* clearMetrics, of the dashboard whose user stopped the nodes.
ClearBoard(d) ==
    /\ board' = [board EXCEPT ![d].shown = <<>>, ![d].last = 0]
    /\ UNCHANGED <<now, run, up, nodeVars, requests, managerVars>>

Next ==
    \/ Tick \/ ListContainers \/ Launch \/ Clear
    \/ \E n \in Nodes : Change(n) \/ PushLoop(n) \/ StopPushLoop(n) \/ Gone(n)
    \/ \E r \in requests : PushAnswered(r) \/ PushFails(r) \/ ReceivePush(r)
    \/ \E readable \in SUBSET listing.containers : StoreListing(readable)
    \/ \E d \in Dashboards : LoadPage(d) \/ Stream(d) \/ ClearBoard(d)

Spec == Init /\ [][Next]_vars

(***************************************************************************)
(* Properties.                                                             *)
(***************************************************************************)
\* No dashboard shows a point twice, although the history it begins with and
\* the stream it goes on with hold the same points (useMetricsStream.js:24).
NoPointTwice ==
    \A d \in Dashboards : IsInjective(board[d].shown)

\* A node whose last push met no error has told the manager what it held when
\* it was told to stop, whatever push of its loop was under way
\* (node_metrics.py:116, Metrics.stop_push_loop).
FinalPushArrives ==
    \A n \in up : final[n] = "ok" => leftWith[n] \in received[n]

\* Once the container of a node is listed, what its pushes are given as its
\* resources was read from it and not from one of the same name before it
\* (metrics_service.py:82, MetricsService.push, _refresh_cache).
ResourcesOfOwnContainer ==
    \A c \in nameToId : Reading(c[1]) \subseteq {c}
=============================================================================
