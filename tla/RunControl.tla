----------------------------- MODULE RunControl -----------------------------
(***************************************************************************)
(* The life of experiments: the manager starts and stops the containers of *)
(* the nodes (node_service.py) and keeps the metrics they push             *)
(* (metrics_service.py); a node that joins late waits for the highest      *)
(* round, and one that is done waits until all are (main.py, peer_node.py, *)
(* node_metrics.py).                                                       *)
(*                                                                         *)
(* The manager runs on one event loop.  Its start and stop requests await  *)
(* threads that stop and launch containers; meanwhile it serves pushes,    *)
(* the nodes' questions and clear.  What a stop cannot stop lives on, and  *)
(* a push outlives its container.  Bound: one start or stop at a time.  Of *)
(* the metrics only current_round is modelled, and whose points wait to be *)
(* saved.                                                                  *)
(***************************************************************************)
EXTENDS Integers, FiniteSets, Sequences

CONSTANTS
    Node,           \* the names of containers
    Config,         \* what may be started: its nodes, those in join_schedule
                    \* and in exit_schedule, and n_rounds
    MaxLaunches,    \* bound: nodes launched by all starts
    MaxSenders,     \* bound: nodes with pushes under way
    MaxLeft         \* bound: containers that are passed over at a time

ASSUME ControlAssumption ==
    /\ \A c \in Config :
         /\ c.nodes \subseteq Node
         /\ c.late \subseteq c.nodes /\ c.early \subseteq c.nodes \ c.late
         /\ c.rounds \in Nat \ {0}
    /\ MaxLaunches \in Nat /\ MaxSenders \in Nat /\ MaxLeft \in Nat

\* The schedule of _start_nodes_sync: 30% and 50% of the rounds.
JoinRound(c, n) == IF n \in c.late THEN (3 * c.rounds + 9) \div 10 ELSE 0
ExitRound(c, n) == IF n \in c.early THEN c.rounds \div 2 ELSE 0

VARIABLES
    (* the manager *)
    request,        \* the request the manager works on
    todo,           \* the containers it has still to stop, or to launch
    configs,        \* the configurations of all starts; the last is
                    \* _experiment_config
    highestRound,   \* _highest_round
    roundPerNode,   \* _round_per_node (absent = 0)
    writeQueue,     \* the runs with points in _write_queue
    (* the containers *)
    proc,           \* where each stands
    launched,       \* the start it was launched by
    round,          \* its MetricField.CURRENT_ROUND
    inFlight,       \* pushes under way: node, round, and start of its container
    (* history *)
    drained,        \* the last start that came to drain the queue
    stragglers,     \* the starts of which something was left then
    heard,          \* the starts pushes came from since the last clear
    disturbed       \* a node of the run failed or gave up, or it was stopped
                    \* or cleared

managerVars == <<request, todo, configs, highestRound, roundPerNode, writeQueue>>
nodeVars == <<proc, launched, round, inFlight>>
history == <<drained, stragglers, heard, disturbed>>
vars == <<managerVars, nodeVars, history>>

run == Len(configs)

\* The configuration in the environment of a container.
Own(n) == configs[launched[n]]

Alive(n) == proc[n] \notin {"none", "exited"}

\* What clear_last_seen leaves of the rounds pushed.
NoRounds == [n \in Node |-> 0]

Init ==
    /\ request = "none" /\ todo = {}
    /\ configs = <<>>
    /\ highestRound = 0
    /\ roundPerNode = NoRounds
    /\ writeQueue = {}
    /\ proc = [n \in Node |-> "none"]
    /\ launched = [n \in Node |-> 0]
    /\ round = [n \in Node |-> 0]
    /\ inFlight = {}
    /\ drained = 0 /\ stragglers = {} /\ heard = {}
    /\ disturbed = FALSE

-----------------------------------------------------------------------------
(* The operator's requests. *)

Containers == {n \in Node : proc[n] # "none"}

\* Bound: the launches of the starts s.
Launches(s) == Cardinality({x \in (1..Len(s)) \X Node : x[2] \in s[x[1]].nodes})

\* The configuration is set before anything is stopped; all containers there
\* are then are listed, those that have ended too.
StartRequest(c) ==
    /\ request = "none" /\ Launches(Append(configs, c)) <= MaxLaunches
    /\ request' = "start" /\ todo' = Containers
    /\ configs' = Append(configs, c)
    /\ disturbed' = TRUE
    /\ UNCHANGED <<highestRound, roundPerNode, writeQueue, nodeVars, drained,
                   stragglers, heard>>

StopRequest ==
    /\ request = "none"
    /\ request' = "stop" /\ todo' = Containers
    /\ disturbed' = TRUE
    /\ UNCHANGED <<configs, highestRound, roundPerNode, writeQueue, nodeVars,
                   drained, stragglers, heard>>

\* stop_all_nodes, container after container: one that cannot be stopped, or
\* not be removed once it is, is passed over.
StopContainer(n) ==
    /\ request \in {"start", "stop"} /\ n \in todo
    /\ todo' = todo \ {n}
    /\ \E left \in {"none", "exited", proc[n]} :
         /\ left # "none" => Cardinality(Containers \ todo) < MaxLeft
         /\ proc' = [proc EXCEPT ![n] = left]
    /\ UNCHANGED <<request, configs, highestRound, roundPerNode, writeQueue,
                   launched, round, inFlight, history>>

\* Nothing is read any more of what a removed container knew.
ForgetRemoved ==
    /\ launched' = [n \in Node |-> IF proc[n] = "none" THEN 0 ELSE launched[n]]
    /\ round' = [n \in Node |-> IF proc[n] = "none" THEN 0 ELSE round[n]]

\* Mutant: the write queue is not drained.
DrainAndLaunchUndrained ==
    /\ request = "start" /\ todo = {}
    /\ request' = "launch" /\ todo' = configs[run].nodes
    /\ writeQueue' = writeQueue
    /\ drained' = run /\ disturbed' = FALSE
    /\ stragglers' = {x[3] : x \in inFlight} \cup {launched[n] : n \in {m \in Node : Alive(m)}}
    /\ ForgetRemoved
    /\ UNCHANGED <<configs, highestRound, roundPerNode, proc, inFlight, heard>>

\* start_nodes once all were told to stop: the points that wait are dropped,
\* the rounds are left alone, and nobody waits for pushes under way.
DrainAndLaunch ==
    /\ request = "start" /\ todo = {}
    /\ request' = "launch" /\ todo' = configs[run].nodes
    /\ writeQueue' = {}
    /\ drained' = run /\ disturbed' = FALSE
    /\ stragglers' = {x[3] : x \in inFlight} \cup {launched[n] : n \in {m \in Node : Alive(m)}}
    /\ ForgetRemoved
    /\ UNCHANGED <<configs, highestRound, roundPerNode, proc, inFlight, heard>>

\* One of the launches, which run in parallel: it raises if the name is taken,
\* or for other reasons, before or after the container is made.  The request
\* is answered when all have ended.
Launch(n) ==
    /\ request = "launch" /\ n \in todo
    /\ todo' = todo \ {n}
    /\ request' = IF todo' = {} THEN "none" ELSE "launch"
    /\ \/ /\ proc[n] = "none"
          /\ \E p \in {"up", "exited"} :
               /\ proc' = [proc EXCEPT ![n] =
                     IF p = "exited" THEN p
                     ELSE IF JoinRound(configs[run], n) > 0 THEN "wait" ELSE "train"]
               /\ disturbed' = (disturbed \/ p = "exited")
          /\ launched' = [launched EXCEPT ![n] = run]
          /\ round' = [round EXCEPT ![n] = 0]
       \/ disturbed' = TRUE /\ UNCHANGED <<proc, launched, round>>
    /\ UNCHANGED <<configs, highestRound, roundPerNode, writeQueue, inFlight,
                   drained, stragglers, heard>>

\* stop_nodes once all were told to stop: clear_last_seen.
Stopped ==
    /\ request = "stop" /\ todo = {}
    /\ request' = "none"
    /\ roundPerNode' = NoRounds
    /\ UNCHANGED <<todo, configs, highestRound, writeQueue, nodeVars, history>>

\* Docker does not answer, or there is no such graph or dataset: the request
\* ends on the way, its configuration stays.
RequestFails ==
    /\ request # "none"
    /\ request = "launch" => todo = configs[run].nodes
    /\ request' = "none" /\ todo' = {}
    /\ disturbed' = TRUE
    /\ UNCHANGED <<configs, highestRound, roundPerNode, writeQueue, nodeVars,
                   drained, stragglers, heard>>

\* Mutant: the highest round survives.
ClearKeepsHighest ==
    /\ roundPerNode' = NoRounds
    /\ writeQueue' = {}
    /\ heard' = {} /\ disturbed' = TRUE
    /\ UNCHANGED <<request, todo, configs, highestRound, nodeVars, drained, stragglers>>

\* clear, at any time: the points are saved, under the configuration set last,
\* and the rounds forgotten.
Clear ==
    /\ highestRound' = 0
    /\ roundPerNode' = NoRounds
    /\ writeQueue' = {}
    /\ heard' = {} /\ disturbed' = TRUE
    /\ UNCHANGED <<request, todo, configs, nodeVars, drained, stragglers>>

-----------------------------------------------------------------------------
(* Metrics. *)

\* _flush_metrics and the request of _push_metrics: the loop awaits each, only
\* the last one, of stop_push_loop, may overtake the one before.
Push(n) ==
    /\ Alive(n)
    /\ proc[n] = "leave" \/ \A x \in inFlight : x[1] # n \/ x[3] # launched[n]
    /\ Cardinality({x[1] : x \in inFlight} \cup {n}) <= MaxSenders
    /\ inFlight' = inFlight \cup {<<n, round[n], launched[n]>>}
    /\ UNCHANGED <<managerVars, proc, launched, round, history>>

\* A push is lost, or times out.
LosePush(x) ==
    /\ inFlight' = inFlight \ {x}
    /\ UNCHANGED <<managerVars, proc, launched, round, history>>

Larger(a, b) == IF a > b THEN a ELSE b

\* Mutant: the round received last replaces the one before.
LatestRound(a, b) == b

\* push: what may come out of order only raises the rounds.
RaisedRound(a, b) == Larger(a, b)

\* A push is taken for its node's name, whatever has become of the container.
ReceivePush(x) ==
    /\ inFlight' = inFlight \ {x}
    /\ highestRound' = RaisedRound(highestRound, x[2])
    /\ roundPerNode' = [roundPerNode EXCEPT ![x[1]] = RaisedRound(@, x[2])]
    /\ writeQueue' = writeQueue \cup {x[3]}
    /\ heard' = heard \cup {x[3]}
    /\ UNCHANGED <<request, todo, configs, proc, launched, round, drained,
                   stragglers, disturbed>>

-----------------------------------------------------------------------------
(* The nodes. *)

\* wait_for_round, then Learner.__init__.
Join(n) ==
    /\ proc[n] = "wait"
    /\ highestRound >= JoinRound(Own(n), n)
    /\ proc' = [proc EXCEPT ![n] = "train"]
    /\ UNCHANGED <<managerVars, launched, round, inFlight, history>>

\* The learner's next round, up to its exit round; a late joiner begins with
\* its join round.
NextRound(n) ==
    /\ proc[n] = "train" /\ round[n] < Own(n).rounds
    /\ LET r == Larger(round[n] + 1, JoinRound(Own(n), n))
           exit == ExitRound(Own(n), n)
       IN  /\ round' = [round EXCEPT ![n] = r]
           /\ proc' = [proc EXCEPT ![n] = IF exit > 0 /\ r > exit THEN "leave" ELSE @]
    /\ UNCHANGED <<managerVars, launched, inFlight, history>>

\* After the last round a node reports one more and goes to the barrier.
Finish(n) ==
    /\ proc[n] = "train" /\ round[n] = Own(n).rounds
    /\ round' = [round EXCEPT ![n] = @ + 1]
    /\ proc' = [proc EXCEPT ![n] = "barrier"]
    /\ UNCHANGED <<managerVars, launched, inFlight, history>>

Expected(c) == c.nodes \ c.early

\* Mutant: a node in its last round passes for one that is done.
AllCompletedEarly ==
    run > 0 /\ \A n \in Expected(configs[run]) : roundPerNode[n] >= configs[run].rounds

\* all_completed, by the configuration set last, whoever asks.
AllCompleted ==
    run > 0 /\ \A n \in Expected(configs[run]) : roundPerNode[n] > configs[run].rounds

\* _await_run_completion sees the run completed.
BarrierOpens(n) ==
    /\ proc[n] = "barrier"
    /\ AllCompleted
    /\ proc' = [proc EXCEPT ![n] = "leave"]
    /\ UNCHANGED <<managerVars, launched, round, inFlight, history>>

\* The cap of 30 minutes is over, or the request times out, which no handler
\* catches.
BarrierGivesUp(n) ==
    /\ proc[n] = "barrier"
    /\ proc' = [proc EXCEPT ![n] = "leave"]
    /\ disturbed' = TRUE
    /\ UNCHANGED <<managerVars, launched, round, inFlight, drained, stragglers, heard>>

\* start's finally: after one more Push the process ends.
Leave(n) ==
    /\ proc[n] = "leave"
    /\ proc' = [proc EXCEPT ![n] = "exited"]
    /\ UNCHANGED <<managerVars, launched, round, inFlight, history>>

\* One that has told of its end may die without harm.
Told(n) ==
    \/ proc[n] = "leave"
    \/ proc[n] = "barrier" /\ roundPerNode[n] >= round[n]

Crash(n) ==
    /\ Alive(n)
    /\ proc' = [proc EXCEPT ![n] = "exited"]
    /\ disturbed' = (disturbed \/ ~Told(n))
    /\ UNCHANGED <<managerVars, launched, round, inFlight, drained, stragglers, heard>>

Next ==
    \/ \E c \in Config : StartRequest(c)
    \/ StopRequest \/ DrainAndLaunch \/ Stopped \/ RequestFails \/ Clear
    \/ \E n \in Node :
         \/ StopContainer(n) \/ Launch(n) \/ Push(n) \/ Join(n)
         \/ NextRound(n) \/ Finish(n) \/ BarrierOpens(n) \/ BarrierGivesUp(n)
         \/ Leave(n) \/ Crash(n)
    \/ \E x \in inFlight : LosePush(x) \/ ReceivePush(x)

Spec == Init /\ [][Next]_vars

-----------------------------------------------------------------------------
(* Correctness. *)

\* The barrier keeps every relay until its run is over: when it lets a node of
\* the run go, all nodes but those that exit early have finished their rounds,
\* provided that the manager has heard of no other run since its metrics were
\* cleared.
BarrierSafe ==
    [][\A n \in Node :
         BarrierOpens(n) /\ launched[n] = run /\ heard \subseteq {run} =>
           \A m \in Expected(configs[run]) :
             launched[m] = run /\ round[m] > configs[run].rounds]_vars

\* With the same proviso a late joiner is let in only when a node of its own
\* run has reached its join round.
JoinsLate ==
    [][\A n \in Node :
         Join(n) /\ launched[n] = run /\ heard \subseteq {run} =>
           \E m \in Node : launched[m] = run /\ round[m] >= JoinRound(Own(n), n)]_vars

\* Once a start has drained the queue, a file saved under its configuration
\* has points of other runs only if one of their containers outlived the stop
\* or a push of theirs was under way at the drain.
OneRunPerFile == drained = run => writeQueue \subseteq {run} \cup stragglers

\* Where every node of the run waits, for the round to join or at the barrier,
\* and the manager knows how far each has come, one of them may go on: in a run
\* that was launched whole, is neither stopped nor cleared, and in which nobody
\* dies before the manager knows of its end, the nodes, of which some join
\* late, some exit early and any push may be lost or late, never all wait for
\* one another.  Some node must do neither: the last word of one that exits
\* early may be lost, and nobody else knows the round.
NobodyStranded ==
    run > 0 /\ drained = run =>
      LET c == configs[run]
          up == {n \in c.nodes : Alive(n)}
          waiting == {n \in up : proc[n] = "wait"}
      IN  /\ c.late \cup c.early # c.nodes
          /\ request = "none" /\ ~disturbed
          /\ \A n \in up : proc[n] \in {"wait", "barrier"} /\ roundPerNode[n] >= round[n]
          => /\ \A n \in waiting : highestRound >= JoinRound(c, n)
             /\ waiting = {} /\ up # {} => AllCompleted
=============================================================================
