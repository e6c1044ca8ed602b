----------------------------- MODULE Deployment -----------------------------
(***************************************************************************)
(* The way of an experiment's configuration from the form of the dashboard, *)
(* or a client of the interface, over the checks of the manager into the    *)
(* environment of each node (useExperimentConfig.js, configModels.js,       *)
(* config_models.py, node_service.py, config_store.py), with the keys made  *)
(* for the run (Secrets), and from there to the paths of node 0             *)
(* (SphinxRouter); and the indicators computed on the way (Indicators).  Of *)
(* the form's fields only those are modelled that a check relates to each   *)
(* other, and max_hops; the others have bounds of their own, which form and *)
(* manager share.                                                           *)
(***************************************************************************)
EXTENDS SphinxRouter, Indicators, Secrets

CONSTANTS
    NaN,            \* what parseInt() makes of a text that begins with no digit
    Entries,        \* field -> what the operator may enter or choose
    Requests,       \* what clients other than the dashboard post
    Reruns,         \* what is posted while nodes are running
    MaxRuns,        \* bound: runs started
    MaxLeft,        \* bound: containers that could not be removed
    Settings        \* the settings of Indicators, each tried with every graph

ASSUME DeploymentAssumption == NaN \notin Int /\ MaxRuns \in Nat /\ MaxLeft \in Nat

-----------------------------------------------------------------------------
(* The form. *)

\* CONFIG_SCHEMA
NetworkSchema ==
    [n_nodes |-> [default |-> 10, min |-> 1, max |-> 100],
     topology_type |-> [default |-> "full_mesh"],
     graph_degree |-> [default |-> 4, min |-> 2, max |-> 10],
     n_rounds |-> [default |-> 10, min |-> 1, max |-> 100]]
HopsSchema == [max_hops |-> [default |-> 2, min |-> 1, max |-> 5]]
AttackSchema ==
    [attack_type |-> [default |-> "none"],
     n_byzantine |-> [default |-> 0, min |-> 0, max |-> 99]]
ScheduleSchema ==
    [n_join_late |-> [default |-> 0, min |-> 0, max |-> 39],
     n_exit_early |-> [default |-> 0, min |-> 0, max |-> 39]]

Groups == {NetworkSchema, HopsSchema, AttackSchema, ScheduleSchema}
Fields == UNION {DOMAIN group : group \in Groups}
Schema == [key \in Fields |-> (CHOOSE group \in Groups : key \in DOMAIN group)[key]]
NumberFields == Fields \ {"topology_type", "attack_type"}

\* visibleWhen
Visible(f, key) ==
    /\ key = "graph_degree" => f.topology_type \in {"circulant", "ring_lattice"}
    /\ key = "n_byzantine" => f.attack_type # "none"

\* The text in a number field: what Number() makes of it, and what parseInt()
\* makes of it, which stops at the first character that is no digit.
Text(number, digits) == [number |-> number, digits |-> digits]
Plain(n) == Text(n, n)
\* The empty text.
Blank == Text(0, NaN)

Number(text) == text.number

\* validateConfigValue
OutOfRange(f, key) ==
    Number(f[key]) \notin Schema[key].min..Schema[key].max

\* Mutant: a degree as large as the number of nodes is let through.
ErrorsWithoutDegree(f) ==
    LET roles == Number(f.n_join_late) + Number(f.n_exit_early) + Number(f.n_byzantine)
    IN  {key \in NumberFields :
            \/ OutOfRange(f, key)
            \/ /\ key = "graph_degree" /\ Visible(f, key)
               /\ Number(f.graph_degree) % 2 # 0
            \/ /\ key = "n_nodes" /\ f.topology_type = "hypercube"
               /\ Number(f.n_nodes) < 4 \/ ~PowerOfTwo(Number(f.n_nodes))
            \/ /\ key = "n_byzantine"
               /\ roles > Number(f.n_nodes) \/ (Number(f[key]) = 0 /\ f.attack_type # "none")}

\* validateConfig: the fields with an error.  (That of Byzantine nodes without
\* an attack cannot occur: the field is then hidden, and reset.)
Errors(f) ==
    LET roles == Number(f.n_join_late) + Number(f.n_exit_early) + Number(f.n_byzantine)
    IN  {key \in NumberFields :
            \/ OutOfRange(f, key)
            \/ /\ key = "graph_degree" /\ Visible(f, key)
               /\ \/ Number(f.graph_degree) % 2 # 0
                  \/ Number(f.graph_degree) >= Number(f.n_nodes)
            \/ /\ key = "n_nodes" /\ f.topology_type = "hypercube"
               /\ Number(f.n_nodes) < 4 \/ ~PowerOfTwo(Number(f.n_nodes))
            \/ /\ key = "n_byzantine"
               /\ roles > Number(f.n_nodes) \/ (Number(f[key]) = 0 /\ f.attack_type # "none")}

Defaults == [key \in Fields |-> Schema[key].default]

\* getDefaultConfig
DefaultForm ==
    [key \in Fields |-> IF key \in NumberFields THEN Plain(Defaults[key]) ELSE Defaults[key]]

\* getConfigForSubmit
ConfigForSubmit(f) ==
    [key \in Fields |-> IF key \in NumberFields THEN f[key].digits ELSE f[key]]

\* parseInt() makes an integer of a text, or NaN.
ASSUME EntriesAssumption ==
    \A key \in NumberFields : \A text \in Entries[key] : text.digits \in Int \cup {NaN}

\* Both read the same number in every field.
ReadAlike(f) == \A key \in NumberFields : f[key].number = f[key].digits

\* The number fields of a request hold integers, or null.
ASSUME RequestAssumption ==
    \A c \in Requests \cup Reruns : \A key \in NumberFields : c[key] \in Int \cup {NaN}

-----------------------------------------------------------------------------
(* The manager. *)

\* The bounds of ExperimentConfig's fields; null, which JSON makes of NaN, is no
\* integer.
WithinBounds(c) ==
    /\ \A key \in NumberFields : c[key] # NaN
    /\ c.n_nodes \in 1..100 /\ c.n_rounds \in 1..100 /\ c.max_hops \in 1..5
    /\ c.graph_degree >= 2
    /\ c.n_byzantine >= 0 /\ c.n_join_late >= 0 /\ c.n_exit_early >= 0

\* Mutant: roles of their own are not added up.
RolesFitOneByOne(c) ==
    /\ (c.n_byzantine > 0) = (c.attack_type # "none")
    /\ c.n_byzantine < c.n_nodes
    /\ c.n_join_late + c.n_exit_early <= c.n_nodes

\* validate_byzantine_constraints
RolesFit(c) ==
    /\ (c.n_byzantine > 0) = (c.attack_type # "none")
    /\ c.n_byzantine < c.n_nodes
    /\ c.n_join_late + c.n_exit_early + c.n_byzantine <= c.n_nodes

\* What Topology and SphinxRouter know of a configuration.
GraphOf(c) == [type |-> c.topology_type, n_nodes |-> c.n_nodes,
               degree |-> c.graph_degree, max_hops |-> c.max_hops]

\* The request is validated, and a graph is found for it.
Accepts(c) == WithinBounds(c) /\ RolesFit(c) /\ Valid(GraphOf(c))

\* ceil(0.3 * n_rounds) and floor(0.5 * n_rounds)
JoinRound(c) == IF c.n_join_late > 0 THEN (3 * c.n_rounds + 9) \div 10 ELSE 0
ExitRound(c) == IF c.n_exit_early > 0 THEN c.n_rounds \div 2 ELSE 0

JoinSchedule(c) == [i \in 0..c.n_join_late - 1 |-> JoinRound(c)]
\* Mutant: both schedules start at node 0.
ExitScheduleFromZero(c) == [i \in 0..c.n_exit_early - 1 |-> ExitRound(c)]
ExitSchedule(c) ==
    [i \in c.n_join_late..c.n_join_late + c.n_exit_early - 1 |-> ExitRound(c)]

\* A dictionary in the environment has texts for keys; one without keys is the
\* empty text.
Json(f) == [key \in {ToString(i) : i \in DOMAIN f} |->
               f[CHOOSE i \in DOMAIN f : ToString(i) = key]]

\* to_env_dict, of the configuration _launch makes for node i
EnvOf(c, adjacency, i) ==
    [NODE_ID |-> ToString(i), N_NODES |-> ToString(c.n_nodes),
     MAX_HOPS |-> ToString(c.max_hops), N_BYZANTINE |-> ToString(c.n_byzantine),
     NEIGHBORS |-> {ToString(j) : j \in adjacency[i]},
     TOPOLOGY |-> Json(adjacency),
     JOIN_SCHEDULE |-> Json(JoinSchedule(c)), EXIT_SCHEDULE |-> Json(ExitSchedule(c))]

-----------------------------------------------------------------------------
(* What a node reads. *)

Int10(text) == CHOOSE i \in 0..100 : ToString(i) = text

\* The texts of different numbers differ.
ASSUME TextAssumption == \A i, j \in 0..100 : ToString(i) = ToString(j) => i = j

\* _env_json_dict_required and _env_json_int_dict_required
Dict(f) == [i \in {Int10(key) : key \in DOMAIN f} |-> f[ToString(i)]]

\* The class attributes of ConfigStore, of what EnvOf has.
ConfigStore(env) ==
    [node_id |-> Int10(env.NODE_ID), n_nodes |-> Int10(env.N_NODES),
     max_hops |-> Int10(env.MAX_HOPS), n_byzantine |-> Int10(env.N_BYZANTINE),
     join_schedule |-> Dict(env.JOIN_SCHEDULE), exit_schedule |-> Dict(env.EXIT_SCHEDULE),
     neighbors |-> {Int10(text) : text \in env.NEIGHBORS}, topology |-> Dict(env.TOPOLOGY)]

RoundIn(schedule, i) == IF i \in DOMAIN schedule THEN schedule[i] ELSE 0

my_join_round(store) == RoundIn(store.join_schedule, store.node_id)
my_exit_round(store) == RoundIn(store.exit_schedule, store.node_id)

is_byzantine(store) ==
    /\ store.n_byzantine > 0
    /\ store.node_id >= store.n_nodes - store.n_byzantine

\* PeerNode takes all others for neighbours where none are given.
NeighborsOf(store) ==
    IF store.neighbors # {} THEN store.neighbors
    ELSE (0..store.n_nodes - 1) \ {store.node_id}

\* _i_dial: the later to join, or else the one the pair's parity names.
IDial(store, peer) ==
    LET me == store.node_id
        peer_join == RoundIn(store.join_schedule, peer)
    IN  IF my_join_round(store) # peer_join THEN my_join_round(store) > peer_join
        ELSE me = (IF (me + peer) % 2 = 0 THEN Min({me, peer}) ELSE Max({me, peer}))

-----------------------------------------------------------------------------
VARIABLES
    stage,          \* "form", "launched" or "running"
    form,           \* config of the dashboard
    errors,         \* the fields it shows an error at
    request,        \* the configuration the nodes were launched with
    envs,           \* node -> its environment
    made,           \* the runs keys were made for so far: their n_nodes
    containers,     \* name -> the run it was launched in, and whether it has exited
    failed          \* the start was answered with an error

keys == <<made, containers, failed>>
run == Len(made)
routing == <<config, topology, pool, unreachable, linked, built>>
allVars == <<stage, form, errors, request, envs, keys, routing>>

\* The directory ./secrets as the k-th run finds it.
SecretsOf[k \in Nat] ==
    IF k = 0 THEN NoSecrets ELSE generate_keys(made[k], k, SecretsOf[k - 1])

\* No node is running.
Idle ==
    /\ config = [type |-> "none", n_nodes |-> 0, degree |-> 0, max_hops |-> 1]
    /\ topology = <<>> /\ pool = <<>> /\ unreachable = {} /\ linked = {}
    /\ built = NoPath

DeployInit ==
    /\ stage = "form" /\ form = DefaultForm /\ errors = {}
    /\ request = Defaults /\ envs = <<>> /\ Idle
    /\ made = <<>> /\ containers = <<>> /\ failed = FALSE

\* updateConfig: what becomes hidden returns to its default.
UpdateConfig(key, value) ==
    LET next == [form EXCEPT ![key] = value]
    IN  /\ stage = "form" /\ Visible(form, key) /\ value # form[key]
        /\ form' = [k \in Fields |->
                       IF Visible(next, k) THEN next[k] ELSE DefaultForm[k]]
        /\ errors' = Errors(form')
        /\ UNCHANGED <<stage, request, envs, keys, routing>>

\* stop_all_nodes: a container that cannot be stopped, or not be removed once
\* it is, is passed over, and stays.
Remainders ==
    UNION {[names -> BOOLEAN] :
              names \in UNION {kSubset(k, DOMAIN containers) : k \in 0..MaxLeft}}

stop_all_nodes(stopped) ==
    [i \in DOMAIN stopped |-> [containers[i] EXCEPT !.exited = stopped[i]]]

\* start_nodes, as one step (its requests and stops are interleaved with the
\* nodes in RunControl): a request that is not accepted changes nothing that lasts.  A
\* container that is in the way of one of its name makes its launch raise, and
\* so the request, when the others are launched.
Launch(c) ==
    LET adjacency == generate_adjacency(GraphOf(c))
        nodes == 0..c.n_nodes - 1
    IN  /\ Accepts(c)
        /\ stage' = "launched" /\ request' = c
        /\ made' = Append(made, c.n_nodes)
        /\ \E stopped \in Remainders : containers' = stop_all_nodes(stopped)
        /\ failed' = (DOMAIN containers' \cap nodes # {})
        /\ envs' = [i \in nodes |-> EnvOf(c, adjacency, i)]
        /\ form' = DefaultForm /\ errors' = {}    \* the form is not followed further
        /\ UNCHANGED routing

\* handleStart: the dashboard submits a form without errors.
Start == stage = "form" /\ errors = {} /\ Launch(ConfigForSubmit(form))

Post == stage = "form" /\ form = DefaultForm /\ \E c \in Requests : Launch(c)

\* A start while nodes are running.  Bound: before they lose or send anything.
PostAgain ==
    /\ stage = "running" /\ run < MaxRuns
    /\ unreachable = {} /\ built = NoPath
    /\ \E c \in Reruns : Launch(c)

\* The nodes start and load the keys of this run, and node 0 makes its sessions
\* and paths from its environment, if its container is not that of an earlier
\* run.  Bound: the runs followed further are those of Configs.
NodeStarts ==
    LET store == ConfigStore(envs[Self])
        adjacency == store.topology
    IN  /\ stage = "launched" /\ GraphOf(request) \in Configs
        /\ stage' = "running" /\ request' = Defaults /\ envs' = <<>>
        /\ containers' = Over(containers, [i \in DOMAIN envs |-> [run |-> run, exited |-> FALSE]])
        /\ IF Self \in DOMAIN containers
           THEN UNCHANGED routing
           ELSE /\ config' = GraphOf(request)
                /\ topology' = adjacency
                /\ pool' = PathPool([config' EXCEPT !.max_hops = store.max_hops], adjacency)
                /\ unreachable' = {} /\ linked' = NeighborsOf(store) /\ built' = NoPath
        /\ UNCHANGED <<form, errors, made, failed>>

\* Bound: the paths of the first run.
Route ==
    /\ stage = "running" /\ run = 1
    /\ Next
    /\ UNCHANGED <<stage, form, errors, request, envs, keys>>

DeployNext ==
    \/ \E key \in Fields : \E value \in Entries[key] : UpdateConfig(key, value)
    \/ Start
    \/ Post
    \/ PostAgain
    \/ NodeStarts
    \/ Route

DeploySpec == DeployInit /\ [][DeployNext]_allVars

-----------------------------------------------------------------------------
(* Correctness. *)

\* The nodes read from their environments what the experiment asked for: as
\* many late, early and Byzantine ones, no node with two of these roles, a
\* round to leave after for each early one (except in a run of one round, whose
\* half is none), neighbours that know each other, and of each pair exactly one
\* that dials.
RolesAsPlanned ==
    stage = "launched" =>
        LET nodes == DOMAIN envs
            store == [i \in nodes |-> ConfigStore(envs[i])]
            late == {i \in nodes : my_join_round(store[i]) > 0}
            early == {i \in nodes : my_exit_round(store[i]) > 0}
            byzantine == {i \in nodes : is_byzantine(store[i])}
        IN  /\ Cardinality(late) = request.n_join_late
            /\ request.n_rounds > 1 => Cardinality(early) = request.n_exit_early
            /\ Cardinality(byzantine) = request.n_byzantine
            /\ late \cap early = {} /\ (late \cup early) \cap byzantine = {}
            /\ \A i \in nodes : \A j \in NeighborsOf(store[i]) :
                   /\ i \in NeighborsOf(store[j])
                   /\ IDial(store[i], j) # IDial(store[j], i)

\* The dashboard's checks agree with the manager's: a form without errors is
\* accepted.  Three forms are refused all the same, or may be: one with a text
\* that is checked as one number and submitted as another, such as 2e1 or a
\* blank, one that makes all nodes Byzantine, and a circulant of degree 2 with
\* an even number of nodes, which would be bipartite.
FormAgrees ==
    stage = "form" /\ errors = {} =>
        \/ Accepts(ConfigForSubmit(form))
        \/ ~ReadAlike(form)
        \/ Number(form.n_byzantine) = Number(form.n_nodes)
        \/ /\ form.topology_type = "circulant"
           /\ Number(form.graph_degree) = 2 /\ Number(form.n_nodes) % 2 = 0

\* A start that reports no error leaves the nodes of the run with the keys of the
\* run, although every run replaces those of the one before, and containers may
\* outlive it: any of them can dial any other, is registered there under its own
\* name, and takes off what the other has packed for it.  A container left over
\* from an earlier run is no node of theirs.  A dial of it would fail.  One of
\* its own succeeds, for it reads the new authority, but registers it under a
\* name that none of the nodes has, and no layer that it packs for them, or
\* they for one another, is opened by the other side.
OneKeySet ==
    LET loaded == [i \in DOMAIN containers |-> Loaded(SecretsOf[containers[i].run], i)]
        files == [i \in DOMAIN containers |-> ReadToDial(SecretsOf[run], i)]
        nodes == DOMAIN topology
    IN  stage = "running" /\ ~failed =>
            /\ nodes \subseteq DOMAIN containers
            /\ \A a, b \in nodes :
                  /\ Handshake(files[a], b, loaded[b])
                  /\ extract_peer_id(files[a]) = a
                  /\ Opens(loaded[b].x, loaded[a].y[b])
            /\ \A a \in nodes, left \in DOMAIN containers \ nodes :
                  ~containers[left].exited =>
                      /\ ~Handshake(files[a], left, loaded[left])
                      /\ extract_peer_id(files[left]) \notin nodes
                      /\ ~Opens(loaded[a].x, loaded[left].y[a])
                      /\ \A b \in nodes : ~Opens(loaded[left].x, loaded[a].y[b])

\* What node i does in the graph of the run with these settings: whom it
\* exchanges models with (_exchange_candidates), and to how many of them it sends
\* a fragment (send_to_peers).
Candidates(store, s) ==
    IF s.mix_enabled THEN ReachableAtHops(store.topology, store.node_id, store.max_hops)
    ELSE NeighborsOf(store)

Sends(store, s) ==
    LET peers == Cardinality(Candidates(store, s))
    IN  IF s.partial_update_ratio < 100 /\ peers > 0
        THEN Max({1, RoundPercent(peers, s.partial_update_ratio)}) ELSE peers

\* _flatten_state_dict: the weights and the running means and variances of the
\* models for ten classes, by the channels of the images.
FlatLength(model_name, channels) ==
    CASE model_name = "lenet5" -> 61556 + 150 * channels
      [] model_name = "squeezenet" -> 725898 + 576 * channels
      [] model_name = "mobilenetv2" -> 2269930 + 288 * channels

\* create_chunks: where in that array the chunks start.
ChunkStarts(length, chunk_len) ==
    {k * chunk_len : k \in {j \in 0..length \div chunk_len : j * chunk_len < length}}

=============================================================================
