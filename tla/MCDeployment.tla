---------------------------- MODULE MCDeployment ----------------------------
(* TLC instance of Deployment.  Forms over every kind of graph with at most ten *)
(* nodes; requests with attacks and roles the form does not offer; the paths of *)
(* the graphs with at most eight nodes, over one, two and three hops.           *)
EXTENDS Deployment

\* 2e1 is 20 and 2, 0.8e1 is 8 and 0.
MCEntries ==
    "n_nodes" :> {Plain(n) : n \in {2, 4, 6, 7, 8}} \cup {Blank, Text(20, 2)}
    @@ "topology_type" :> {"full_mesh", "circulant", "ring_lattice", "hypercube"}
    @@ "graph_degree" :> {Plain(n) : n \in {2, 3, 4}}
    @@ "n_rounds" :> {Plain(10)}
    @@ "max_hops" :> {Plain(n) : n \in {1, 2, 3}}
    @@ "attack_type" :> {"none", "label_flip"}
    @@ "n_byzantine" :> {Plain(n) : n \in {0, 1, 4}} \cup {Blank, Text(8, 0)}
    @@ "n_join_late" :> {Plain(n) : n \in {0, 2}}
    @@ "n_exit_early" :> {Plain(n) : n \in {0, 1, 3}} \cup {Blank}

\* All divisions of four nodes into roles.
MCRequests ==
    {[Defaults EXCEPT !.n_nodes = 4, !.n_rounds = rounds, !.attack_type = attack,
                      !.n_byzantine = byz, !.n_join_late = late, !.n_exit_early = early] :
        rounds \in {1, 3, 10}, attack \in {"none", "sign_flip"},
        byz \in 0..4, late \in 0..4, early \in 0..4}

Config(type, n, degree, hops) ==
    [type |-> type, n_nodes |-> n, degree |-> degree, max_hops |-> hops]

MCConfigs ==
    {Config(g[1], g[2], g[3], hops) :
        g \in {<<"full_mesh", 2, 4>>, <<"full_mesh", 4, 4>>, <<"circulant", 6, 2>>,
               <<"circulant", 6, 4>>, <<"circulant", 7, 2>>, <<"circulant", 7, 4>>,
               <<"circulant", 8, 4>>,
               <<"ring_lattice", 6, 2>>, <<"hypercube", 8, 4>>},
        hops \in 1..3}

\* What is started while nodes run: fewer, more and as many.
MCReruns ==
    {[Defaults EXCEPT !.n_nodes = n, !.n_rounds = 3] : n \in {2, 4}}
    \cup {[Defaults EXCEPT !.n_nodes = 8, !.topology_type = "circulant"]}

MCSettings ==
    {[mix_enabled |-> mix, mix_outbox_size |-> 3, mix_mu |-> 100, model_name |-> m[1],
      quantization_bits |-> IF mix THEN 8 ELSE 32, sphinx_body_len |-> 10240,
      partial_update_ratio |-> m[2],
      aggregation_algorithm |-> "krum", krum_byzantine_fraction |-> 33,
      attack_type |-> "none", n_byzantine |-> 0] :
        mix \in BOOLEAN,
        m \in {<<"lenet5", 30>>, <<"squeezenet", 50>>, <<"mobilenetv2", 100>>}}
=============================================================================
