----------------------------- MODULE Indicators -----------------------------
(***************************************************************************)
(* What the manager predicts of an experiment before it is started           *)
(* (indicator_service.py, compute_topology_info of topology_service.py), as *)
(* the dashboard shows it beside the form.  Fractions are given in percent   *)
(* and mix_mu in milliseconds; the two entropies, logarithms of the number   *)
(* of paths and of outcomes at a relay, are left out but for that number.    *)
(***************************************************************************)
EXTENDS Topology

SPHINX_BODY_LEN == 10240
SPHINX_PACKET_SIZE == SPHINX_BODY_LEN + 192 + 37

\* MODEL_APPROX_PARAMS
MODEL_APPROX_PARAMS == [lenet5 |-> 62000, squeezenet |-> 727000, mobilenetv2 |-> 2230000]

CeilDiv(a, b) == (a + b - 1) \div b

\* round(count * percent / 100), half to even
RoundPercent(count, percent) ==
    LET x == count * percent
        down == x \div 100
    IN  IF x % 100 > 50 \/ (x % 100 = 50 /\ down % 2 = 1) THEN down + 1 ELSE down

Invalid == [valid |-> FALSE]
Info(degree, diameter) == [valid |-> TRUE, degree |-> degree, diameter |-> diameter]

\* compute_topology_info
compute_topology_info(c) ==
    CASE c.type = "full_mesh" -> Info(c.n_nodes - 1, 1)
      [] c.type \in {"circulant", "ring_lattice"} ->
            IF c.degree % 2 # 0 \/ c.degree >= c.n_nodes
               \/ (c.type = "circulant"
                   /\ OffsetsWithin(c.n_nodes, c.degree \div 2, c.n_nodes - 1) = {})
            THEN Invalid
            ELSE Info(c.degree, Diameter(generate_adjacency(c)))
      [] c.type = "hypercube" ->
            IF c.n_nodes >= 4 /\ PowerOfTwo(c.n_nodes)
            THEN LET dimension == CHOOSE d \in 0..c.n_nodes : c.n_nodes = 2^d
                 IN  Info(dimension, dimension)
            ELSE Invalid


\* _reachable_at_hops: the manager's own copy of what the nodes compute.
reachable_at_hops(adj, start, hops) ==
    LET current[h \in 0..hops] ==
            IF h = 0 THEN {start} ELSE UNION {adj[node] : node \in current[h - 1]}
    IN  current[hops] \ {start}

\* _chunk_capacity
chunk_capacity(bytes_per_chunk, quantize) ==
    Max({1, IF quantize THEN bytes_per_chunk - 8 ELSE bytes_per_chunk \div 4})

\* compute_indicators, of the graph c and the other settings s.
compute_indicators(c, s) ==
    LET info == compute_topology_info(c)
        adj == generate_adjacency(c)
        reachable == reachable_at_hops(adj, 0, c.max_hops)
        exchange_peers == IF s.mix_enabled /\ c.n_nodes > 1 /\ reachable # {}
                          THEN Cardinality(reachable) ELSE info.degree
        fragments == CeilDiv(MODEL_APPROX_PARAMS[s.model_name],
                             chunk_capacity(SPHINX_BODY_LEN - 512, s.quantization_bits = 8))
        messages == fragments * Max({1, RoundPercent(exchange_peers, s.partial_update_ratio)})
        packets == IF s.mix_enabled
                   THEN CeilDiv(messages, s.mix_outbox_size) * s.mix_outbox_size ELSE 0
        cycle == IF s.mix_enabled THEN s.mix_outbox_size * s.mix_mu ELSE 0
    IN  IF ~info.valid THEN [error |-> TRUE]
        ELSE [error |-> FALSE, degree |-> info.degree, diameter |-> info.diameter,
              exchange_peers |-> exchange_peers,
              total_paths |-> IF s.mix_enabled
                              THEN MapThenSumSet(LAMBDA k : s.mix_outbox_size^k, 1..c.max_hops)
                              ELSE 0,
              anonymity_set_size |-> IF s.mix_enabled /\ c.n_nodes > 1
                                     THEN Cardinality(reachable) ELSE 0,
              fragments_per_model |-> fragments,
              messages_per_node |-> messages,
              total_messages |-> messages * c.n_nodes,
              bytes_per_round |-> messages * c.n_nodes * SPHINX_BODY_LEN,
              bandwidth_per_node |-> IF s.mix_enabled
                                     THEN (1000 * SPHINX_PACKET_SIZE) \div s.mix_mu ELSE 0,
              mix_cycle_time |-> cycle,
              theoretical_rtt_lower_bound |-> 2 * c.max_hops * cycle,
              total_packets_per_node |-> packets,
              total_bytes_network |-> packets * c.n_nodes * c.max_hops * SPHINX_PACKET_SIZE,
              krum_safe |-> IF s.aggregation_algorithm = "krum"
                            THEN 100 * s.n_byzantine <= s.krum_byzantine_fraction * c.n_nodes
                            ELSE s.attack_type = "none"]
=============================================================================
