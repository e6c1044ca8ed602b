------------------------------ MODULE Topology ------------------------------
(***************************************************************************)
(* The graphs the manager builds for a run (topology_service.py) and the   *)
(* exchange targets the nodes derive from them (sphinx_router.py).  Nodes  *)
(* are numbered from 0.                                                    *)
(***************************************************************************)
EXTENDS Integers, FiniteSets, FiniteSetsExt

CONSTANT
    Configs         \* records [type, n_nodes, degree, max_hops]

ASSUME TopologyAssumption ==
    /\ IsFiniteSet(Configs)
    /\ \A c \in Configs :
         /\ c.type \in {"full_mesh", "circulant", "ring_lattice", "hypercube"}
         /\ c.n_nodes \in Nat \ {0} /\ c.degree \in Nat /\ c.max_hops \in Nat \ {0}

NodesOf(c) == 0..c.n_nodes - 1

\* n & (n - 1) is 0: no odd number but 1 divides n.
PowerOfTwo(n) == \A d \in 2..n : n % d = 0 => d % 2 = 0

-----------------------------------------------------------------------------
(* networkx: the neighbours of a node in the graphs that are used. *)

CirculantGraph(n, offsets) ==
    [i \in 0..n - 1 |-> {(i + s) % n : s \in offsets}
                          \cup {(i - s) % n : s \in offsets}]

HypercubeGraph(n) ==
    LET weights == {w \in 1..n : PowerOfTwo(w)}
        sets_bit(i, j) == \E w \in weights : (i \div w) % 2 = 0 /\ j = i + w
    IN  [i \in 0..n - 1 |-> {j \in 0..n - 1 : sets_bit(i, j) \/ sets_bit(j, i)}]

CompleteGraph(n) == [i \in 0..n - 1 |-> (0..n - 1) \ {i}]

\* The nodes at most k hops from i in the graph adj.
Ball(adj, i, k) ==
    LET ball[h \in 0..k] ==
            IF h = 0 THEN {i}
            ELSE ball[h - 1] \cup UNION {adj[j] : j \in ball[h - 1]}
    IN  ball[k]

\* k hops lead from any node to any other.
Spans(adj, k) == \A i \in DOMAIN adj : Ball(adj, i, k) = DOMAIN adj

Connected(adj) == Spans(adj, Cardinality(DOMAIN adj))

\* The diameter of a connected graph.
Diameter(adj) ==
    CHOOSE k \in 0..Cardinality(DOMAIN adj) :
        Spans(adj, k) /\ (k > 0 => ~Spans(adj, k - 1))

-----------------------------------------------------------------------------
(* topology_service.py *)

Gcd1(n, offsets) == ~\E d \in 2..n : n % d = 0 /\ \A s \in offsets : s % d = 0

\* Mutant: graphs whose edges all join an even node and an odd one are taken.
CandidateOffsetsBipartite(n, half_degree) ==
    {offsets \in kSubset(half_degree, 1..(n - 1) \div 2) : Gcd1(n, offsets)}

\* The combinations _find_best_offsets evaluates: those of connected graphs
\* that are not bipartite.
CandidateOffsets(n, half_degree) ==
    {offsets \in kSubset(half_degree, 1..(n - 1) \div 2) :
        /\ Gcd1(n, offsets)
        /\ ~(n % 2 = 0 /\ Cardinality({s % 2 : s \in offsets}) = 1)}

\* combinations() yields sets of one size in this order.
LexFirst(sets) ==
    CHOOSE a \in sets : \A b \in sets \ {a} : Min((a \ b) \cup (b \ a)) \in a

\* The combinations evaluated whose graph has at most this diameter.
OffsetsWithin(n, half_degree, hops) ==
    {offsets \in CandidateOffsets(n, half_degree) :
        \E h \in 0..hops : Spans(CirculantGraph(n, offsets), h)}

\* _find_best_offsets: the first of the least diameter, where 2 is good enough
\* to end the search.  (Its cap of 15000 combinations is left out.)
BestOffsets(n, half_degree) ==
    LET best_diameter == CHOOSE k \in 2..n + 1 :
                            /\ OffsetsWithin(n, half_degree, k) # {}
                            /\ \A h \in 2..k - 1 : OffsetsWithin(n, half_degree, h) = {}
    IN  LexFirst(OffsetsWithin(n, half_degree, best_diameter))

\* What generate_adjacency and ExperimentConfig reject.
Valid(c) ==
    CASE c.type = "circulant" ->
            /\ c.degree % 2 = 0 /\ c.degree < c.n_nodes
            /\ OffsetsWithin(c.n_nodes, c.degree \div 2, c.n_nodes - 1) # {}
      [] c.type = "ring_lattice" -> c.degree % 2 = 0 /\ c.degree < c.n_nodes
      [] c.type = "hypercube" -> c.n_nodes >= 4 /\ PowerOfTwo(c.n_nodes)
      [] OTHER -> TRUE

generate_adjacency(c) ==
    CASE c.type = "circulant" ->
            CirculantGraph(c.n_nodes, BestOffsets(c.n_nodes, c.degree \div 2))
      [] c.type = "ring_lattice" -> CirculantGraph(c.n_nodes, 1..c.degree \div 2)
      [] c.type = "hypercube" -> HypercubeGraph(c.n_nodes)
      [] OTHER -> CompleteGraph(c.n_nodes)

-----------------------------------------------------------------------------
(* sphinx_router.py *)

\* _get_reachable_at_hops: where walks of exactly this length end.
ReachableAtHops(adj, start, hops) ==
    LET level[h \in 0..hops] ==
            IF h = 0 THEN {start} ELSE UNION {adj[i] : i \in level[h - 1]}
    IN  level[hops] \ {start}

\* Who sends fragments to whom: get_exchange_targets.
ExchangeGraph(adj, hops) ==
    [i \in DOMAIN adj |-> ReachableAtHops(adj, i, hops)]
=============================================================================
