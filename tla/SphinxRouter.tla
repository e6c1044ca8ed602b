---------------------------- MODULE SphinxRouter ----------------------------
(***************************************************************************)
(* The paths of node 0 (sphinx_router.py): the pool of all paths of exactly *)
(* max_hops hops, computed at the start, and the choice of one for a packet *)
(* to a peer or for the reply to it, while peers become unreachable and     *)
(* come back and links are lost and made.  mix_enabled is set; n_hops is    *)
(* given by no caller and left out.                                         *)
(***************************************************************************)
EXTENDS Topology, Sequences, SequencesExt

CONSTANT
    MaxDown         \* bound: peers unreachable, and links missing, at once

ASSUME MaxDown \in Nat

Self == 0

\* _collect_all_paths, with a set of visited nodes or None.
CollectAllPaths(adj, src, dst, hops, simple) ==
    LET walks[h \in 0..hops] ==
            IF h = 0 THEN {<<>>}
            ELSE UNION {LET last == IF w = <<>> THEN src ELSE Last(w)
                            visited == IF simple THEN {src} \cup ToSet(w) ELSE {}
                        IN  {Append(w, j) : j \in adj[last] \ visited}
                          : w \in walks[h - 1]}
    IN  {w \in walks[hops] : Last(w) = dst}

\* _build_path_pool for one pair; no paths stand for no entry.
PathsOfPair(adj, src, dst, hops) ==
    LET paths(simple) == CollectAllPaths(adj, src, dst, hops, simple)
    IN  CASE dst \notin ReachableAtHops(adj, src, hops) -> {}
          [] paths(TRUE) # {} -> paths(TRUE)
          [] OTHER -> paths(FALSE)

VARIABLES
    config,         \* the experiment's configuration
    topology,       \* _topology: node -> its neighbours
    pool,           \* _path_pool, of the pairs this node is one of
    unreachable,    \* the peers whose session is UNREACHABLE
    linked,         \* the neighbours there is a link to: is_live
    built           \* the path built last with these, or <<>>

vars == <<config, topology, pool, unreachable, linked, built>>

NoPath == [start |-> Self, target |-> Self, path |-> <<>>]

Neighbors == topology[Self]

\* The peers whose session may change: those packets are sent to, and the
\* neighbours, whose links count as evidence.
Peers == ReachableAtHops(topology, Self, config.max_hops) \cup Neighbors

OwnPairs(c) == {pair \in NodesOf(c) \X NodesOf(c) :
                   Self \in {pair[1], pair[2]} /\ pair[1] # pair[2]}

PathPool(c, adj) ==
    [pair \in OwnPairs(c) |-> PathsOfPair(adj, pair[1], pair[2], c.max_hops)]

Init ==
    /\ config \in {c \in Configs : Valid(c)}
    /\ topology = generate_adjacency(config)
    /\ pool = PathPool(config, topology)
    /\ unreachable = {}
    /\ linked = Neighbors
    /\ built = NoPath

\* A session becomes UNREACHABLE or leaves that state.
SessionChanges(p) ==
    /\ p \in Peers
    /\ unreachable' = SymDiff(unreachable, {p})
    /\ Cardinality(unreachable') <= MaxDown
    /\ built' = NoPath
    /\ UNCHANGED <<config, topology, pool, linked>>

\* A link to a neighbour is lost or made.
LinkChanges(p) ==
    /\ p \in Neighbors
    /\ linked' = SymDiff(linked, {p})
    /\ Cardinality(Neighbors \ linked') <= MaxDown
    /\ built' = NoPath
    /\ UNCHANGED <<config, topology, pool, unreachable>>

\* No hop is known to be unreachable.
Usable(paths) == {path \in paths : ToSet(path) \cap unreachable = {}}

\* _find_exact_length_path, where a pair has no entry: any path the search in a
\* random order may find, or else the target itself.
ExactLengthPaths(start, target) ==
    LET found(simple) == CollectAllPaths(topology, start, target, config.max_hops, simple)
    IN  CASE found(TRUE) # {} -> found(TRUE)
          [] found(TRUE) = {} /\ found(FALSE) # {} -> found(FALSE)
          [] OTHER -> {<<target>>}

\* Mutant: the live ones are sought among all paths.
PathChoicesAnyLive(start, target) ==
    LET paths == pool[<<start, target>>]
        live == {path \in paths : start = Self /\ path[1] \in linked}
    IN  CASE paths = {} -> ExactLengthPaths(start, target)
          [] live # {} -> live
          [] live = {} /\ Usable(paths) # {} -> Usable(paths)
          [] OTHER -> paths

\* Mutant: the packet goes straight to the target when every path is pruned.
PathChoicesDirect(start, target) ==
    LET usable == Usable(pool[<<start, target>>])
        live == {path \in usable : start = Self /\ path[1] \in linked}
    IN  CASE live # {} -> live
          [] live = {} /\ usable # {} -> usable
          [] OTHER -> {<<target>>}

\* _build_path_to: the paths it chooses from.
PathChoices(start, target) ==
    LET paths == pool[<<start, target>>]
        usable == Usable(paths)
        live == {path \in usable : start = Self /\ path[1] \in linked}
    IN  CASE paths = {} -> ExactLengthPaths(start, target)
          [] live # {} -> live
          [] live = {} /\ usable # {} -> usable
          [] OTHER -> paths

Build(start, target) ==
    \E path \in PathChoices(start, target) :
        /\ built' = [start |-> start, target |-> target, path |-> path]
        /\ UNCHANGED <<config, topology, pool, unreachable, linked>>

\* build_forward_path and build_surb_reply_path.
BuildForward(p) == p \in Peers /\ Build(Self, p)
BuildReply(p) == p \in Peers /\ Build(p, Self)

Next == \E p \in NodesOf(config) :
    SessionChanges(p) \/ LinkChanges(p) \/ BuildForward(p) \/ BuildReply(p)

Spec == Init /\ [][Next]_vars

-----------------------------------------------------------------------------
(* Correctness. *)

\* All walks of exactly max_hops hops from src to dst.
Walks(src, dst) ==
    {w \in [1..config.max_hops -> NodesOf(config)] :
        /\ w[1] \in topology[src]
        /\ \A i \in 2..config.max_hops : w[i] \in topology[w[i - 1]]
        /\ w[config.max_hops] = dst}

\* Whatever is up, a packet and its reply take a path along edges of the graph,
\* of exactly max_hops hops where there is one: no packet is given to a hop
\* that has no link with the one before, and none reveals by its length how far
\* it comes.
PathRoutable ==
    LET path == built.path
        hops == <<built.start>> \o path
    IN  path # <<>> =>
            /\ \A i \in 1..Len(path) : hops[i + 1] \in topology[hops[i]]
            /\ Last(path) = built.target
            /\ Walks(built.start, built.target) # {} =>
                   Len(path) = config.max_hops

\* A path leads over a peer known to be unreachable only if every path of the
\* pool does, and a packet of the node itself goes to a neighbour without a
\* link only if no path that avoids the unreachable has a linked one.
PathAvoidsDead ==
    LET avoiding == {w \in pool[<<built.start, built.target>>] :
                        ToSet(w) \cap unreachable = {}}
        linkedOnes == {w \in avoiding : w[1] \in linked}
    IN  built.path # <<>> =>
            /\ avoiding # {} => ToSet(built.path) \cap unreachable = {}
            /\ linkedOnes # {} /\ built.start = Self => built.path[1] \in linked

\* _verify_topology, when a node starts: otherwise it logs errors.
VerifyTopology ==
    /\ \A i \in NodesOf(config) : \A j \in topology[i] : i \in topology[j]
    /\ \A i, j \in NodesOf(config) :
         /\ Cardinality(topology[i]) = Cardinality(topology[j])
         /\ Cardinality(ReachableAtHops(topology, i, config.max_hops)) =
                Cardinality(ReachableAtHops(topology, j, config.max_hops))

\* The graphs the manager makes look the same from every node, as each node
\* verifies when it starts.  The circulant graphs that are chosen moreover keep
\* the exchange in one piece, whatever max_hops is: from any node a model may
\* travel to any other, and the nodes one sends to are those one receives from.
\* (With an even max_hops a hypercube, or a ring lattice of degree 2, falls
\* apart: no check rejects those.)
ExchangeConnected ==
    /\ VerifyTopology
    /\ config.type \in {"full_mesh", "circulant"} /\ config.n_nodes > 2 =>
           LET graph == ExchangeGraph(topology, config.max_hops)
           IN  /\ Connected(graph)
               /\ \A i, j \in NodesOf(config) : i \in graph[j] <=> j \in graph[i]
=============================================================================
