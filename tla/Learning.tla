------------------------------ MODULE Learning ------------------------------
(***************************************************************************)
(* What happens to the models: how the training data is divided among the  *)
(* nodes (data_partitioner.py), how a peer cuts its model into chunks,     *)
(* falsified when it is Byzantine, and quantizes them (model_handler.py,   *)
(* attacks.py, chunk_codec.py), and how a node aggregates those that came  *)
(* with its own (aggregator.py).                                           *)
(*                                                                         *)
(* Weights are integers.  What is decoded from bytes is a multiple of one  *)
(* 255th of the range of its chunk, so decoded values and all that is      *)
(* computed from them are kept 255 times as large, and means as a sum and  *)
(* a count.  Rounding of floating point numbers is left out.               *)
(***************************************************************************)
EXTENDS Integers, Sequences, FiniteSets, SequencesExt, FiniteSetsExt, Functions

CONSTANTS
    NNodes,           \* n_nodes; node 0 is the one that aggregates
    Tensors,          \* the state dict: [numel, tracked] per tensor, tracked
                      \* for the counters num_batches_tracked
    Models,           \* the state dicts a node may have: values per tensor
    BytesPerChunk,    \* sphinx_body_len - 512
    QuantizationBits,
    FractionsPct,     \* krum_byzantine_fraction, in percent
    Attacks,          \* attack_type: none, sign_flip, gaussian_noise
    NByzantine,       \* n_byzantine
    Noise,            \* what gaussian_noise may add to a weight
    ClassSizes,       \* samples of a class
    Denominator,      \* proportions are drawn in parts of this
    MaxMissing        \* bound: chunks missing when the node aggregates

Nodes == 0..NNodes - 1
Peers == 1..NNodes - 1

ASSUME LearningAssumption ==
    /\ NNodes \in Nat \ {0, 1}
    /\ NByzantine \in 0..NNodes - 1
    /\ QuantizationBits \in {8, 32} /\ BytesPerChunk \in Nat
    /\ FractionsPct \subseteq 0..100
    /\ Attacks \subseteq {"none", "sign_flip", "gaussian_noise"}
    /\ Noise \subseteq Int /\ ClassSizes \subseteq Nat
    /\ Denominator \in Nat \ {0} /\ MaxMissing \in Nat

\* The state dicts have the tensors of the architecture.
ASSUME ModelAssumption ==
    /\ Tensors \in Seq([numel : Nat, tracked : BOOLEAN])
    /\ Models \subseteq Seq(Seq(Int))
    /\ \A m \in Models :
          /\ Len(m) = Len(Tensors)
          /\ \A t \in DOMAIN m : Len(m[t]) = Tensors[t].numel

VARIABLES
    phase,          \* load, exchange, done
    draw,           \* what seed 42 makes every node draw for a class: its
                    \* size and the shares of the nodes
    samples,        \* the samples of the class each node took, {} before
    config,         \* algorithm, fraction and attack of the run
    model,          \* the state dict of each node
    flat,           \* the vector each peer sends, <<>> before
    sent,           \* the chunks it made of it
    missing,        \* the chunks that did not come, with their sender
    result          \* the aggregated state dict

vars == <<phase, draw, samples, config, model, flat, sent, missing, result>>

(***************************************************************************)
(* load_partition                                                          *)
(***************************************************************************)
SumOver(f, S) == MapThenSumSet(LAMBDA x : f[x], S)

\* Dirichlet samples: the shares of the nodes, in parts of Denominator.
Shares == { p \in [Nodes -> 0..Denominator] : SumOver(p, Nodes) = Denominator }

\* Mutant: the last node is treated like the others.
CountsRounded(d) == [n \in Nodes |-> (d.share[n] * d.size) \div Denominator]

\* Rounded down, but the last node gets what is left.
Counts(d) ==
    LET floor == [n \in Nodes |-> (d.share[n] * d.size) \div Denominator]
    IN  [floor EXCEPT ![NNodes - 1] = d.size - SumOver(floor, 0..NNodes - 2)]

\* The samples of the class, in the order drawn, that node n takes.
Partition(d, n) ==
    LET start == SumOver(Counts(d), 0..n - 1) IN start + 1..start + Counts(d)[n]

(***************************************************************************)
(* ModelHandler: the state dict as one vector and back.                    *)
(***************************************************************************)
\* _flatten_state_dict
Flatten(m) ==
    FlattenSeq([t \in DOMAIN m |-> IF Tensors[t].tracked THEN <<>> ELSE m[t]])

\* The offset at which _unflatten_state_dict comes to tensor t.
Offset(t) ==
    SumOver([u \in DOMAIN Tensors |-> IF Tensors[u].tracked THEN 0 ELSE Tensors[u].numel],
        1..t - 1)

\* _unflatten_state_dict; the counters keep their value.
Unflatten(v, m) ==
    [t \in DOMAIN m |->
       IF Tensors[t].tracked THEN m[t]
       ELSE [i \in 1..Tensors[t].numel |-> v[Offset(t) + i]]]

(***************************************************************************)
(* attacks.py, chunk_codec.py                                              *)
(***************************************************************************)
IsByzantine(n) == NByzantine > 0 /\ n >= NNodes - NByzantine

\* apply_weight_attack: the vectors the peer may send for its own.
Attacked(v, n) ==
    IF ~IsByzantine(n) \/ config.attack = "none" THEN {v}
    ELSE CASE config.attack = "sign_flip" -> { [i \in DOMAIN v |-> -v[i]] }
           [] config.attack = "gaussian_noise" ->
                { [i \in DOMAIN v |-> v[i] + e[i]] : e \in [DOMAIN v -> Noise] }

\* _chunk_capacity
Capacity ==
    LET n == IF QuantizationBits = 8 THEN BytesPerChunk - 8 ELSE BytesPerChunk \div 4
    IN  IF n < 1 THEN 1 ELSE n

\* quantize_chunk: a value goes up or down at random, but those of the grid
\* stay; a chunk of one value has no scale.
Quantized(v, min, max) ==
    IF min = max THEN {0}
    ELSE LET scaled == (v - min) * 255
             low == scaled \div (max - min)
         IN  IF scaled % (max - min) = 0 THEN {low} ELSE {low, low + 1}

\* dequantize_chunk, 255 times
Dequantized(q, min, max) == IF min = max THEN 255 * min ELSE 255 * min + q * (max - min)

\* decode_dense_chunk of create_chunks: what the receiver may make of the
\* slice of v from start on, and the width of its quantization.
Decoded(v, start, end) ==
    LET slice == SubSeq(v, start + 1, end)
        values == ToSet(slice)
        min == Min(values)
        max == Max(values)
        exact == [i \in DOMAIN slice |-> 255 * slice[i]]
        of == [w \in values |-> { Dequantized(q, min, max) : q \in Quantized(w, min, max) }]
    IN  IF QuantizationBits = 8
        THEN { [start |-> start, end |-> end, width |-> max - min, data |-> a] :
                 a \in { d \in [DOMAIN slice -> UNION Range(of)] :
                           \A i \in DOMAIN slice : d[i] \in of[slice[i]] } }
        ELSE { [start |-> start, end |-> end, width |-> 0, data |-> exact] }

\* Mutant: a last chunk that is not full is forgotten.
FullStarts(length) == { s \in 0..length - Capacity : s % Capacity = 0 }

Starts(length) == { s \in 0..length - 1 : s % Capacity = 0 }

\* The sets of chunks a vector may be sent as.
Encodings(v) ==
    LET end(s) == IF s + Capacity < Len(v) THEN s + Capacity ELSE Len(v)
        choices == [ s \in Starts(Len(v)) |-> Decoded(v, s, end(s)) ]
    IN  { Range(c) : c \in { d \in [DOMAIN choices -> UNION Range(choices)] :
                               \A s \in DOMAIN choices : d[s] \in choices[s] } }

(***************************************************************************)
(* aggregator.py                                                           *)
(***************************************************************************)
Mean(sum, count) == [sum |-> sum, count |-> count]
Covers(c, i) == c.start < i /\ i <= c.end

\* _aggregate_fedavg: the local vector v and the chunks C with their senders.
FedAvg(v, C) ==
    [i \in DOMAIN v |->
       LET with == { c \in C : Covers(c[2], i) }
       IN  Mean(v[i] + SumOver([c \in with |-> c[2].data[i - c[2].start]], with),
                1 + Cardinality(with))]

Distance(v, w) == SumOver([i \in DOMAIN v |-> (v[i] - w[i]) * (v[i] - w[i])], DOMAIN v)

\* Mutant: the number of fragments to distrust is not limited.
AssumedUnlimited(n) == (config.fraction * n) \div 100

\* How many of n fragments _aggregate_krum takes for Byzantine.
Assumed(n) == Min({ (config.fraction * n) \div 100, (n - 3) \div 2 })

\* The sum of the distances of fragment f of F to its k nearest others.
Score(F, f) ==
    LET n == Cardinality(F)
        to == { <<g[1], Distance(f[2], g[2])>> : g \in F \ {f} }
    IN  Min({ SumOver([g \in K |-> g[2]], K) : K \in kSubset(n - Assumed(n) - 2, to) })

\* The fragments, with their nodes, of the weights from start on: that of v
\* and those that came.
Fragments(v, C, start) ==
    LET group == { c \in C : c[2].start = start }
    IN  { <<c[1], c[2].data>> : c \in group }
          \cup { <<0, SubSeq(v, start + 1, c[2].end)>> : c \in group }

\* What becomes of the fragments F of a chunk: up to two are averaged, of
\* more one with the least score is taken.
Chosen(F) ==
    LET n == Cardinality(F)
        weights == DOMAIN (CHOOSE f \in F : TRUE)[2]
        best == Min({ Score(F, f) : f \in F })
    IN  IF n <= 2
        THEN { [i \in weights |-> Mean(SumOver([f \in F |-> f[2][i]], F), n)] }
        ELSE { [i \in weights |-> Mean(f[2][i], 1)] : f \in { g \in F : Score(F, g) = best } }

\* _aggregate_krum: weights of which no chunk came stay.
Krum(v, C) ==
    LET starts == { c[2].start : c \in C }
        chosen == UNION { {s} \X Chosen(Fragments(v, C, s)) : s \in starts }
    IN  { [i \in DOMAIN v |->
             IF \E x \in pick : x[1] < i /\ i - x[1] \in DOMAIN x[2]
             THEN LET x == CHOOSE x \in pick : x[1] < i /\ i - x[1] \in DOMAIN x[2]
                  IN  x[2][i - x[1]]
             ELSE Mean(v[i], 1)] :
            pick \in { P \in kSubset(Cardinality(starts), chosen) :
                         { x[1] : x \in P } = starts } }

(***************************************************************************)
(* The round                                                               *)
(***************************************************************************)
Configs ==
    [algorithm : {"fedavg"}, fraction : {0}, attack : Attacks]
      \cup [algorithm : {"krum"}, fraction : FractionsPct, attack : Attacks]

Init ==
    /\ phase = "load"
    /\ draw \in [size : ClassSizes, share : Shares]
    /\ samples = [n \in Nodes |-> {}]
    /\ config \in Configs
    /\ model = <<>> /\ result = <<>>
    /\ flat = [p \in Peers |-> <<>>]
    /\ sent = [p \in Peers |-> {}]
    /\ missing = {}

\* Every node draws the same and takes its part.
LoadPartition ==
    /\ phase = "load"
    /\ samples' = [n \in Nodes |-> Partition(draw, n)]
    /\ phase' = "train"
    /\ UNCHANGED <<draw, config, model, flat, sent, missing, result>>

\* Any model may come of any data; the data is not looked at any more.
Train ==
    /\ phase = "train"
    /\ model' \in [Nodes -> Models]
    /\ draw' = <<>>
    /\ samples' = [n \in Nodes |-> {}]
    /\ phase' = "exchange"
    /\ UNCHANGED <<config, flat, sent, missing, result>>

\* ModelHandler.create_chunks of a peer
CreateChunks(p) ==
    /\ phase = "exchange" /\ flat[p] = <<>>
    /\ \E v \in Attacked(Flatten(model[p]), p) :
         /\ flat' = [flat EXCEPT ![p] = v]
         /\ \E chunks \in Encodings(v) : sent' = [sent EXCEPT ![p] = chunks]
    /\ UNCHANGED <<phase, draw, samples, config, model, missing, result>>

\* The node's own vector, 255 times.
Local == [i \in DOMAIN Flatten(model[0]) |-> 255 * Flatten(model[0])[i]]

Sent == UNION { {p} \X sent[p] : p \in Peers }

\* Aggregator.aggregate of node 0, with what came of the peers' chunks.
Aggregate ==
    /\ phase = "exchange"
    /\ \A p \in Peers : flat[p] # <<>>
    /\ \E k \in 0..MaxMissing : missing' \in kSubset(k, Sent)
    /\ LET arrived == Sent \ missing'
       IN  \E v \in IF config.algorithm = "krum" THEN Krum(Local, arrived)
                     ELSE { FedAvg(Local, arrived) } :
             result' = Unflatten(v, model[0])
    /\ phase' = "done"
    /\ UNCHANGED <<draw, samples, config, model, flat, sent>>

Next == LoadPartition \/ Train \/ (\E p \in Peers : CreateChunks(p)) \/ Aggregate

Spec == Init /\ [][Next]_vars

(***************************************************************************)
(* Properties                                                              *)
(***************************************************************************)

\* The parts of the nodes, each computed by its node alone, are disjoint and
\* together the whole class: no sample is lost to rounding or used twice.
PartitionsCover ==
    phase = "train" =>
      /\ \A i \in 1..draw.size : \E n \in Nodes : i \in samples[n]
      /\ \A n, o \in Nodes : n # o => samples[n] \cap samples[o] = {}

\* The peers whose chunk with weight i was not lost.
Contributors(i) ==
    { p \in Peers : ~\E c \in missing : c[1] = p /\ Covers(c[2], i) }

\* What a weight of a peer counts as.
Contribution(p, t, i) ==
    IF config.attack = "sign_flip" /\ IsByzantine(p) THEN -model[p][t][i] ELSE model[p][t][i]

\* The widths of all quantizations together.
Width == SumOver([c \in Sent \ missing |-> c[2].width], Sent \ missing)

\* The weight is the mean of this node's and of what came, up to the widths.
IsMeanOfContributions(t, i) ==
    LET with == Contributors(Offset(t) + i)
        true == 255 * (model[0][t][i]
                         + SumOver([p \in with |-> Contribution(p, t, i)], with))
    IN  /\ result[t][i].count = 1 + Cardinality(with)
        /\ result[t][i].sum - true \in -Width..Width

\* From the tensors of one node to those of another, through flattening,
\* falsification, chunks, quantization and aggregation: with fedavg every
\* weight becomes the mean of this node's and of those of all peers whose
\* chunk with it came, up to the quantization, and a weight of a Byzantine
\* peer counts with its sign turned; the counters are this node's.
MeanOfContributions ==
    phase = "done" /\ config.algorithm = "fedavg" /\ config.attack # "gaussian_noise" =>
      \A t \in DOMAIN Tensors :
        IF Tensors[t].tracked THEN result[t] = model[0][t]
        ELSE \A i \in 1..Tensors[t].numel : IsMeanOfContributions(t, i)

Within(C) == Max({ Distance(f[2], g[2]) : f, g \in C })

\* If all but b of the fragments F are close to each other and the b others
\* far from them, with b within the configured fraction and 2b + 2 below their
\* number, then what was taken is one of those that are close.
TakenFromMost(F, taken) ==
    LET n == Cardinality(F)
    IN  \A b \in 0..(config.fraction * n) \div 100 :
          2 * b + 2 < n =>
            \A C \in kSubset(n - b, F) :
              (\A f \in C, g \in F \ C : Distance(f[2], g[2]) > n * Within(C))
                => \E f \in C : \A i \in DOMAIN taken : taken[i] = Mean(f[2][i], 1)

\* Krum takes no outlier, whichever fragment it is: it may be the node's own.
KrumHonest ==
    phase = "done" /\ config.algorithm = "krum" =>
      \A c \in Sent \ missing :
        TakenFromMost(Fragments(Local, Sent \ missing, c[2].start),
                      SubSeq(Flatten(result), c[2].start + 1, c[2].end))
=============================================================================
