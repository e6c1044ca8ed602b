------------------------------ MODULE MCInbound ------------------------------
(* A TLC instance of Inbound: chunks of two nodes and two rounds, on both    *)
(* sides of the limits of a one-byte varint; the name of one node begins    *)
(* with that of the other.                                                 *)
EXTENDS Inbound

CONSTANTS small, large

Part(n, r) == [node |-> n, kind |-> "model_part", round |-> r, part |-> 0]

MCHeader == {Part("n1", 63), Part("n2", 63), Part("n2", 64)}
MCOwn == {Part("n1", 63)}
MCNames == "dfl" :> <<100, 102>> @@ "n1" :> <<110, 49>> @@ "n2" :> <<110, 49, 48>>
           @@ "model_part" :> <<109>> @@ "relay" :> <<114>>
           @@ "weights" :> <<119>> @@ "forward" :> <<102>> @@ "packet" :> <<112>>
MCPayloads == small :> <<7>> @@ large :> [i \in 1..64 |-> i + 191]
MCSize == small :> 1 @@ large :> 64

\* Names that contain slashes and backslashes, though none begins or ends with a
\* slash: as nodes' names do not contain them, this is checked by itself.
Name == LET chars == {97, Slash, Backslash}
        IN  {n \in UNION {[1..k -> chars] : k \in 1..3} : n[1] # Slash /\ Last(n) # Slash}
PathOfNames == \A a, b \in Name : ToTuple(FromTuple(<<a, b>>)) = <<a, b>>

ASSUME PathOfNames
=============================================================================
