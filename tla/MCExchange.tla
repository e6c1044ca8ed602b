----------------------------- MODULE MCExchange -----------------------------
(* TLC instance of Exchange: three nodes, of which each dials one of the others, *)
(* as 0, 1 and 2 do by the parity of their sums.                                 *)
EXTENDS Exchange, TLC

CONSTANTS n1, n2, n3

MCDials == {<<n1, n3>>, <<n3, n2>>, <<n2, n1>>}

\* The nodes may be exchanged as far as the same ones dial.
Rotations ==
    {f \in Permutations(Nodes) : \A x \in MCDials : <<f[x[1]], f[x[2]]>> \in MCDials}
=============================================================================
