----------------------------- MODULE MCMoQCache -----------------------------
(* A TLC instance of MoQCache alone: a node receives packets passed on by a  *)
(* peer, which all travel under one header.                                 *)
EXTENDS MoQCache, TLC

CONSTANTS small, large

MCRelay == {[node |-> "n2", kind |-> "relay", round |-> 0, part |-> 0]}
MCSize == small :> 1 @@ large :> 2
=============================================================================
