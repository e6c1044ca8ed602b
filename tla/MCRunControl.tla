---------------------------- MODULE MCRunControl ----------------------------
(* TLC instance of RunControl: a run of a node that stays, one that joins      *)
(* late and one that exits early; or runs of up to two of them one after       *)
(* another, which differ in their nodes and rounds.                            *)
EXTENDS RunControl, TLC

CONSTANTS stays, late, early

MCConfig ==
    {[nodes |-> {stays, late, early}, late |-> {late}, early |-> {early}, rounds |-> 2],
     [nodes |-> {stays, late}, late |-> {late}, early |-> {}, rounds |-> 1],
     [nodes |-> {late}, late |-> {late}, early |-> {}, rounds |-> 2]}
=============================================================================
