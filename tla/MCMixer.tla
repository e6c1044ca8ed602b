------------------------------ MODULE MCMixer ------------------------------
(* TLC instance of Mixer: batches of two, more items than a batch, and an     *)
(* event loop that is late by more than an interval.                          *)
EXTENDS Mixer, TLC

CONSTANTS m1, m2, m3, cover, none

Symmetry == Permutations(Item)
=============================================================================
