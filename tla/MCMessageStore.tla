--------------------------- MODULE MCMessageStore ---------------------------
(* TLC instance of MessageStore: a window smaller than one round's traffic, *)
(* so that eviction happens, and fragments of past, current and next rounds. *)
EXTENDS MessageStore, TLC

CONSTANTS a1, a2, b1, b2

MCRoundOf == a1 :> 1 @@ a2 :> 2 @@ b1 :> 2 @@ b2 :> 3
=============================================================================
