-------------------------- MODULE MCResendManager --------------------------
(* TLC instances of ResendManager: two fragments and a probe in two rounds   *)
(* to one peer, or a fragment to two peers.                                  *)
EXTENDS ResendManager, TLC

CONSTANTS f1, f2, probe, p1, p2

MCPayload == {f1, f2, probe}
MCRoundOf == f1 :> 1 @@ probe :> 2 @@ f2 :> 2
OneRound == f1 :> 1 @@ f2 :> 1 @@ probe :> 1
MCStarts == {[peers |-> {p1}, script |-> <<f1, probe, f2>>],
             [peers |-> {p1, p2}, script |-> <<f1>>]}
TwoStarts == {[peers |-> {p1}, script |-> <<f1, f2>>]}
=============================================================================
