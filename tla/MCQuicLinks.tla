---------------------------- MODULE MCQuicLinks ----------------------------
(* TLC instances of QuicLinks: two connections, a new one and an old one that *)
(* one of the ends has not given up yet.                                     *)
EXTENDS QuicLinks, TLC

CONSTANTS c1, c2, none
=============================================================================
